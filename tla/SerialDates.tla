----------------------------- MODULE SerialDates -----------------------------
(***************************************************************************)
(* Dates and times as the numbers a sheet holds: what COPY writes for a    *)
(* DATE, TIME or TIMESTAMP, and what read_xlsx makes of such a number.     *)
(*                                                                         *)
(* A serial is counted in ticks here, exactly.  The code has it in days, as *)
(* a double, whose error near today is about a microsecond: that error is  *)
(* what the rounding to whole seconds is for, and it is not modelled.      *)
(***************************************************************************)
EXTENDS Integers

CONSTANTS
    SecondsPerDay,    (* 86400                                               *)
    TicksPerSecond,   (* 10^6: a tick is a microsecond                       *)
    Tolerance,        (* 10^-3 seconds, in ticks                             *)
    DaysBetween       (* DAYS_BETWEEN_1900_AND_1970                          *)

ASSUME SerialAssumption ==
    /\ SecondsPerDay \in Nat \ {0}
    /\ TicksPerSecond \in Nat \ {0}
    /\ Tolerance \in Nat \ {0} /\ 2 * Tolerance <= TicksPerSecond
    /\ DaysBetween \in Nat

TicksPerDay == SecondsPerDay * TicksPerSecond
Epoch == DaysBetween * TicksPerDay

Timestamps == {"TIMESTAMP", "TIMESTAMP_TZ", "TIMESTAMP_SEC", "TIMESTAMP_MS", "TIMESTAMP_NS"}
Times      == {"TIME", "TIME_TZ"}

(* DateToExcelNumberFunction of days, TimeToExcelNumberFunction and          *)
(* TimestampToExcelNumberFunction of ticks, after the casts to TIME and      *)
(* TIMESTAMP; any other type is not converted.                               *)
ToSerial(type, value) ==
    CASE type = "DATE"         -> value * TicksPerDay + Epoch
      [] type \in Times        -> value
      [] type \in Timestamps   -> value + Epoch
      [] OTHER                 -> value

(* ExcelToEpochUS: a serial that is nearly a whole second is one.            *)
Nearest(ticks) == ((2 * ticks + TicksPerSecond) \div (2 * TicksPerSecond)) * TicksPerSecond
Near(a, b) == a - b < Tolerance /\ b - a < Tolerance
ExcelToEpoch(serial) ==
    (IF Near(serial, Nearest(serial)) THEN Nearest(serial) ELSE serial) - Epoch

(* TryCastDate, TryCastTime, TryCastTimestamp, by the type of the cell.      *)
FromSerial(kind, serial) ==
    LET stamp == ExcelToEpoch(serial)
    IN  CASE kind = "DATE"      -> stamp \div TicksPerDay
          [] kind = "TIME"      -> stamp % TicksPerDay
          [] kind = "TIMESTAMP" -> stamp
          [] OTHER              -> serial
=============================================================================
