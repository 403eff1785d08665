--------------------------- MODULE MCExcelArrivals ---------------------------
EXTENDS ExcelArrivals

\* With a watched folder one check of the inbox at a time, without one two.
OneChecker == {CHOOSE c \in Checkers : TRUE}
MCSetups == {[watch |-> "watchdog", pool |-> OneChecker],
             [watch |-> "polling", pool |-> OneChecker],
             [watch |-> "no", pool |-> Checkers]}
=============================================================================
