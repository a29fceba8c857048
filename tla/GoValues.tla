------------------------------ MODULE GoValues ------------------------------
\* The two values of a column that the code treats in a way of their own.
CONSTANTS
  Zero,  \* the zero value of a Go type
  Null   \* SQL NULL, and the nil pointer of a domain struct

ASSUME ValueAssumption == Zero # Null
=============================================================================
