---------------------------- MODULE MCStringTable ----------------------------
(* StringTable for TLC: sa and sb share a bucket, sc has one of its own.    *)
EXTENDS StringTable, TLC

CONSTANTS sa, sb, sc

Spread == sa :> 1 @@ sb :> 1 @@ sc :> 2

Mapped == <<Hole, sc>>      \* an abandoned slot and one string
=============================================================================
