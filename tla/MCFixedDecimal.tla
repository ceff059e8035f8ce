--------------------------- MODULE MCFixedDecimal ---------------------------
(* Parsing and printing with the narrowest types a u8 converts into: u8     *)
(* and a signed type of nine bits, with precisions up to one at which their *)
(* unit does not fit.                                                       *)
EXTENDS FixedDecimal

MCFormats ==
  [min : {0}, max : {255}, precision : 0 .. 3]
    \cup [min : {-256}, max : {255}, precision : 0 .. 3]
=============================================================================
