------------------------------ MODULE MCCodec ------------------------------
(***************************************************************************)
(* Duty cycles 0, 0.5, 1 and -0 as floats; noise of fields 1 to 3 in every *)
(* wire type, of lengths that are too long or beyond 32 bits, of a negative*)
(* boolean, of a field that breaks off and of the zero tag.                *)
(***************************************************************************)
EXTENDS PbCodec
MCDuties == {{}, 24 .. 29, 23 .. 29, {31}}
MCNoise ==
    LET a == 0 .. 7
    IN  {<<{}>>, <<{3}, {0}, {3}, {1}>>, <<{3}, {7}, {7}, {4}>>, <<{1, 3}, {1}, a, {0}>>,
         <<{1, 3}, a, a, a, a, 0 .. 3>>, <<{1, 4}, {}>>, <<{1, 4}, {2}, a, {}, {}, {3}>>,
         <<{4}, a, a, a, a, a, a, a, a, a, {0}>>, <<{0, 2, 4}, {}, {}, {7}, {6}>>,
         <<{1, 3, 4}, {0}, {1}>>, <<{1, 3, 4}, {0, 1}, {1}, {}, {0}>>, <<{7}, {7}>>}
=============================================================================
