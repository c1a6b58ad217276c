---------------------------- MODULE MCActionTree ----------------------------
(* The shape of the universal tree: a restart root over a once-per-function *)
(* leaf and a repeating group, which nests another repeating group around a *)
(* rule pool, followed by a one-act leaf.                                   *)
EXTENDS ActionTree

CONSTANTS universal, start, fullloop, mainloop, oppool, tail

MCNode == {universal, start, fullloop, mainloop, oppool, tail}
MCChildren == [n \in MCNode |->
    CASE n = universal -> <<start, fullloop>>
      [] n = fullloop  -> <<mainloop, tail>>
      [] n = mainloop  -> <<oppool>>
      [] OTHER         -> <<>>]
MCParent == [n \in MCNode |->
    CASE n \in {mainloop, tail} -> fullloop
      [] n = oppool -> mainloop
      [] OTHER -> universal]
MCFlags == [n \in MCNode |->
    CASE n \in {universal, start} -> {"once"}
      [] n = tail -> {"oneact"}
      [] OTHER -> {"repeat"}]
=============================================================================
