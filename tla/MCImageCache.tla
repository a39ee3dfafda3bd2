---------------------------- MODULE MCImageCache ----------------------------
(* ImageCache on small instances for TLC. *)
EXTENDS ImageCache, TLC

(* Images and temporary files, one more than the cap for every call that   *)
(* was cut short, which is then not made again.  With no such call there   *)
(* are images only.                                                        *)
MCLeftovers ==
    {l \in [names : SUBSET [url : Urls, tmp : {{}} \cup {{f} : f \in Fetches}],
            cut_short : SUBSET Fetches] :
       /\ Cardinality(l.names) <= MaxFiles + Cardinality(l.cut_short)
       /\ l.cut_short = {} => \A n \in l.names : ~IsTmp(n)}

Interchangeable == {p @@ q : p \in Permutations(Fetches), q \in Permutations(Urls)}
=============================================================================
