------------------------ MODULE MCContainerRemount --------------------------
(* A pod with two volumes: the first, published read-only, is mounted      *)
(* twice in the first container, once with a subPath; the second volume is *)
(* mounted in the second container.                                        *)
EXTENDS ContainerRemount

CONSTANTS m1, m2, m3, c1, c2

MCMounts == {m1, m2, m3}
MCContainers == {c1, c2}
MCVolOf == [m \in MCMounts |-> IF m = m3 THEN 2 ELSE 1]
MCIn == [m \in MCMounts |-> IF m = m3 THEN c2 ELSE c1]
MCRootOf == [m \in MCMounts |-> IF m = m2 THEN "/sub" ELSE "/"]
=============================================================================
