---------------------------- MODULE MCOSMetaClass ----------------------------
(* Instances of OSMetaClass for TLC: two kexts, whose classes may share a  *)
(* name or derive from a class of the kernel, "base".                      *)
EXTENDS OSMetaClass

CONSTANTS k1, k2, c1, c2, c3, base

MCStructors ==
  [k \in Kexts |->
    IF k = k1 THEN << [segment |-> 1, class |-> c1], [segment |-> 2, class |-> c2] >>
    ELSE << [segment |-> 1, class |-> c3] >>]

(* The name of c1 is that of the class of the other kext. *)
SharedNames == [c \in Classes |-> IF c = c2 THEN "B" ELSE "A"]

OwnNames ==
  [c \in Classes |-> CASE c = c1 -> "A" [] c = c2 -> "B" [] c = base -> "O" [] OTHER -> "C"]

NoSupers == [c \in Classes |-> None]

(* c1 and c3 derive from a class of the kernel. *)
KernelSuper == [c \in Classes |-> IF c \in {c1, c3} THEN base ELSE None]
=============================================================================
