---------------------------- MODULE TermClasses ----------------------------
(***************************************************************************)
(* What the type checker is promised by its constraint solver: a partition *)
(* of the type terms that only ever gets coarser, one pair of compatible   *)
(* classes at a time.  A class stands for one type.  It may hold any       *)
(* number of type variables, but its rigid terms (the ones that are not    *)
(* variables) must describe the same type: one base type, or function      *)
(* types of one arity.                                                     *)
(***************************************************************************)
EXTENDS TypeTerms

Rigid(C) == C \ TypeVars

VARIABLE classes

Init == classes = {{t} : t \in Terms}

(* Two compatible classes become one, the others stay what they are.       *)
Next ==
  LET old == classes
      new == classes'
  IN  \E C, D \in old :
        /\ C # D
        /\ \A s \in Rigid(C), t \in Rigid(D) : Compatible(s, t)
        /\ new = (old \ {C, D}) \cup {C \cup D}

Spec == Init /\ [][Next]_classes
=============================================================================
