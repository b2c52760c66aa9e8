----------------------------- MODULE MCHeatMap -----------------------------
(* Three small clusters: a node that is created again under its name; a     *)
(* namespace and a pod, in another namespace, that have the same name; and  *)
(* two pods, the name of one of which continues that of the other.          *)
EXTENDS HeatMap

Object(kind, ns, name, uid) == [kind |-> kind, namespace |-> ns, name |-> name, uid |-> uid]

Nodes == {Object("Node", "", "n1", "u1"), Object("Node", "", "n1", "u2")}
Pods  == {Object("Namespace", "", "a", "u1"), Object("Pod", "default", "a", "u2")}
Dots  == {Object("Pod", "default", "a", "u1"), Object("Pod", "default", "a.b", "u2")}

MCPopulations == {Nodes, Pods, Dots}

Names == {"n1", "a", "a.b"}

Select(kind, ns, name, uid) ==
    [kind |-> kind, namespace |-> ns, match |-> Names, name |-> name, uid |-> uid,
     dotted |-> IF name = "a" THEN {"a", "a.b"} ELSE {name}]

(* all of a namespace, one resource; and everything                         *)
MCSelections(population) ==
    CASE population = Nodes -> {Select(All, "a", All, All), Select(All, All, All, All),
                                Select("Node", "a", "n1", "u1")}
      [] population = Pods  -> {Select(All, "a", All, All), Select("Pod", "default", "a", "u2")}
      [] population = Dots  -> {Select("Pod", "default", "a", All)}

Span(s, e) == [start |-> s, end |-> e]

(* both begin within a partition; one ends within one, too, a while ago     *)
MCRanges == {Span(1, 2), Span(1, 4)}

(* ends before now, in a partition with time for a deletion to come first   *)
MCNewestRanges == {Span(1, 3)}
=============================================================================
