--------------------------- MODULE MCKubeWatcher ---------------------------
(* Model checking of KubeWatcher: see MCKubeWatcher*.cfg for the instances.  *)
EXTENDS KubeWatcher, TLC

(* CRDs and crdInformerInfo objects are interchangeable: nothing orders     *)
(* them.  Used by the runs that check only safety.                          *)
Symmetry == Permutations(Crds) \cup Permutations(Informers)
=============================================================================
