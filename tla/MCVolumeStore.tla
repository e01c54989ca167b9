--------------------------- MODULE MCVolumeStore ---------------------------
(* Instances of VolumeStore for TLC: threads are interchangeable,
   and so are volumes. *)
EXTENDS VolumeStore, TLC

Symmetric == Permutations(Thread) \cup Permutations(Volume)
=============================================================================
