---------------------------- MODULE MCVisualizer ----------------------------
\* Instances of Visualizer: routes and sizes of the buffer pool.
EXTENDS Visualizer, TLC

MCKinds == DOMAIN Program
MCSizes == {64, 128}
Symmetry == Permutations(Requests)
=============================================================================
