------------------------------ MODULE MCSgdma ------------------------------
(* Three descriptors, so that a chain of two has a descriptor to stop at.  *)
EXTENDS Sgdma

CONSTANTS d1, d2, d3
MCDescs == {d1, d2, d3}
MCSymmetry == {[d \in MCDescs |-> p[d]] : p \in
  {q \in [MCDescs -> MCDescs] : \A a, b \in MCDescs : q[a] = q[b] => a = b}}
=============================================================================
