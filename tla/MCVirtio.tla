----------------------------- MODULE MCVirtio ------------------------------
\* Model checking of Virtio: a queue of three, indices that wrap at six.
EXTENDS Virtio
=============================================================================
