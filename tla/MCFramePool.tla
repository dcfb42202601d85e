---------------------------- MODULE MCFramePool ----------------------------
EXTENDS FramePool
=============================================================================
