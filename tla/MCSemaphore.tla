----------------------------- MODULE MCSemaphore -----------------------------
(* Task5 alone needs no matrices; these are as small as can be.             *)
EXTENDS Multithreading

One == <<<<1>>>>
=============================================================================
