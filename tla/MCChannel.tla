------------------------------ MODULE MCChannel ------------------------------
(* Two threads, one channel of every flavour: unbounded, rendezvous, and    *)
(* bounded by one.                                                          *)
EXTENDS ChannelProps

MCCaps == {Unbounded, 0, 1}
=============================================================================
