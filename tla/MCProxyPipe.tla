----------------------------- MODULE MCProxyPipe -----------------------------
(* Three writes of ssh are enough for one that is sent, one that waits in the
   send buffer and one that finds the buffer full; two of the remote for one that
   arrives and one that a reset overtakes. *)
EXTENDS ProxyPipe
=============================================================================
