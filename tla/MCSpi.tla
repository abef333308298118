------------------------------- MODULE MCSpi -------------------------------
(***************************************************************************)
(* Two short FIFOs and a pool of three elements for TLC: MCSpi.cfg, and    *)
(* MCSpiEmpty.cfg with clients that ask for nothing.  A behaviour has      *)
(* either clients that configure their bus and nobody else on it, or one   *)
(* of the other writers, which writes once: that write comes before,       *)
(* within or after any of the jobs.                                        *)
(***************************************************************************)
EXTENDS SpiDriver

MCBus == {0, 1}

\* Longer than the FIFO, with an answer to keep and one to throw away.
MCWriteReadSizes == {<<2, 1>>}

VARIABLE others   \* the bus with another writer: the display's or the DAC's

MCInit == SpiInit /\ others \in {{}, {0}, {1}}

\* A second write is left out, but for the one that does what a shift does.
MCNext ==
  /\ SpiNext
  /\ disturbed' \subseteq others
  /\ spi_write1 \/ spi_write2 =>
       disturbed' # disturbed \/ \E b \in Bus : Shift(b)
  /\ others # {} =>
       \A b \in Bus : ~obj'[b].operationStarting /\ ~obj'[b].operationEnded
  /\ UNCHANGED others

MCSpec == MCInit /\ [][MCNext]_<<spiVars, others>> /\ Fairness
=============================================================================
