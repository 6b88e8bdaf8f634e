---------------------------- MODULE LockstepFair ----------------------------
(***************************************************************************)
(* Lockstep under the fairness its host gives it, and the question whether *)
(* the game goes on.  The frame loop of every client pumps for ever, and   *)
(* every pump reads the socket before it ticks; here no packet is lost for *)
(* ever.  Nothing makes a player press a key.                              *)
(***************************************************************************)
EXTENDS Lockstep

CONSTANT MaxDelay     \* for TimelySpec: how many ticks a packet may travel

ASSUME DelayAssumption == MaxDelay \in Nat

\* main.lua's frame loop: pump_network is called again and again.
Pumps(n) == WF_vars(Tick(n))

\* A packet that carries news is read by some later pump.  (Strong: the packet
\* can be read at the start of a pump only.)
Delivers(n) == SF_vars(\E m \in net : Receive(n, m))

Fairness == \A n \in Node : Pumps(n) /\ Delivers(n)

FairSpec == Spec /\ Fairness

\* The condition on which calculate_horizons halts the simulation.
Halted(n) == \E p \in Peers(n) :
    sim_tick_count[n] > LookaheadCap + Earlier(confirmed_tick[n], peer_ack_of_me[n][p])

\* "Halt simulation until peers catch up" (fsm_pacing.lua:42): a halt ends,
\* unless the bound of the model is what stops a player.
HaltEnds == \A n \in Node :
    Halted(n) ~> (~Halted(n) \/ \E p \in Node : sim_tick_count[p] > MaxTick)

-----------------------------------------------------------------------------
\* The network is timely: when n starts a tick, all it sent more than MaxDelay
\* ticks ago has been read by its peers.
Timely(n) ==
    \A m \in net : m.player_id = n /\ m.frame_tick + MaxDelay < sim_tick_count[n] =>
        \A p \in Peers(n) : /\ peer_highest_tick[p][n] >= m.frame_tick
                            /\ peer_ack_of_me[p][n] >= m.peer_acks[p]

TimelyTick(n) == Tick(n) /\ (phase[n] = "idle" => Timely(n))

TimelyNext == \E n \in Node : \/ \E c \in Command : InjectLocalCommand(n, c)
                              \/ \E m \in net : Receive(n, m)
                              \/ TimelyTick(n)

TimelySpec == /\ Init /\ [][TimelyNext]_vars
              /\ \A n \in Node : WF_vars(TimelyTick(n)) /\ Delivers(n)

\* On a timely network the game goes on: every player plays every tick.
GameGoesOn == \A n \in Node : <>(sim_tick_count[n] > MaxTick)
=============================================================================
