---------------------------- MODULE TunerPromise ----------------------------
(***************************************************************************)
(* What tuner sharing promises (proxy/src/tuner_share.rs, module comment): *)
(* a channel being watched occupies one tuner however many people watch    *)
(* it, and an unwatched channel gives its tuner back.  The map from        *)
(* channels to pumps, the request that opens a connection and the pump     *)
(* that drains it are not visible here.                                    *)
(***************************************************************************)
CONSTANTS Channel, Client, Tuner, NoChannel

VARIABLES
    tuned,     \* the channels that occupy a shared tuner
    watching   \* watching[c]: the channel client c receives, or NoChannel

promiseVars == <<tuned, watching>>

PInit == tuned = {} /\ watching = [c \in Client |-> NoChannel]

(* The device can serve a set of channels at once: one tuner for each. *)
Fits(S) == \E tuner \in [S -> Tuner] : \A ch, dh \in S : tuner[ch] = tuner[dh] => ch = dh

(* A viewer of a channel that has a tuner shares it; the first one takes a   *)
(* tuner the device has left.                                                *)
TuneIn(c, ch) ==
    /\ watching[c] = NoChannel
    /\ watching' = [watching EXCEPT ![c] = ch]
    /\ tuned' = tuned \cup {ch}
    /\ Fits(tuned')

TuneOut(c) ==
    /\ watching[c] # NoChannel
    /\ watching' = [watching EXCEPT ![c] = NoChannel]
    /\ UNCHANGED tuned

(* The tuner is given back; whoever still watches is cut off. *)
Release(ch) ==
    /\ ch \in tuned
    /\ tuned' = tuned \ {ch}
    /\ watching' = [c \in Client |-> IF watching[c] = ch THEN NoChannel ELSE watching[c]]

PNext == \/ \E c \in Client : TuneOut(c) \/ \E ch \in Channel : TuneIn(c, ch)
         \/ \E ch \in Channel : Release(ch)

PSpec == PInit /\ [][PNext]_promiseVars

=============================================================================
