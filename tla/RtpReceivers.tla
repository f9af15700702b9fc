---------------------------- MODULE RtpReceivers ----------------------------
(***************************************************************************)
(* The receivers of the RTP server: rtp_server_add_receiver and            *)
(* rtp_server_remove_receiver of rtp_server.c, called by the handlers of   *)
(* SIGUSR1 and SIGUSR2 in main.c. A handler blocks only its own signal and *)
(* only on its own thread, so that calls may overlap. The server is up;    *)
(* its state changes when the queue of the appsrc fills and drains.        *)
(***************************************************************************)
EXTENDS Naturals, FiniteSets

CONSTANTS
  Addrs,    \* the addresses of receivers
  Within,   \* <<a, b>>: the string of address a occurs in that of address b
  Calls,    \* calls that may be under way at a time
  RTP_SRV_MAX_RECEIVERS  \* the size of ctl->receivers

ASSUME WithinAssumption == Within \subseteq Addrs \X Addrs

ASSUME MaxAssumption == RTP_SRV_MAX_RECEIVERS \in Nat

Sinks == {"rtp", "rtcp"}

\* What keeps a call from doing its work: another one that overlaps with it,
\* the removal after a failed add that is refused, an unverified removal.
Mishaps == {"overlap", "refused", "unverified"}

VARIABLES
  clients,    \* the property "clients" of rtpsink and of rtcpsink
  receivers,  \* ctl->receivers
  state,      \* rtpsrv->state
  at,         \* where each call is
  addr,       \* its argument
  ok,         \* the sinks for which rtpsinkok or rtcpsinkok is 1
  added,      \* the address, if the last call has added one and returned 0
  mishaps     \* the Mishaps so far

locals == <<at, addr, ok>>
history == <<added, mishaps>>
vars == <<clients, receivers, state, locals, history>>

None == "none"

Init ==
  /\ clients = [s \in Sinks |-> {}]
  /\ receivers = {}
  /\ state = "ACTIVE"
  /\ at = [c \in Calls |-> "idle"]
  /\ addr = [c \in Calls |-> None]
  /\ ok = [c \in Calls |-> {}]
  /\ added = None
  /\ mishaps = {}

----------------------------------------------------------------------------

\* strstr(clients, ipv4string) != NULL
Listed(s, a) == \E b \in clients[s] : a = b \/ <<a, b>> \in Within

\* rtp_server_update_stats: the clients of rtpsink, or as many of them as
\* there is room for.
Publish ==
  \E shown \in SUBSET clients["rtp"] :
    /\ \/ shown = clients["rtp"] /\ Cardinality(shown) <= RTP_SRV_MAX_RECEIVERS
       \/ shown # clients["rtp"] /\ Cardinality(shown) = RTP_SRV_MAX_RECEIVERS
    /\ receivers' = shown

Idle == \A c \in Calls : at[c] = "idle"

Go(c, from, to) ==
  /\ at[c] = from
  /\ at' = [at EXCEPT ![c] = to]

Return(c, from) ==
  /\ Go(c, from, "idle")
  /\ addr' = [addr EXCEPT ![c] = None]
  /\ ok' = [ok EXCEPT ![c] = {}]

\* rtp_server_queue_full and rtp_server_queue_ready
QueueChange ==
  /\ state' = IF state = "ACTIVE" THEN "QUEUE_FULL" ELSE "ACTIVE"
  /\ UNCHANGED <<clients, receivers, locals, history>>

\* The call starts; one that finds the server not active returns at once.
Begin(c, a, step) ==
  /\ state = "ACTIVE"
  /\ Go(c, "idle", step)
  /\ addr' = [addr EXCEPT ![c] = a]
  /\ added' = None
  /\ mishaps' = IF Idle THEN mishaps ELSE mishaps \cup {"overlap"}
  /\ UNCHANGED <<clients, receivers, state, ok>>

----------------------------------------------------------------------------

\* The address is looked up in sink s, and added unless it is there.
AddTest(c, s, from, emit, verify) ==
  /\ Go(c, from, IF Listed(s, addr[c]) THEN verify ELSE emit)
  /\ UNCHANGED <<clients, receivers, state, addr, ok, history>>

\* The signal "add" is emitted, with or without success: new is what it adds.
AddEmit(c, s, new, from, verify) ==
  /\ Go(c, from, verify)
  /\ clients' = [clients EXCEPT ![s] = @ \cup new]
  /\ UNCHANGED <<receivers, state, addr, ok, history>>

\* Mutant of AddVerify: the signal is taken to have worked.
AddVerifyNot(c, s, from, to) ==
  /\ Go(c, from, to)
  /\ ok' = [ok EXCEPT ![c] = @ \cup {s}]
  /\ UNCHANGED <<clients, receivers, state, addr, history>>

\* The address is looked up again.
AddVerify(c, s, from, to) ==
  /\ Go(c, from, to)
  /\ ok' = [ok EXCEPT ![c] = IF Listed(s, addr[c]) THEN @ \cup {s} ELSE @]
  /\ UNCHANGED <<clients, receivers, state, addr, history>>

\* Mutant of AddDone: the receivers are left to the timer.
AddDoneQuiet(c) ==
  /\ Return(c, "end")
  /\ ok[c] = Sinks
  /\ added' = addr[c]
  /\ UNCHANGED <<clients, receivers, state, mishaps>>

\* Both sinks have it: rtp_server_update_stats publishes the receivers.
AddDone(c) ==
  /\ Return(c, "end")
  /\ ok[c] = Sinks
  /\ Publish
  /\ added' = addr[c]
  /\ UNCHANGED <<clients, state, mishaps>>

\* Mutant of AddUndo: what one sink has got stays there.
AddUndoNot(c) ==
  /\ Return(c, "end")
  /\ ok[c] # Sinks
  /\ UNCHANGED <<clients, receivers, state, history>>

\* "Just in case it was added on only one of them":
\* rtp_server_remove_receiver, unless it finds the server not active.
AddUndo(c) ==
  /\ ok[c] # Sinks
  /\ \/ /\ state = "ACTIVE"
        /\ Go(c, "end", "remove rtp")
        /\ ok' = [ok EXCEPT ![c] = {}]
        /\ UNCHANGED <<addr, mishaps>>
     \/ /\ state # "ACTIVE"
        /\ Return(c, "end")
        /\ mishaps' = mishaps \cup {"refused"}
  /\ UNCHANGED <<clients, receivers, state, added>>

rtp_server_add_receiver(c) ==
  \/ \E a \in Addrs : Begin(c, a, "test rtp")
  \/ AddTest(c, "rtp", "test rtp", "emit rtp", "verify rtp")
  \/ \E new \in SUBSET {addr[c]} : AddEmit(c, "rtp", new, "emit rtp", "verify rtp")
  \/ AddVerify(c, "rtp", "verify rtp", "test rtcp")
  \/ AddTest(c, "rtcp", "test rtcp", "emit rtcp", "verify rtcp")
  \/ \E new \in SUBSET {addr[c]} : AddEmit(c, "rtcp", new, "emit rtcp", "verify rtcp")
  \/ AddVerify(c, "rtcp", "verify rtcp", "end")
  \/ AddDone(c) \/ AddUndo(c)

----------------------------------------------------------------------------

\* The signal "remove" is emitted for sink s.
RemoveEmit(c, s, from, to) ==
  /\ Go(c, from, to)
  /\ clients' = [clients EXCEPT ![s] = @ \ {addr[c]}]
  /\ UNCHANGED <<receivers, state, addr, ok, history>>

\* The address should not be found any more.
RemoveVerify(c, s, from, to) ==
  /\ Go(c, from, to)
  /\ ok' = [ok EXCEPT ![c] = IF Listed(s, addr[c]) THEN @ ELSE @ \cup {s}]
  /\ UNCHANGED <<clients, receivers, state, addr, history>>

\* The receivers are published if it was found in neither sink.
RemoveEnd(c) ==
  /\ Return(c, "remove end")
  /\ \/ ok[c] = Sinks /\ Publish /\ UNCHANGED mishaps
     \/ /\ ok[c] # Sinks
        /\ mishaps' = mishaps \cup {"unverified"}
        /\ UNCHANGED receivers
  /\ UNCHANGED <<clients, state, added>>

rtp_server_remove_receiver(c) ==
  \/ \E a \in Addrs : Begin(c, a, "remove rtp")
  \/ RemoveEmit(c, "rtp", "remove rtp", "gone rtp")
  \/ RemoveVerify(c, "rtp", "gone rtp", "remove rtcp")
  \/ RemoveEmit(c, "rtcp", "remove rtcp", "gone rtcp")
  \/ RemoveVerify(c, "rtcp", "gone rtcp", "remove end")
  \/ RemoveEnd(c)

\* The timer of the main loop.
rtp_server_update_stats ==
  /\ Publish
  /\ UNCHANGED <<clients, state, locals, history>>

Next ==
  \/ QueueChange
  \/ \E c \in Calls : rtp_server_add_receiver(c) \/ rtp_server_remove_receiver(c)
  \/ rtp_server_update_stats

Spec == Init /\ [][Next]_vars

----------------------------------------------------------------------------
(* Properties *)

Steps == {"idle", "test rtp", "emit rtp", "verify rtp", "test rtcp", "emit rtcp",
          "verify rtcp", "end", "remove rtp", "gone rtp", "remove rtcp",
          "gone rtcp", "remove end"}

\* A call that is under way has an address, and the sinks and the control
\* segment hold nothing but such addresses.
TypeOK ==
  /\ clients \in [Sinks -> SUBSET Addrs]
  /\ receivers \in SUBSET Addrs
  /\ state \in {"ACTIVE", "QUEUE_FULL"}
  /\ at \in [Calls -> Steps]
  /\ addr \in [Calls -> Addrs \cup {None}]
  /\ \A c \in Calls : at[c] # "idle" => addr[c] \in Addrs
  /\ ok \in [Calls -> SUBSET Sinks]
  /\ added \in Addrs \cup {None}
  /\ mishaps \in SUBSET Mishaps

\* "They are supposed to have the same receivers anyway":
\* a receiver that one sink has accepted and the other has not is taken back,
\* so that between two calls both sinks serve the same receivers, unless
\* calls have overlapped or the queue was full when it was to be taken back.
SinksAgree ==
  Idle /\ mishaps \subseteq {"unverified"} => clients["rtp"] = clients["rtcp"]

\* Whatever way a call takes, the control segment shows what rtpsink serves
\* when it is through, and not only after the next tick of the timer, unless
\* there was a mishap. A receiver is left out only when there is no room.
Published ==
  Idle /\ mishaps = {} =>
    /\ receivers \subseteq clients["rtp"]
    /\ receivers = clients["rtp"] \/ Cardinality(receivers) = RTP_SRV_MAX_RECEIVERS

\* "Add to rtpsink and verify": the address for which the last call,
\* rtp_server_add_receiver, has returned 0 is a receiver of both sinks, or its
\* string occurs in that of one.
AddVerified ==
  mishaps = {} /\ added # None => \A s \in Sinks : Listed(s, added)
=============================================================================
