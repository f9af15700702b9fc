------------------------- MODULE RtpReceiversProofs -------------------------
(***************************************************************************)
(* Proofs about rtp_server.c: about RtpReceivers, for every set of         *)
(* addresses and calls and whichever addresses contain each other's        *)
(* strings, and about RtpServer, the life cycle of the server, which has   *)
(* no constants.                                                           *)
(***************************************************************************)
EXTENDS RtpReceivers, RtpServer, TLAPS

\* A call that has not overlapped with another one is alone.
Alone ==
  "overlap" \notin mishaps =>
    \A c, d \in Calls : at[c] # "idle" /\ at[d] # "idle" => c = d

\* The local variables of a call before it verifies anything.
Fresh(c) ==
  /\ at[c] \in {"idle", "test rtp", "emit rtp", "verify rtp"} => ok[c] = {}
  /\ at[c] \in {"test rtcp", "emit rtcp", "verify rtcp"} => "rtcp" \notin ok[c]

Agree == clients["rtp"] = clients["rtcp"]

\* The sinks differ by the address a at most.
AgreeBut(a) ==
  \A b \in Addrs : b # a => (b \in clients["rtp"] <=> b \in clients["rtcp"])

\* How far the sinks are apart at each step of an add.
AddInv(c) ==
  /\ at[c] \in {"test rtp", "emit rtp"} => Agree
  /\ at[c] = "emit rtp" => ~Listed("rtp", addr[c])
  /\ at[c] \in {"verify rtp", "test rtcp"} =>
       Agree \/ (addr[c] \in clients["rtp"] /\ ~Listed("rtcp", addr[c]))
  /\ at[c] \in {"test rtcp", "emit rtcp", "verify rtcp"} =>
       ("rtp" \in ok[c] <=> Listed("rtp", addr[c]))
  /\ at[c] = "emit rtcp" => ~Listed("rtcp", addr[c])
  /\ at[c] = "verify rtcp" =>
       Agree \/ ~Listed("rtcp", addr[c]) \/ "rtp" \notin ok[c]
  /\ at[c] = "end" => (ok[c] = Sinks => Agree)

\* And at each step of a removal.
RemoveInv(c) ==
  /\ at[c] \in {"gone rtp", "remove rtcp"} => addr[c] \notin clients["rtp"]
  /\ at[c] \in {"gone rtcp", "remove end"} => Agree

PairInv ==
  mishaps \subseteq {"unverified"} =>
    /\ Idle => Agree
    /\ \A c \in Calls :
         at[c] # "idle" => AgreeBut(addr[c]) /\ AddInv(c) /\ RemoveInv(c)

\* What an add has verified in a sink is still there: nobody else can have
\* removed it.
Verified(c) ==
  /\ at[c] \in {"test rtcp", "emit rtcp", "verify rtcp", "end"} /\ "rtp" \in ok[c] =>
       Listed("rtp", addr[c])
  /\ at[c] = "end" /\ "rtcp" \in ok[c] => Listed("rtcp", addr[c])

\* An add that has returned 0 is the last call there was.
AddedInv ==
  "overlap" \notin mishaps =>
    /\ added # None => Idle /\ \A s \in Sinks : Listed(s, added)
    /\ \A c \in Calls : Verified(c)

IInv ==
  TypeOK /\ Alone /\ (\A c \in Calls : Fresh(c)) /\ PairInv /\ Published /\ AddedInv

----------------------------------------------------------------------------

\* rtp_server_update_stats shows clients of rtpsink, all or as many as fit.
LEMMA PublishShows ==
  ASSUME Publish
  PROVE  /\ receivers' \subseteq clients["rtp"]
         /\ receivers' = clients["rtp"] \/ Cardinality(receivers') = RTP_SRV_MAX_RECEIVERS
BY Zenon DEF Publish

\* It holds initially.
LEMMA InitInv == Init => IInv
<1> SUFFICES ASSUME Init PROVE IInv
  BY Zenon
<1>1. TypeOK
  BY Zenon DEF Init, TypeOK, Steps, Sinks, Mishaps, None
<1>2. Alone /\ (\A c \in Calls : Fresh(c)) /\ PairInv /\ Published
  BY Zenon DEF Init, Alone, Fresh, PairInv, Published, Agree, Sinks, None
<1>3. AddedInv
  BY Zenon DEF Init, AddedInv, Verified
<1> QED BY <1>1, <1>2, <1>3, Zenon DEF IInv

\* A step of a call keeps the types and ok of the calls that start.
LEMMA TypeStep ==
  ASSUME TypeOK, \A c \in Calls : Fresh(c), Next
  PROVE  TypeOK' /\ \A c \in Calls : Fresh(c)'
<1> USE DEF TypeOK, Steps, Sinks, Mishaps, Fresh, Go, Return, None
<1>1. CASE QueueChange
  BY <1>1, Zenon DEF QueueChange, locals, history
<1>2. CASE rtp_server_update_stats
  BY <1>2, PublishShows, Zenon DEF rtp_server_update_stats, locals, history
<1>3. ASSUME NEW c \in Calls, NEW a \in Addrs, NEW step \in {"test rtp", "remove rtp"},
             Begin(c, a, step)
      PROVE  TypeOK' /\ \A e \in Calls : Fresh(e)'
  BY <1>3, Zenon DEF Begin
<1>4. ASSUME NEW c \in Calls, NEW s \in Sinks, NEW from \in Steps, NEW emit, NEW verify,
             AddTest(c, s, from, emit, verify),
             \/ from = "test rtp" /\ emit = "emit rtp" /\ verify = "verify rtp"
             \/ from = "test rtcp" /\ emit = "emit rtcp" /\ verify = "verify rtcp"
      PROVE  TypeOK' /\ \A e \in Calls : Fresh(e)'
  <2>1. at' \in [Calls -> Steps]
    BY <1>4, Zenon DEF AddTest
  <2> QED BY <1>4, <2>1, ZenonT(30) DEF AddTest, history
<1>5. ASSUME NEW c \in Calls, NEW s \in Sinks, NEW from \in Steps, NEW verify,
             NEW new \in SUBSET {addr[c]}, AddEmit(c, s, new, from, verify),
             \/ from = "emit rtp" /\ verify = "verify rtp"
             \/ from = "emit rtcp" /\ verify = "verify rtcp"
      PROVE  TypeOK' /\ \A e \in Calls : Fresh(e)'
  <2>1. addr[c] \in Addrs /\ at' \in [Calls -> Steps]
    BY <1>5, Zenon DEF AddEmit
  <2>2. clients' \in [Sinks -> SUBSET Addrs]
    <3>1. clients \in [Sinks -> SUBSET Addrs] /\ clients[s] \cup new \in SUBSET Addrs
      BY <1>5, <2>1, Zenon
    <3> HIDE DEF TypeOK, Sinks, Fresh, Steps, Mishaps
    <3> QED BY <1>5, <3>1 DEF AddEmit
  <2> QED BY <1>5, <2>1, <2>2, Zenon DEF AddEmit, history
<1>6. ASSUME NEW c \in Calls, AddVerify(c, "rtp", "verify rtp", "test rtcp")
      PROVE  TypeOK' /\ \A e \in Calls : Fresh(e)'
  BY <1>6, Zenon DEF AddVerify, history
<1>7. ASSUME NEW c \in Calls, AddVerify(c, "rtcp", "verify rtcp", "end")
      PROVE  TypeOK' /\ \A e \in Calls : Fresh(e)'
  BY <1>7, Zenon DEF AddVerify, history
<1>8. ASSUME NEW c \in Calls, AddDone(c)
      PROVE  TypeOK' /\ \A e \in Calls : Fresh(e)'
  BY <1>8, PublishShows, ZenonT(30) DEF AddDone
<1>9. ASSUME NEW c \in Calls, AddUndo(c)
      PROVE  TypeOK' /\ \A e \in Calls : Fresh(e)'
  <2>1. /\ UNCHANGED <<clients, receivers, state, added>>
        /\ mishaps' \in {mishaps, mishaps \cup {"refused"}}
    BY <1>9, Zenon DEF AddUndo
  <2>2. /\ at' \in [Calls -> Steps] /\ at'[c] \in {"idle", "remove rtp"}
        /\ ok' = [ok EXCEPT ![c] = {}] /\ at[c] = "end"
        /\ addr' \in [Calls -> Addrs \cup {None}]
        /\ \A e \in Calls : e # c => at'[e] = at[e] /\ addr'[e] = addr[e]
        /\ at'[c] # "idle" => addr' = addr
    BY <1>9, ZenonT(30) DEF AddUndo
  <2> QED BY <2>1, <2>2, ZenonT(30)
<1>10. ASSUME NEW c \in Calls, NEW s \in Sinks, NEW from \in Steps, NEW to,
              RemoveEmit(c, s, from, to),
              \/ from = "remove rtp" /\ to = "gone rtp"
              \/ from = "remove rtcp" /\ to = "gone rtcp"
       PROVE  TypeOK' /\ \A e \in Calls : Fresh(e)'
  BY <1>10, Zenon DEF RemoveEmit, history
<1>11. ASSUME NEW c \in Calls, NEW s \in Sinks, NEW from \in Steps, NEW to,
              RemoveVerify(c, s, from, to),
              \/ from = "gone rtp" /\ to = "remove rtcp"
              \/ from = "gone rtcp" /\ to = "remove end"
       PROVE  TypeOK' /\ \A e \in Calls : Fresh(e)'
  BY <1>11, Zenon DEF RemoveVerify, history
<1>12. ASSUME NEW c \in Calls, RemoveEnd(c)
       PROVE  TypeOK' /\ \A e \in Calls : Fresh(e)'
  BY <1>12, PublishShows, Zenon DEF RemoveEnd
<1>13. ASSUME NEW c \in Calls, rtp_server_add_receiver(c)
       PROVE  TypeOK' /\ \A e \in Calls : Fresh(e)'
  <2>1. ASSUME NEW a \in Addrs, Begin(c, a, "test rtp")
        PROVE  TypeOK' /\ \A e \in Calls : Fresh(e)'
    BY <2>1, <1>3, Zenon
  <2>2. CASE \/ AddTest(c, "rtp", "test rtp", "emit rtp", "verify rtp")
             \/ AddTest(c, "rtcp", "test rtcp", "emit rtcp", "verify rtcp")
    BY <2>2, <1>4, Zenon
  <2>3. ASSUME NEW new \in SUBSET {addr[c]},
               \/ AddEmit(c, "rtp", new, "emit rtp", "verify rtp")
               \/ AddEmit(c, "rtcp", new, "emit rtcp", "verify rtcp")
        PROVE  TypeOK' /\ \A e \in Calls : Fresh(e)'
    BY <2>3, <1>5
  <2> HIDE DEF TypeOK, Fresh
  <2> QED BY <1>13, <2>1, <2>2, <2>3, <1>6, <1>7, <1>8, <1>9, Zenon
          DEF rtp_server_add_receiver
<1>14. ASSUME NEW c \in Calls, rtp_server_remove_receiver(c)
       PROVE  TypeOK' /\ \A e \in Calls : Fresh(e)'
  BY <1>14, <1>3, <1>10, <1>11, <1>12, Zenon DEF rtp_server_remove_receiver
<1> QED BY <1>1, <1>2, <1>13, <1>14, Zenon DEF Next

\* A call begins when it is alone, or else overlaps.
LEMMA AloneStep ==
  ASSUME TypeOK, Alone, Next
  PROVE  Alone'
<1> USE DEF TypeOK, Alone, Go, Return, Idle
<1>1. CASE QueueChange \/ rtp_server_update_stats
  BY <1>1, Zenon DEF QueueChange, rtp_server_update_stats, locals, history
<1>2. ASSUME NEW c \in Calls, NEW a, NEW step, Begin(c, a, step)
      PROVE  Alone'
  BY <1>2, Zenon DEF Begin
<1>3. ASSUME NEW c \in Calls, at[c] # "idle", mishaps \subseteq mishaps', NEW to,
             at' = [at EXCEPT ![c] = to]
      PROVE  Alone'
  BY <1>3, Zenon
<1>4. ASSUME NEW c \in Calls, rtp_server_add_receiver(c)
      PROVE  Alone'
  BY <1>4, <1>2, <1>3, Zenon
     DEF rtp_server_add_receiver, AddTest, AddEmit, AddVerify, AddDone, AddUndo, history
<1>5. ASSUME NEW c \in Calls, rtp_server_remove_receiver(c)
      PROVE  Alone'
  BY <1>5, <1>2, <1>3, Zenon
     DEF rtp_server_remove_receiver, RemoveEmit, RemoveVerify, RemoveEnd, history
<1> QED BY <1>1, <1>4, <1>5, Zenon DEF Next

\* A call that returns without a mishap has published the receivers.
LEMMA PublishedStep ==
  ASSUME TypeOK, Published, Next
  PROVE  Published'
<1> USE DEF TypeOK, Published, Go, Return, Idle
<1>1. CASE QueueChange \/ rtp_server_update_stats
  BY <1>1, PublishShows, Zenon DEF QueueChange, rtp_server_update_stats, locals, history
<1>2. ASSUME NEW c \in Calls, NEW to, to # "idle", at' = [at EXCEPT ![c] = to]
      PROVE  Published'
  BY <1>2, Zenon
<1>3. ASSUME NEW c \in Calls, AddDone(c) \/ RemoveEnd(c)
      PROVE  Published'
  BY <1>3, PublishShows, Zenon DEF AddDone, RemoveEnd
<1>4. ASSUME NEW c \in Calls, AddUndo(c)
      PROVE  Published'
  BY <1>4, Zenon DEF AddUndo
<1>5. ASSUME NEW c \in Calls, rtp_server_add_receiver(c)
      PROVE  Published'
  BY <1>5, <1>2, <1>3, <1>4, Zenon
     DEF rtp_server_add_receiver, Begin, AddTest, AddEmit, AddVerify
<1>6. ASSUME NEW c \in Calls, rtp_server_remove_receiver(c)
      PROVE  Published'
  BY <1>6, <1>2, <1>3, Zenon
     DEF rtp_server_remove_receiver, Begin, RemoveEmit, RemoveVerify
<1> QED BY <1>1, <1>5, <1>6, Zenon DEF Next

\* The sinks agree but for the address of the one call that is under way.
LEMMA PairStep ==
  ASSUME IInv, Next
  PROVE  PairInv'
<1> USE DEF Go, Return
<1> SUFFICES ASSUME mishaps' \subseteq {"unverified"}
             PROVE  /\ (Idle => Agree)'
                    /\ \A e \in Calls :
                         (at[e] # "idle" => AgreeBut(addr[e]) /\ AddInv(e) /\ RemoveInv(e))'
  BY Zenon DEF PairInv
<1>1. /\ clients \in [Sinks -> SUBSET Addrs] /\ at \in [Calls -> Steps]
      /\ ok \in [Calls -> SUBSET Sinks] /\ addr \in [Calls -> Addrs \cup {None}]
      /\ \A e \in Calls : Fresh(e)
      /\ \A e \in Calls : at[e] # "idle" => addr[e] \in Addrs
  BY Zenon DEF IInv, TypeOK
<1>2. CASE QueueChange \/ rtp_server_update_stats
  BY <1>2, ZenonT(30) DEF QueueChange, rtp_server_update_stats, locals, history, IInv, PairInv,
              Idle, Agree, AgreeBut, AddInv, RemoveInv, Listed
<1>3. ASSUME mishaps \subseteq mishaps', NEW c \in Calls, at[c] # "idle"
      PROVE  /\ \A d \in Calls : at[d] # "idle" => d = c
             /\ AgreeBut(addr[c]) /\ AddInv(c) /\ RemoveInv(c)
  BY <1>3, Zenon DEF IInv, Alone, PairInv
\* It is enough to look at the call that takes the step.
<1>4. ASSUME NEW c \in Calls, at[c] # "idle", mishaps' = mishaps, addr' = addr,
             NEW to, to # "idle", at' = [at EXCEPT ![c] = to],
             AgreeBut(addr[c])', AddInv(c)', RemoveInv(c)'
      PROVE  /\ (Idle => Agree)'
             /\ \A e \in Calls :
                  (at[e] # "idle" => AgreeBut(addr[e]) /\ AddInv(e) /\ RemoveInv(e))'
  BY <1>4, <1>3, <1>1, Zenon DEF Idle
<1>5. ASSUME NEW c \in Calls, NEW a \in Addrs, NEW step \in {"test rtp", "remove rtp"},
             Begin(c, a, step)
      PROVE  /\ (Idle => Agree)'
             /\ \A e \in Calls :
                  (at[e] # "idle" => AgreeBut(addr[e]) /\ AddInv(e) /\ RemoveInv(e))'
  <2>1. Idle /\ Agree /\ clients' = clients /\ ~Idle'
    BY <1>5, <1>1, Zenon DEF Begin, IInv, PairInv, Idle
  <2>2. \A e \in Calls : at'[e] # "idle" => e = c /\ at'[e] = step
    BY <1>5, <1>1, <2>1, Zenon DEF Begin, Idle
  <2> QED BY <2>1, <2>2, Zenon DEF Agree, AgreeBut, AddInv, RemoveInv
<1>6. ASSUME NEW c \in Calls, AddTest(c, "rtp", "test rtp", "emit rtp", "verify rtp")
      PROVE  AgreeBut(addr[c])' /\ AddInv(c)' /\ RemoveInv(c)'
  <2>1. /\ at[c] = "test rtp" /\ at'[c] = (IF Listed("rtp", addr[c]) THEN "verify rtp" ELSE "emit rtp")
        /\ addr'[c] = addr[c] /\ ok'[c] = ok[c]
        /\ clients'["rtp"] = clients["rtp"] /\ clients'["rtcp"] = clients["rtcp"]
    BY <1>6, <1>1, Zenon DEF AddTest
  <2>2. AgreeBut(addr[c]) /\ AddInv(c)
    BY <1>6, <1>3, Zenon DEF AddTest, history
  <2>3. clients["rtp"] \subseteq Addrs /\ clients["rtcp"] \subseteq Addrs
    BY <1>1, Zenon DEF Sinks
  <2>4. Fresh(c) /\ addr[c] \in Addrs /\ ok[c] \subseteq Sinks
    BY <1>1, <2>1, Zenon
  <2> QED BY <1>6, <2>1, <2>2, <2>3, <2>4, Zenon
          DEF Agree, AgreeBut, AddInv, RemoveInv, Listed, Fresh, Sinks
<1>7. ASSUME NEW c \in Calls, NEW new \in SUBSET {addr[c]},
             AddEmit(c, "rtp", new, "emit rtp", "verify rtp")
      PROVE  AgreeBut(addr[c])' /\ AddInv(c)' /\ RemoveInv(c)'
  <2>1. /\ at[c] = "emit rtp" /\ at'[c] = "verify rtp"
        /\ addr'[c] = addr[c] /\ ok'[c] = ok[c]
        /\ clients'["rtp"] = clients["rtp"] \cup new /\ clients'["rtcp"] = clients["rtcp"]
    BY <1>7, <1>1, Zenon DEF AddEmit, Sinks
  <2>2. AgreeBut(addr[c]) /\ AddInv(c)
    BY <1>7, <1>3, Zenon DEF AddEmit, history
  <2>3. clients["rtp"] \subseteq Addrs /\ clients["rtcp"] \subseteq Addrs
    BY <1>1, Zenon DEF Sinks
  <2>4. Fresh(c) /\ addr[c] \in Addrs /\ ok[c] \subseteq Sinks
    BY <1>1, <2>1, Zenon
  <2>5. CASE new = {}
    BY <2>5, <2>1, <2>2, <2>3, <2>4, ZenonT(30)
       DEF Agree, AgreeBut, AddInv, RemoveInv, Listed, Fresh, Sinks
  <2>6. CASE new = {addr[c]}
    BY <2>6, <2>1, <2>2, <2>3, <2>4, Zenon
       DEF Agree, AgreeBut, AddInv, RemoveInv, Listed, Fresh, Sinks
  <2> QED BY <2>5, <2>6, Zenon
<1>8. ASSUME NEW c \in Calls, AddVerify(c, "rtp", "verify rtp", "test rtcp")
      PROVE  AgreeBut(addr[c])' /\ AddInv(c)' /\ RemoveInv(c)'
  <2>1. /\ at[c] = "verify rtp" /\ at'[c] = "test rtcp"
        /\ addr'[c] = addr[c] /\ ok'[c] = (IF Listed("rtp", addr[c]) THEN ok[c] \cup {"rtp"} ELSE ok[c])
        /\ clients'["rtp"] = clients["rtp"] /\ clients'["rtcp"] = clients["rtcp"]
    BY <1>8, <1>1, Zenon DEF AddVerify
  <2>2. AgreeBut(addr[c]) /\ AddInv(c)
    BY <1>8, <1>3, Zenon DEF AddVerify, history
  <2>3. clients["rtp"] \subseteq Addrs /\ clients["rtcp"] \subseteq Addrs
    BY <1>1, Zenon DEF Sinks
  <2>4. Fresh(c) /\ addr[c] \in Addrs /\ ok[c] \subseteq Sinks
    BY <1>1, <2>1, Zenon
  <2> QED BY <1>8, <2>1, <2>2, <2>3, <2>4, Zenon
          DEF Agree, AgreeBut, AddInv, RemoveInv, Listed, Fresh, Sinks
<1>9. ASSUME NEW c \in Calls, AddTest(c, "rtcp", "test rtcp", "emit rtcp", "verify rtcp")
      PROVE  AgreeBut(addr[c])' /\ AddInv(c)' /\ RemoveInv(c)'
  <2>1. /\ at[c] = "test rtcp" /\ at'[c] = (IF Listed("rtcp", addr[c]) THEN "verify rtcp" ELSE "emit rtcp")
        /\ addr'[c] = addr[c] /\ ok'[c] = ok[c]
        /\ clients'["rtp"] = clients["rtp"] /\ clients'["rtcp"] = clients["rtcp"]
    BY <1>9, <1>1, Zenon DEF AddTest
  <2>2. AgreeBut(addr[c]) /\ AddInv(c)
    BY <1>9, <1>3, Zenon DEF AddTest, history
  <2>3. clients["rtp"] \subseteq Addrs /\ clients["rtcp"] \subseteq Addrs
    BY <1>1, Zenon DEF Sinks
  <2>4. Fresh(c) /\ addr[c] \in Addrs /\ ok[c] \subseteq Sinks
    BY <1>1, <2>1, Zenon
  <2> QED BY <1>9, <2>1, <2>2, <2>3, <2>4, Zenon
          DEF Agree, AgreeBut, AddInv, RemoveInv, Listed, Fresh, Sinks
<1>10. ASSUME NEW c \in Calls, NEW new \in SUBSET {addr[c]},
              AddEmit(c, "rtcp", new, "emit rtcp", "verify rtcp")
       PROVE  AgreeBut(addr[c])' /\ AddInv(c)' /\ RemoveInv(c)'
  <2>1. /\ at[c] = "emit rtcp" /\ at'[c] = "verify rtcp"
        /\ addr'[c] = addr[c] /\ ok'[c] = ok[c]
        /\ clients'["rtp"] = clients["rtp"] /\ clients'["rtcp"] = clients["rtcp"] \cup new
    BY <1>10, <1>1, Zenon DEF AddEmit, Sinks
  <2>2. AgreeBut(addr[c]) /\ AddInv(c)
    BY <1>10, <1>3, Zenon DEF AddEmit, history
  <2>3. clients["rtp"] \subseteq Addrs /\ clients["rtcp"] \subseteq Addrs
    BY <1>1, Zenon DEF Sinks
  <2>4. Fresh(c) /\ addr[c] \in Addrs /\ ok[c] \subseteq Sinks
    BY <1>1, <2>1, Zenon
  <2>5. CASE new = {}
    BY <2>5, <2>1, <2>2, <2>3, <2>4, Zenon
       DEF Agree, AgreeBut, AddInv, RemoveInv, Listed, Fresh, Sinks
  <2>6. CASE new = {addr[c]}
    <3>1. AgreeBut(addr[c])' /\ ("rtp" \in ok[c] <=> Listed("rtp", addr[c]))'
      BY <2>6, <2>1, <2>2, Zenon DEF AgreeBut, AddInv, Listed
    <3>2. CASE addr[c] \in clients["rtp"]
      <4>1. clients["rtp"] = clients["rtcp"] \cup {addr[c]}
        BY <3>2, <2>2, <2>3, Zenon DEF AgreeBut
      <4> QED BY <2>6, <4>1, <3>1, <2>1, <2>4, Zenon DEF Agree, AddInv, RemoveInv
    <3>3. CASE addr[c] \notin clients["rtp"]
      <4>1. ~Listed("rtp", addr[c])
        BY <3>3, <2>1, <2>2, <2>3, Zenon DEF AgreeBut, AddInv, Listed
      <4> QED BY <4>1, <3>1, <2>1, <2>2, Zenon DEF AddInv, RemoveInv
    <3> QED BY <3>2, <3>3, Zenon
  <2> QED BY <2>5, <2>6, Zenon
<1>11. ASSUME NEW c \in Calls, AddVerify(c, "rtcp", "verify rtcp", "end")
       PROVE  AgreeBut(addr[c])' /\ AddInv(c)' /\ RemoveInv(c)'
  <2>1. /\ at[c] = "verify rtcp" /\ at'[c] = "end"
        /\ addr'[c] = addr[c] /\ ok'[c] = (IF Listed("rtcp", addr[c]) THEN ok[c] \cup {"rtcp"} ELSE ok[c])
        /\ clients'["rtp"] = clients["rtp"] /\ clients'["rtcp"] = clients["rtcp"]
    BY <1>11, <1>1, Zenon DEF AddVerify
  <2>2. AgreeBut(addr[c]) /\ AddInv(c)
    BY <1>11, <1>3, Zenon DEF AddVerify, history
  <2>3. clients["rtp"] \subseteq Addrs /\ clients["rtcp"] \subseteq Addrs
    BY <1>1, Zenon DEF Sinks
  <2>4. Fresh(c) /\ addr[c] \in Addrs /\ ok[c] \subseteq Sinks
    BY <1>1, <2>1, Zenon
  <2> QED BY <1>11, <2>1, <2>2, <2>3, <2>4, Zenon
          DEF Agree, AgreeBut, AddInv, RemoveInv, Listed, Fresh, Sinks
<1>12. ASSUME NEW c \in Calls, AddDone(c)
       PROVE  /\ (Idle => Agree)'
              /\ \A e \in Calls : at'[e] = "idle"
  BY <1>12, <1>1, <1>3, Zenon DEF AddDone, AddInv, Agree
<1>13. ASSUME NEW c \in Calls, AddUndo(c)
       PROVE  /\ mishaps' = mishaps /\ addr' = addr
              /\ at[c] = "end" /\ at' = [at EXCEPT ![c] = "remove rtp"]
              /\ AgreeBut(addr[c])' /\ AddInv(c)' /\ RemoveInv(c)'
  <2>1. /\ mishaps' = mishaps /\ addr' = addr /\ clients' = clients
        /\ at[c] = "end" /\ at' = [at EXCEPT ![c] = "remove rtp"]
    <3>1. mishaps' # mishaps \cup {"refused"}
      OBVIOUS
    <3> QED BY <1>13, <3>1, Zenon DEF AddUndo
  <2>2. AgreeBut(addr[c]) /\ at'[c] = "remove rtp"
    BY <2>1, <1>1, <1>3, Zenon
  <2> QED BY <2>1, <2>2, Zenon DEF AgreeBut, AddInv, RemoveInv
<1>14. ASSUME NEW c \in Calls, RemoveEmit(c, "rtp", "remove rtp", "gone rtp")
       PROVE  AgreeBut(addr[c])' /\ AddInv(c)' /\ RemoveInv(c)'
  <2>1. /\ at[c] = "remove rtp" /\ at'[c] = "gone rtp" /\ addr'[c] = addr[c]
        /\ clients'["rtp"] = clients["rtp"] \ {addr[c]}
        /\ clients'["rtcp"] = clients["rtcp"]
    BY <1>14, <1>1, Zenon DEF RemoveEmit, Sinks
  <2>2. AgreeBut(addr[c])
    BY <1>14, <1>3, Zenon DEF RemoveEmit, history
  <2> QED BY <2>1, <2>2, Zenon DEF AgreeBut, AddInv, RemoveInv
<1>15. ASSUME NEW c \in Calls, RemoveVerify(c, "rtp", "gone rtp", "remove rtcp")
       PROVE  AgreeBut(addr[c])' /\ AddInv(c)' /\ RemoveInv(c)'
  BY <1>15, <1>1, <1>3, Zenon DEF RemoveVerify, history, AgreeBut, AddInv, RemoveInv
<1>16. ASSUME NEW c \in Calls, RemoveEmit(c, "rtcp", "remove rtcp", "gone rtcp")
       PROVE  AgreeBut(addr[c])' /\ AddInv(c)' /\ RemoveInv(c)'
  <2>1. /\ at[c] = "remove rtcp" /\ at'[c] = "gone rtcp" /\ addr'[c] = addr[c]
        /\ clients'["rtp"] = clients["rtp"]
        /\ clients'["rtcp"] = clients["rtcp"] \ {addr[c]}
    BY <1>16, <1>1, Zenon DEF RemoveEmit, Sinks
  <2>2. AgreeBut(addr[c]) /\ RemoveInv(c)
    BY <1>16, <1>3, Zenon DEF RemoveEmit, history
  <2>3. clients["rtp"] \subseteq Addrs /\ clients["rtcp"] \subseteq Addrs
    BY <1>1, Zenon DEF Sinks
  <2>4. Agree' /\ AgreeBut(addr[c])'
    BY <2>1, <2>2, <2>3, Zenon DEF Agree, AgreeBut, RemoveInv
  <2> QED BY <2>1, <2>4, Zenon DEF AddInv, RemoveInv
<1>17. ASSUME NEW c \in Calls, RemoveVerify(c, "rtcp", "gone rtcp", "remove end")
       PROVE  AgreeBut(addr[c])' /\ AddInv(c)' /\ RemoveInv(c)'
  BY <1>17, <1>1, <1>3, Zenon DEF RemoveVerify, history, Agree, AgreeBut, AddInv, RemoveInv
<1>18. ASSUME NEW c \in Calls, RemoveEnd(c)
       PROVE  /\ (Idle => Agree)'
              /\ \A e \in Calls : at'[e] = "idle"
  <2>1. mishaps \subseteq mishaps' /\ at[c] = "remove end" /\ clients' = clients
    BY <1>18, Zenon DEF RemoveEnd
  <2>2. RemoveInv(c) /\ \A d \in Calls : at[d] # "idle" => d = c
    BY <2>1, <1>3, Zenon
  <2> QED BY <1>18, <1>1, <2>1, <2>2, Zenon DEF RemoveEnd, RemoveInv, Agree
<1>19. ASSUME NEW c \in Calls, rtp_server_add_receiver(c)
       PROVE  /\ (Idle => Agree)'
              /\ \A e \in Calls :
                   (at[e] # "idle" => AgreeBut(addr[e]) /\ AddInv(e) /\ RemoveInv(e))'
  <2>1. ASSUME NEW a \in Addrs, Begin(c, a, "test rtp")
        PROVE  /\ (Idle => Agree)'
               /\ \A e \in Calls :
                    (at[e] # "idle" => AgreeBut(addr[e]) /\ AddInv(e) /\ RemoveInv(e))'
    BY <2>1, <1>5, Zenon
  <2>2. CASE \/ AddTest(c, "rtp", "test rtp", "emit rtp", "verify rtp")
             \/ AddTest(c, "rtcp", "test rtcp", "emit rtcp", "verify rtcp")
    BY <2>2, <1>4, <1>6, <1>9, Zenon DEF AddTest, history
  <2>3. ASSUME NEW new \in SUBSET {addr[c]},
               \/ AddEmit(c, "rtp", new, "emit rtp", "verify rtp")
               \/ AddEmit(c, "rtcp", new, "emit rtcp", "verify rtcp")
        PROVE  /\ (Idle => Agree)'
               /\ \A e \in Calls :
                    (at[e] # "idle" => AgreeBut(addr[e]) /\ AddInv(e) /\ RemoveInv(e))'
    BY <2>3, <1>4, <1>7, <1>10, Zenon DEF AddEmit, history
  <2>4. CASE \/ AddVerify(c, "rtp", "verify rtp", "test rtcp")
             \/ AddVerify(c, "rtcp", "verify rtcp", "end")
    BY <2>4, <1>4, <1>8, <1>11, Zenon DEF AddVerify, history
  <2>5. CASE AddDone(c)
    BY <2>5, <1>12, Zenon
  <2>6. CASE AddUndo(c)
    BY <2>6, <1>4, <1>13, Zenon
  <2> QED BY <1>19, <2>1, <2>2, <2>3, <2>4, <2>5, <2>6, Zenon DEF rtp_server_add_receiver
<1>20. ASSUME NEW c \in Calls, rtp_server_remove_receiver(c)
       PROVE  /\ (Idle => Agree)'
              /\ \A e \in Calls :
                   (at[e] # "idle" => AgreeBut(addr[e]) /\ AddInv(e) /\ RemoveInv(e))'
  <2>1. ASSUME NEW a \in Addrs, Begin(c, a, "remove rtp")
        PROVE  /\ (Idle => Agree)'
               /\ \A e \in Calls :
                    (at[e] # "idle" => AgreeBut(addr[e]) /\ AddInv(e) /\ RemoveInv(e))'
    BY <2>1, <1>5, Zenon
  <2>2. CASE \/ RemoveEmit(c, "rtp", "remove rtp", "gone rtp")
             \/ RemoveEmit(c, "rtcp", "remove rtcp", "gone rtcp")
    BY <2>2, <1>4, <1>14, <1>16, Zenon DEF RemoveEmit, history
  <2>3. CASE \/ RemoveVerify(c, "rtp", "gone rtp", "remove rtcp")
             \/ RemoveVerify(c, "rtcp", "gone rtcp", "remove end")
    BY <2>3, <1>4, <1>15, <1>17, Zenon DEF RemoveVerify, history
  <2>4. CASE RemoveEnd(c)
    BY <2>4, <1>18, Zenon
  <2> QED BY <1>20, <2>1, <2>2, <2>3, <2>4, Zenon DEF rtp_server_remove_receiver
<1> QED BY <1>2, <1>19, <1>20, Zenon DEF Next

\* An address stays verified until the call that has verified it returns.
LEMMA AddedStep ==
  ASSUME TypeOK, Alone, \A c \in Calls : Fresh(c), AddedInv, Next
  PROVE  AddedInv'
<1> SUFFICES ASSUME "overlap" \notin mishaps'
             PROVE  AddedInv'
  BY Zenon DEF AddedInv
<1>1. at \in [Calls -> Steps] /\ ok \in [Calls -> SUBSET Sinks]
  BY Zenon DEF TypeOK
<1>2. CASE QueueChange \/ rtp_server_update_stats
  BY <1>2, Zenon DEF QueueChange, rtp_server_update_stats, locals, history, AddedInv, Idle,
                     Listed, Verified
<1>3. ASSUME NEW c \in Calls, NEW a, NEW step \in {"test rtp", "remove rtp"}, Begin(c, a, step)
      PROVE  AddedInv'
  <2>1. \A e \in Calls : at'[e] \in {"idle", "test rtp", "remove rtp"}
    BY <1>1, <1>3 DEF Begin, Go, Idle
  <2> QED BY <1>3, <2>1 DEF Begin, AddedInv, Verified
\* It is enough to look at the call that takes the step.
<1>4. ASSUME NEW c \in Calls, at[c] # "idle", mishaps \subseteq mishaps'
      PROVE  added = None /\ Verified(c) /\ \A e \in Calls : at[e] # "idle" => e = c
  BY <1>4, Zenon DEF AddedInv, Alone, Idle
<1>5. ASSUME NEW c \in Calls, at[c] # "idle", mishaps \subseteq mishaps', added' = added,
             NEW to, at' = [at EXCEPT ![c] = to], Verified(c)'
      PROVE  AddedInv'
  <2>1. \A e \in Calls : e # c => at'[e] = "idle"
    BY <1>1, <1>4, <1>5
  <2>2. \A e \in Calls : Verified(e)'
    BY <1>5, <2>1 DEF Verified
  <2> QED BY <1>4, <1>5, <2>2, Zenon DEF AddedInv
<1>6. ASSUME NEW c \in Calls, AddTest(c, "rtp", "test rtp", "emit rtp", "verify rtp")
      PROVE  Verified(c)'
  BY <1>1, <1>6 DEF AddTest, Go, Verified
<1>7. ASSUME NEW c \in Calls, NEW new, AddEmit(c, "rtp", new, "emit rtp", "verify rtp")
      PROVE  Verified(c)'
  BY <1>1, <1>7 DEF AddEmit, Go, Verified
<1>8. ASSUME NEW c \in Calls, AddVerify(c, "rtp", "verify rtp", "test rtcp")
      PROVE  Verified(c)'
  <2>1. /\ at[c] = "verify rtp" /\ at'[c] = "test rtcp" /\ clients' = clients /\ addr' = addr
        /\ ok'[c] = IF Listed("rtp", addr[c]) THEN ok[c] \cup {"rtp"} ELSE ok[c]
    BY <1>1, <1>8 DEF AddVerify, Go
  <2>2. ok[c] = {}
    BY <2>1, Zenon DEF Fresh
  <2> QED BY <2>1, <2>2 DEF Verified, Listed
<1>9. ASSUME NEW c \in Calls, AddTest(c, "rtcp", "test rtcp", "emit rtcp", "verify rtcp")
      PROVE  Verified(c)'
  <2>1. /\ at[c] = "test rtcp" /\ at'[c] \in {"emit rtcp", "verify rtcp"}
        /\ clients' = clients /\ addr' = addr /\ ok' = ok
    BY <1>1, <1>9 DEF AddTest, Go
  <2>2. Verified(c)
    BY <1>4, <1>9, <2>1 DEF AddTest, history
  <2> QED BY <2>1, <2>2 DEF Verified, Listed
<1>10. ASSUME NEW c \in Calls, NEW new, AddEmit(c, "rtcp", new, "emit rtcp", "verify rtcp")
       PROVE  Verified(c)'
  <2>1. /\ at[c] = "emit rtcp" /\ at'[c] = "verify rtcp"
        /\ clients'["rtp"] = clients["rtp"] /\ addr' = addr /\ ok' = ok
    BY <1>1, <1>10 DEF AddEmit, Go, TypeOK, Sinks
  <2>2. Verified(c)
    BY <1>4, <1>10, <2>1 DEF AddEmit, history
  <2> QED BY <2>1, <2>2 DEF Verified, Listed
<1>11. ASSUME NEW c \in Calls, AddVerify(c, "rtcp", "verify rtcp", "end")
       PROVE  Verified(c)'
  <2>1. /\ at[c] = "verify rtcp" /\ at'[c] = "end" /\ clients' = clients /\ addr' = addr
        /\ ok'[c] = IF Listed("rtcp", addr[c]) THEN ok[c] \cup {"rtcp"} ELSE ok[c]
    BY <1>1, <1>11 DEF AddVerify, Go
  <2>2. "rtcp" \notin ok[c]
    BY <2>1, Zenon DEF Fresh
  <2>3. Verified(c)
    BY <1>4, <1>11, <2>1 DEF AddVerify, history
  <2> QED BY <2>1, <2>2, <2>3 DEF Verified, Listed
<1>12. ASSUME NEW c \in Calls, AddDone(c)
       PROVE  AddedInv'
  <2>1. /\ at[c] = "end" /\ at' = [at EXCEPT ![c] = "idle"] /\ ok[c] = Sinks
        /\ added' = addr[c] /\ clients' = clients /\ mishaps' = mishaps
    BY <1>12, Zenon DEF AddDone, Return, Go
  <2>2. Verified(c) /\ \A e \in Calls : at'[e] = "idle"
    BY <1>1, <1>4, <2>1
  <2>3. Listed("rtp", addr[c]) /\ Listed("rtcp", addr[c])
    BY <2>1, <2>2 DEF Verified, Sinks
  <2> QED BY <2>1, <2>2, <2>3 DEF AddedInv, Verified, Idle, Listed, Sinks
\* A removal, or an add that goes over to one, has nothing to verify.
<1>13. ASSUME NEW c \in Calls, at[c] # "idle", mishaps \subseteq mishaps', added' = added,
              NEW to \in {"idle", "remove rtp", "gone rtp", "remove rtcp", "gone rtcp",
                          "remove end"},
              at' = [at EXCEPT ![c] = to]
       PROVE  AddedInv'
  <2>1. Verified(c)'
    BY <1>1, <1>13 DEF Verified
  <2> QED BY <1>5, <1>13, <2>1, Zenon
<1>14. ASSUME NEW c \in Calls, rtp_server_add_receiver(c)
       PROVE  AddedInv'
  <2>1. ASSUME NEW a \in Addrs, Begin(c, a, "test rtp")
        PROVE  AddedInv'
    BY <2>1, <1>3
  <2>2. CASE \/ AddTest(c, "rtp", "test rtp", "emit rtp", "verify rtp")
             \/ AddTest(c, "rtcp", "test rtcp", "emit rtcp", "verify rtcp")
    BY <2>2, <1>5, <1>6, <1>9 DEF AddTest, Go, history
  <2>3. ASSUME NEW new, \/ AddEmit(c, "rtp", new, "emit rtp", "verify rtp")
                        \/ AddEmit(c, "rtcp", new, "emit rtcp", "verify rtcp")
        PROVE  AddedInv'
    BY <2>3, <1>5, <1>7, <1>10 DEF AddEmit, Go, history
  <2>4. CASE \/ AddVerify(c, "rtp", "verify rtp", "test rtcp")
             \/ AddVerify(c, "rtcp", "verify rtcp", "end")
    BY <2>4, <1>5, <1>8, <1>11 DEF AddVerify, Go, history
  <2>5. CASE AddUndo(c)
    BY <2>5, <1>13 DEF AddUndo, Go, Return
  <2> QED BY <1>12, <1>14, <2>1, <2>2, <2>3, <2>4, <2>5, Zenon DEF rtp_server_add_receiver
<1>15. ASSUME NEW c \in Calls, rtp_server_remove_receiver(c)
       PROVE  AddedInv'
  <2>1. ASSUME NEW a \in Addrs, Begin(c, a, "remove rtp")
        PROVE  AddedInv'
    BY <2>1, <1>3
  <2>2. CASE \/ RemoveEmit(c, "rtp", "remove rtp", "gone rtp")
             \/ RemoveEmit(c, "rtcp", "remove rtcp", "gone rtcp")
    BY <2>2, <1>13 DEF RemoveEmit, Go, history
  <2>3. CASE \/ RemoveVerify(c, "rtp", "gone rtp", "remove rtcp")
             \/ RemoveVerify(c, "rtcp", "gone rtcp", "remove end")
    BY <2>3, <1>13 DEF RemoveVerify, Go, history
  <2>4. CASE RemoveEnd(c)
    BY <2>4, <1>13 DEF RemoveEnd, Go, Return
  <2> QED BY <1>15, <2>1, <2>2, <2>3, <2>4, Zenon DEF rtp_server_remove_receiver
<1> QED BY <1>2, <1>14, <1>15, Zenon DEF Next

----------------------------------------------------------------------------

\* Every step of a call keeps the invariant.
LEMMA Invariance == Spec => []IInv
<1>1. IInv /\ [Next]_vars => IInv'
  <2> SUFFICES ASSUME IInv, [Next]_vars PROVE IInv'
    BY Zenon
  <2>1. CASE Next
    BY <2>1, TypeStep, AloneStep, PublishedStep, PairStep, AddedStep, Zenon DEF IInv
  <2>2. CASE UNCHANGED vars
    <3>1. TypeOK' /\ Alone' /\ Published' /\ \A c \in Calls : Fresh(c)'
      BY <2>2, Zenon DEF vars, locals, history, IInv, TypeOK, Alone, Fresh, Published, Idle
    <3>2. PairInv'
      BY <2>2, ZenonT(30) DEF vars, locals, history, IInv, PairInv, Idle, Agree, AgreeBut, AddInv,
                         RemoveInv, Listed
    <3>3. AddedInv'
      BY <2>2, Zenon DEF vars, locals, history, IInv, AddedInv, Verified, Idle, Listed
    <3> QED BY <3>1, <3>2, <3>3, Zenon DEF IInv
  <2> QED BY <2>1, <2>2, Zenon
<1> QED BY InitInv, <1>1, PTL DEF Spec

\* The sinks and the control segment hold addresses, and a call has one.
THEOREM TypeCorrect == Spec => []TypeOK
BY Invariance, PTL DEF IInv

\* What one sink has accepted and the other has not is taken back by
\* rtp_server_add_receiver, whatever addresses are substrings of others.
THEOREM SinksPaired == Spec => []SinksAgree
<1>1. IInv => SinksAgree
  BY Zenon DEF IInv, PairInv, SinksAgree, Agree
<1> QED BY Invariance, <1>1, PTL

\* Every way through the two calls ends in rtp_server_update_stats unless
\* there is a mishap.
THEOREM PublishedAtReturn == Spec => []Published
BY Invariance, PTL DEF IInv

\* Once rtp_server_add_receiver has returned 0 both sinks list the address,
\* although it has looked at each of them before the call was over: without
\* an overlap nobody can have removed it in between.
THEOREM AddedIsListed == Spec => []AddVerified
<1>1. IInv => AddVerified
  BY Zenon DEF IInv, AddedInv, AddVerified
<1> QED BY Invariance, <1>1, PTL

----------------------------------------------------------------------------
(* The life cycle of the server, module RtpServer *)

\* Where a thread that is in rtp_server_destroy has set TERMINATED, and what it has
\* released by then.
Releasing == {"pipeline", "bus", "pool", "ctl", "deinit"}

Gone(p) ==
  CASE p = "bus" -> {"pipeline"}
    [] p = "pool" -> {"pipeline", "bus"}
    [] p = "ctl" -> {"pipeline", "bus", "pool"}
    [] p = "deinit" -> Resources
    [] OTHER -> {}

Working == Entering \cup Releasing

\* The places of the threads, and what exists was made.
ServerTypes ==
  /\ place \in [Threads -> Working \cup {"init", "none", "start", "run", "enter", "idle",
                                             "done", "killed", "ended"}]
  /\ live \subseteq made /\ made \subseteq Resources
  /\ deinits \in Nat

\* Before rtp_server_init there is nothing.
StartInv ==
  place["d"] = "init" =>
    /\ place["l"] = "none" /\ send = "none" /\ rtpsrv_state = "INACTIVE"
    /\ ~gst /\ ~streaming /\ live = {} /\ deinits = 0

\* Unless two threads pass the switch or a callback replaces TERMINATED, one thread at a
\* time is at work, and TERMINATED tells how far the work is.
OnceInv ==
  ~slipped /\ ~revived =>
    /\ freed = {}
    /\ \A t, u \in Threads : place[t] \in Working /\ place[u] \in Working => t = u
    /\ \A t \in Threads :
         /\ place[t] \in Entering => rtpsrv_state # "TERMINATED"
         /\ place[t] \in Releasing =>
              rtpsrv_state = "TERMINATED" /\ deinits = 0 /\ live = made \ Gone(place[t])
    /\ rtpsrv_state # "TERMINATED" => deinits = 0 /\ live = made
    /\ deinits <= 1

\* Until an error, the processing thread finds the server as rtp_server_init left it.
SendInv ==
  ~failed /\ send \in {"idle", "push"} =>
    /\ place["d"] = "idle" /\ place["l"] \in {"start", "run"}
    /\ loop \in {"idle", "running"}
    /\ live = Resources

\* Without a thread for the main loop, rtp_server_destroy is called by rtp_server_init, and
\* finds nothing left when fmmod_destroy calls it again.
FailedInv ==
  place["l"] = "none" =>
    /\ ~gst => live = {}
    /\ send \in {"none", "gone"}
    /\ place["d"] \in {"idle", "done", "killed"} \/ send = "gone" => live = {} /\ ~gst
    /\ send = "gone" => place["d"] \in {"enter", "done"}
    /\ place["d"] = "enter" /\ send = "none" => rtpsrv_state # "TERMINATED"
    /\ place["d"] \in Releasing => live \cap Gone(place["d"]) = {}

ServerInv == ServerTypes /\ StartInv /\ OnceInv /\ SendInv /\ FailedInv

----------------------------------------------------------------------------
\* What rtp_server_destroy has released when it comes to each of its steps.
LEMMA GoneAt ==
  /\ Gone("pipeline") = {} /\ Gone("bus") = {"pipeline"}
  /\ Gone("pool") = {"pipeline", "bus"} /\ Gone("ctl") = {"pipeline", "bus", "pool"}
  /\ Gone("deinit") = Resources
  BY DEF Gone

\* Before rtp_server_init nothing exists and nobody is in rtp_server_destroy.
LEMMA ServerStart == ServerInit => ServerInv
<1> SUFFICES ASSUME ServerInit PROVE ServerInv
  OBVIOUS
<1> USE DEF ServerInit, Threads
<1>1. ServerTypes /\ StartInv
  BY DEF ServerTypes, StartInv, Working
<1>2. OnceInv
  BY DEF OnceInv, Working, Entering, Releasing
<1>3. SendInv /\ FailedInv
  BY DEF SendInv, FailedInv, Releasing
<1> QED BY <1>1, <1>2, <1>3, Zenon DEF ServerInv

\* rtp_server_init succeeds: everything exists, and the thread of the main loop
\* starts.
LEMMA InitDoneStep ==
  ASSUME ServerInv, InitDone
  PROVE  ServerInv'
<1> USE DEF InitDone, objects, srv_history, Threads, Entering,
            ServerInv, ServerTypes, StartInv, Working, Releasing
<1>1. ServerTypes' /\ StartInv'
  BY DEF Resources
<1>2. OnceInv'
  BY GoneAt DEF OnceInv, Resources
<1>3. SendInv'
  BY DEF SendInv
<1>4. FailedInv'
  BY GoneAt DEF FailedInv, Resources
<1> QED BY <1>1, <1>2, <1>3, <1>4, Zenon

\* A step of rtp_server_init fails: what it has set up is what rtp_server_destroy
\* finds.
LEMMA InitFailsStep ==
  ASSUME ServerInv, NEW done \in SUBSET Resources,
         InitFails(done)
  PROVE  ServerInv'
<1> USE DEF InitFails, Move, objects, srv_history, Threads,
            Entering, ServerInv, ServerTypes, StartInv, Working, Releasing
<1>1. ServerTypes' /\ StartInv'
  BY DEF Resources
<1>2. OnceInv'
  BY GoneAt DEF OnceInv, Resources
<1>3. SendInv'
  BY DEF SendInv
<1>4. FailedInv'
  BY GoneAt, Zenon DEF FailedInv, Resources
<1> QED BY <1>1, <1>2, <1>3, <1>4, Zenon

\* The last steps of rtp_server_init fail, with everything set up and the appsrc
\* calling back.
LEMMA InitFailsLateStep ==
  ASSUME ServerInv, NEW st \in {"INACTIVE", "ACTIVE"}, NEW lp \in {"none", "idle"},
         InitFailsLate(st, lp)
  PROVE  ServerInv'
<1> USE DEF InitFailsLate, Move, objects, srv_history, Threads,
            Entering, ServerInv, ServerTypes, StartInv, Working, Releasing
<1>1. ServerTypes' /\ StartInv'
  BY DEF Resources
<1>2. OnceInv'
  BY GoneAt DEF OnceInv, Resources
<1>3. SendInv'
  BY DEF SendInv
<1>4. FailedInv'
  BY GoneAt DEF FailedInv, Resources
<1> QED BY <1>1, <1>2, <1>3, <1>4, Zenon

\* rtp_server_send_buffer begins a push or ends it.
LEMMA SendStep ==
  ASSUME ServerInv, SendEnter \/ SendPush
  PROVE  ServerInv'
<1> USE DEF SendEnter, SendPush, objects, srv_history, Threads,
            Entering, ServerInv, ServerTypes, StartInv, Working, Releasing
<1>1. ServerTypes' /\ StartInv'
  BY Zenon DEF Resources
<1>2. OnceInv'
  BY GoneAt DEF OnceInv, Resources
<1>3. SendInv'
  BY DEF SendInv
<1>4. FailedInv'
  BY GoneAt DEF FailedInv, Resources
<1> QED BY <1>1, <1>2, <1>3, <1>4, Zenon

\* rtp_server_queue_full replaces the state; if it was TERMINATED, OnceInv says
\* nothing.
LEMMA QueueFullStep ==
  ASSUME ServerInv, rtp_server_queue_full
  PROVE  ServerInv'
<1> USE DEF rtp_server_queue_full, Store, objects, srv_history, Threads,
            Entering, ServerInv, ServerTypes, StartInv, Working, Releasing
<1>1. ServerTypes' /\ StartInv'
  BY DEF Resources
<1>2. OnceInv'
  BY GoneAt, Zenon DEF OnceInv, Resources
<1>3. SendInv'
  BY DEF SendInv
<1>4. FailedInv'
  BY GoneAt DEF FailedInv, Resources
<1> QED BY <1>1, <1>2, <1>3, <1>4, Zenon

\* The same for rtp_server_queue_ready, which also comes while rtp_server_init fails.
LEMMA QueueReadyStep ==
  ASSUME ServerInv, rtp_server_queue_ready
  PROVE  ServerInv'
<1> USE DEF rtp_server_queue_ready, Store, objects, srv_history,
            Threads, Entering, ServerInv, ServerTypes, StartInv, Working,
            Releasing
<1>1. ServerTypes' /\ StartInv'
  BY DEF Resources
<1>2. OnceInv'
  BY GoneAt, Zenon DEF OnceInv, Resources
<1>3. SendInv'
  BY DEF SendInv
<1>4. FailedInv'
  BY GoneAt DEF FailedInv, Resources
<1> QED BY <1>1, <1>2, <1>3, <1>4, Zenon

\* The thread of the main loop enters g_main_loop_run.
LEMMA LoopRunStep ==
  ASSUME ServerInv, LoopRun
  PROVE  ServerInv'
<1> USE DEF LoopRun, Move, objects, srv_history, Threads, Entering,
            ServerInv, ServerTypes, StartInv, Working, Releasing
<1>1. ServerTypes' /\ StartInv'
  BY DEF Resources
<1>2. OnceInv'
  BY GoneAt DEF OnceInv, Resources
<1>3. SendInv'
  BY DEF SendInv
<1>4. FailedInv'
  BY GoneAt DEF FailedInv, Resources
<1> QED BY <1>1, <1>2, <1>3, <1>4, Zenon

\* The loop was quit: fmmod_destroy is under way, and no push.
LEMMA LoopExitStep ==
  ASSUME ServerInv, LoopExit
  PROVE  ServerInv'
<1> USE DEF LoopExit, Move, objects, srv_history, Threads, Entering,
            ServerInv, ServerTypes, StartInv, Working, Releasing
<1>1. ServerTypes' /\ StartInv'
  BY DEF Resources
<1>2. OnceInv'
  BY GoneAt DEF OnceInv, Resources
<1>3. SendInv'
  BY DEF SendInv
<1>4. FailedInv'
  BY GoneAt DEF FailedInv, Resources
<1> QED BY <1>1, <1>2, <1>3, <1>4, Zenon

\* The error callback, after which nothing is said of a push.
LEMMA ErrorStep ==
  ASSUME ServerInv, rtp_server_error_cb
  PROVE  ServerInv'
<1> USE DEF rtp_server_error_cb, Store, Move, objects, srv_history,
            Threads, Entering, ServerInv, ServerTypes, StartInv, Working,
            Releasing
<1>1. ServerTypes' /\ StartInv'
  BY DEF Resources
<1>2. OnceInv'
  BY GoneAt, Zenon DEF OnceInv, Resources
<1>3. SendInv'
  BY DEF SendInv
<1>4. FailedInv'
  BY GoneAt DEF FailedInv, Resources
<1> QED BY <1>1, <1>2, <1>3, <1>4, Zenon

\* fmmod_destroy calls rtp_server_destroy, when no push is under way and none will
\* be.
LEMMA CallDestroyStep ==
  ASSUME ServerInv, CallDestroy
  PROVE  ServerInv'
<1> USE DEF CallDestroy, Move, objects, srv_history, Threads,
            Entering, ServerInv, ServerTypes, StartInv, Working, Releasing
<1>1. ServerTypes' /\ StartInv'
  BY DEF Resources
<1>2. OnceInv'
  BY GoneAt DEF OnceInv, Resources
<1>3. SendInv'
  BY DEF SendInv
<1>4. FailedInv'
  BY GoneAt DEF FailedInv, Resources
<1> QED BY <1>1, <1>2, <1>3, <1>4, Zenon

\* rtp_server_destroy returns at once: nothing exists or another call is at it.
LEMMA SkipStep ==
  ASSUME ServerInv, NEW t \in Threads, DestroySkip(t)
  PROVE  ServerInv'
<1> USE DEF DestroySkip, Leave, ReturnTo, objects, srv_history,
            Threads, Entering, ServerInv, ServerTypes, StartInv, Working,
            Releasing
<1>1. ServerTypes' /\ StartInv'
  BY DEF Resources
<1>2. OnceInv'
  BY GoneAt DEF OnceInv, Resources
<1>3. SendInv'
  BY DEF SendInv
<1>4. FailedInv'
  BY GoneAt DEF FailedInv, Resources
<1> QED BY <1>1, <1>2, <1>3, <1>4, Zenon

\* The switch of rtp_server_destroy: a second thread that gets past it has slipped.
LEMMA EnterStep ==
  ASSUME ServerInv, NEW t \in Threads, DestroyEnter(t)
  PROVE  ServerInv'
<1> USE DEF DestroyEnter, Move, objects, srv_history, Threads,
            Entering, ServerInv, ServerTypes, StartInv, Working, Releasing
<1>1. ServerTypes' /\ StartInv'
  BY DEF Resources
<1>2. OnceInv'
  BY GoneAt, ZenonT(30) DEF OnceInv, Resources
<1>3. SendInv'
  BY DEF SendInv
<1>4. FailedInv'
  BY GoneAt DEF FailedInv, Resources
<1> QED BY <1>1, <1>2, <1>3, <1>4, Zenon

\* The EOS has passed the pipeline or not.
LEMMA EosStep ==
  ASSUME ServerInv, NEW t \in Threads, NEW arrived \in BOOLEAN, DestroyEos(t, arrived)
  PROVE  ServerInv'
<1> USE DEF DestroyEos, Move, objects, srv_history, Threads,
            Entering, ServerInv, ServerTypes, StartInv, Working, Releasing
<1>1. ServerTypes' /\ StartInv'
  BY DEF Resources
<1>2. OnceInv'
  BY GoneAt DEF OnceInv, Resources
<1>3. SendInv'
  BY DEF SendInv
<1>4. FailedInv'
  BY GoneAt DEF FailedInv, Resources
<1> QED BY <1>1, <1>2, <1>3, <1>4, Zenon

\* The main loop is quit; SendInv holds as the processing thread is gone or there was
\* an error.
LEMMA QuitStep ==
  ASSUME ServerInv, NEW t \in Threads, DestroyQuit(t)
  PROVE  ServerInv'
<1> USE DEF DestroyQuit, Move, objects, srv_history, Threads,
            Entering, ServerInv, ServerTypes, StartInv, Working, Releasing
<1>1. ServerTypes' /\ StartInv'
  BY DEF Resources
<1>2. OnceInv'
  BY GoneAt DEF OnceInv, Resources
<1>3. SendInv'
  BY DEF SendInv
<1>4. FailedInv'
  BY GoneAt DEF FailedInv, Resources
<1> QED BY <1>1, <1>2, <1>3, <1>4, Zenon

\* The state becomes TERMINATED before anything is released.
LEMMA MarkStep ==
  ASSUME ServerInv, NEW t \in Threads, DestroyMark(t)
  PROVE  ServerInv'
<1> USE DEF DestroyMark, Move, objects, srv_history, Threads,
            Entering, ServerInv, ServerTypes, StartInv, Working, Releasing
<1>1. ServerTypes' /\ StartInv'
  BY DEF Resources
<1>2. OnceInv'
  BY GoneAt DEF OnceInv, Resources
<1>3. SendInv'
  BY DEF SendInv
<1>4. FailedInv'
  BY GoneAt DEF FailedInv, Resources
<1> QED BY <1>1, <1>2, <1>3, <1>4, Zenon

\* The pipeline is released, which exists unless a thread has slipped.
LEMMA PipelineStep ==
  ASSUME ServerInv, NEW t \in Threads, DestroyPipeline(t)
  PROVE  ServerInv'
<1> USE DEF DestroyPipeline, Move, Release, objects, srv_history,
            Threads, Entering, ServerInv, ServerTypes, StartInv, Working,
            Releasing
<1>1. ServerTypes' /\ StartInv'
  BY DEF Resources
<1>2. OnceInv'
  BY GoneAt DEF OnceInv, Resources
<1>3. SendInv'
  BY DEF SendInv
<1>4. FailedInv'
  BY GoneAt DEF FailedInv, Resources
<1> QED BY <1>1, <1>2, <1>3, <1>4, Zenon

\* Likewise the bus.
LEMMA BusStep ==
  ASSUME ServerInv, NEW t \in Threads, DestroyBus(t)
  PROVE  ServerInv'
<1> USE DEF DestroyBus, Move, Release, objects, srv_history,
            Threads, Entering, ServerInv, ServerTypes, StartInv, Working,
            Releasing
<1>1. ServerTypes' /\ StartInv'
  BY DEF Resources
<1>2. OnceInv'
  BY GoneAt DEF OnceInv, Resources
<1>3. SendInv'
  BY DEF SendInv
<1>4. FailedInv'
  BY GoneAt DEF FailedInv, Resources
<1> QED BY <1>1, <1>2, <1>3, <1>4, Zenon

\* And the pool.
LEMMA PoolStep ==
  ASSUME ServerInv, NEW t \in Threads, DestroyPool(t)
  PROVE  ServerInv'
<1> USE DEF DestroyPool, Move, Release, objects, srv_history,
            Threads, Entering, ServerInv, ServerTypes, StartInv, Working,
            Releasing
<1>1. ServerTypes' /\ StartInv'
  BY DEF Resources
<1>2. OnceInv'
  BY GoneAt DEF OnceInv, Resources
<1>3. SendInv'
  BY DEF SendInv
<1>4. FailedInv'
  BY GoneAt DEF FailedInv, Resources
<1> QED BY <1>1, <1>2, <1>3, <1>4, Zenon

\* The control segment, whose pointer is reset.
LEMMA CtlStep ==
  ASSUME ServerInv, NEW t \in Threads, DestroyCtl(t)
  PROVE  ServerInv'
<1> USE DEF DestroyCtl, Move, objects, srv_history, Threads,
            Entering, ServerInv, ServerTypes, StartInv, Working, Releasing
<1>1. ServerTypes' /\ StartInv'
  BY DEF Resources
<1>2. OnceInv'
  BY GoneAt DEF OnceInv, Resources
<1>3. SendInv'
  BY DEF SendInv
<1>4. FailedInv'
  BY GoneAt DEF FailedInv, Resources
<1> QED BY <1>1, <1>2, <1>3, <1>4, Zenon

\* gst_deinit, after which nothing exists: the first one, as no thread is beside this
\* one.
LEMMA DeinitStep ==
  ASSUME ServerInv, NEW t \in Threads, DestroyDeinit(t)
  PROVE  ServerInv'
<1> USE DEF DestroyDeinit, Leave, ReturnTo, objects, srv_history,
            Threads, Entering, ServerInv, ServerTypes, StartInv, Working,
            Releasing
<1>1. ServerTypes' /\ StartInv'
  BY DEF Resources
<1>2. OnceInv'
  BY GoneAt DEF OnceInv, Resources
<1>3. SendInv'
  BY DEF SendInv
<1>4. FailedInv'
  BY GoneAt DEF FailedInv, Resources
<1> QED BY <1>1, <1>2, <1>3, <1>4, Zenon

\* ServerInv is inductive: the actions of Next, one by one.
THEOREM ServerInvariance == ServerSpec => []ServerInv
<1>1. ServerInv /\ [ServerNext]_srv_vars => ServerInv'
  <2> SUFFICES ASSUME ServerInv, [ServerNext]_srv_vars PROVE ServerInv'
    OBVIOUS
  <2>1. CASE rtp_server_init
    <3>1. {{}, {"ctl"}, {"ctl", "pipeline", "bus"}, Resources} \subseteq SUBSET Resources
      BY DEF Resources
    <3>2. "none" \in {"none", "idle"} /\ "idle" \in {"none", "idle"}
          /\ "ACTIVE" \in {"INACTIVE", "ACTIVE"}
      OBVIOUS
    <3> QED
      BY <2>1, <3>1, <3>2, InitDoneStep, InitFailsStep, InitFailsLateStep, Zenon
         DEF rtp_server_init
  <2>2. CASE SendEnter \/ SendPush
    BY <2>2, SendStep, Zenon
  <2>3. CASE rtp_server_queue_full \/ rtp_server_queue_ready
    BY <2>3, QueueFullStep, QueueReadyStep, Zenon
  <2>4. CASE rtp_server_main_loop \/ rtp_server_error_cb
    BY <2>4, LoopRunStep, LoopExitStep, ErrorStep, Zenon DEF rtp_server_main_loop
  <2>5. CASE CallDestroy
    BY <2>5, CallDestroyStep, Zenon
  <2>6. CASE \E t \in Threads : rtp_server_destroy(t)
    BY <2>6, SkipStep, EnterStep, EosStep, QuitStep, MarkStep, PipelineStep, BusStep,
       PoolStep, CtlStep, DeinitStep, Zenon DEF rtp_server_destroy
  <2>7. CASE UNCHANGED srv_vars
    BY <2>7, Zenon DEF srv_vars, objects, srv_history, ServerInv, ServerTypes, StartInv,
                       OnceInv, SendInv, FailedInv
  <2> QED
    BY <2>1, <2>2, <2>3, <2>4, <2>5, <2>6, <2>7, Zenon DEF ServerNext
<1> QED BY <1>1, ServerStart, PTL DEF ServerSpec

\* Nothing is released twice and gst_deinit is called once, as long as no two threads pass
\* the switch of rtp_server_destroy and no callback replaces TERMINATED.
THEOREM ReleasedAtMostOnce == ServerSpec => []ReleasedOnce
<1>1. ServerInv => ReleasedOnce
  BY Zenon DEF ServerInv, OnceInv, ReleasedOnce
<1> QED BY ServerInvariance, <1>1, PTL

\* A push of rtp_server_send_buffer never meets a released pool or pipeline, until
\* GStreamer reports an error.
THEOREM PushSafety == ServerSpec => []SendSafe
<1>1. ServerInv => SendSafe
  BY DEF ServerInv, SendInv, SendSafe, Resources
<1> QED BY ServerInvariance, <1>1, PTL

\* Whichever step of rtp_server_init fails, nothing is left in the end, although a callback
\* may replace TERMINATED in the middle of the cleanup.
THEOREM CleanFailure == ServerSpec => []InitFailureClean
<1>1. ServerInv => InitFailureClean
  BY Zenon DEF ServerInv, FailedInv, InitFailureClean
<1> QED BY ServerInvariance, <1>1, PTL

----------------------------------------------------------------------------
(* Liveness of the server, under the fairness of FairSpec. What enables the fair
   actions is a hypothesis, CanMove: ENABLED is beyond the provers. *)

\* The server's thread is there with its loop, and in the error callback it is in
\* rtp_server_destroy.
LoopInv ==
  /\ error \in [Threads -> BOOLEAN]
  /\ place["l"] \notin {"init", "idle", "done", "killed"}
  /\ place["l"] # "none" => loop # "none"
  /\ in_cb => place["l"] \in Working \cup {"enter"}

\* Until fmmod_destroy is called, a state FAILED was set by the error callback, which is
\* about to pass the switch of rtp_server_destroy or has passed it with the error noted:
\* the loop, whose quit comes before everything is released, was still running.
GameInv ==
  /\ place["l"] = "none" => rtpsrv_state # "FAILED"
  /\ place["l"] # "none" => rtpsrv_state # "INACTIVE" /\ (place["d"] = "idle" \/ send = "gone")
  /\ place["d"] = "idle" /\ place["l"] # "none" =>
       /\ loop # "quit" => gst
       /\ place["l"] = "start" => loop # "quit"
       /\ place["l"] \in {"mark"} \cup Releasing => loop = "quit"
       /\ rtpsrv_state = "FAILED" =>
            \/ place["l"] = "enter" /\ gst
            \/ place["l"] \in {"quit", "mark"} /\ error["l"]

\* No step of a thread or of a callback leaves these two.
LEMMA FateStep ==
  ASSUME ServerInv, LoopInv, GameInv, [ServerNext]_srv_vars
  PROVE  LoopInv' /\ GameInv'
<1> USE DEF ServerInv, ServerTypes, StartInv, LoopInv, GameInv, Threads, Working, Entering,
            Releasing
<1>1. CASE InitDone
  BY <1>1 DEF InitDone
<1>2. ASSUME NEW done, InitFails(done) PROVE LoopInv' /\ GameInv'
  BY <1>2 DEF InitFails, Move
<1>3. ASSUME NEW st \in {"INACTIVE", "ACTIVE"}, NEW lp, InitFailsLate(st, lp)
      PROVE  LoopInv' /\ GameInv'
  BY <1>3 DEF InitFailsLate, Move
<1>4. CASE SendEnter \/ SendPush
  BY <1>4 DEF SendEnter, SendPush, objects
<1>5. CASE rtp_server_queue_full \/ rtp_server_queue_ready
  BY <1>5 DEF rtp_server_queue_full, rtp_server_queue_ready, Store, objects
<1>6. CASE LoopRun \/ LoopExit
  BY <1>6 DEF LoopRun, LoopExit, Move, objects
<1>7. CASE rtp_server_error_cb
  BY <1>7 DEF rtp_server_error_cb, Store, Move, objects
<1>8. CASE CallDestroy
  BY <1>8 DEF CallDestroy, Move, objects
<1>9. ASSUME NEW t \in Threads, DestroySkip(t) PROVE LoopInv' /\ GameInv'
  BY <1>9, Zenon DEF DestroySkip, Leave, ReturnTo, objects
<1>10. ASSUME NEW t \in Threads, DestroyEnter(t) PROVE LoopInv' /\ GameInv'
  <2>1. /\ place[t] = "enter" /\ gst
        /\ place' = [place EXCEPT ![t] = place'[t]]
        /\ place'[t] \in Entering
        /\ rtpsrv_state = "FAILED" => place'[t] = "quit"
        /\ place'[t] = "mark" => rtpsrv_state = "INACTIVE"
        /\ UNCHANGED <<in_cb, rtpsrv_state, loop, gst, send>>
    BY <1>10, Zenon DEF DestroyEnter, Move, objects
  <2> DEFINE b == rtpsrv_state \in {"FAILED", "INACTIVE"}
  <2>2. error' = [error EXCEPT ![t] = b]
    BY <1>10, Zenon DEF DestroyEnter
  <2>3. b \in BOOLEAN /\ (rtpsrv_state = "FAILED" => b)
    BY SMT
  <2> HIDE DEF b
  <2>4. error' \in [Threads -> BOOLEAN] /\ (rtpsrv_state = "FAILED" => error'[t])
    BY <2>2, <2>3, Zenon
  <2> QED
    BY <2>1, <2>4
<1>11. ASSUME NEW t \in Threads, NEW arrived \in BOOLEAN, DestroyEos(t, arrived)
       PROVE  LoopInv' /\ GameInv'
  BY <1>11 DEF DestroyEos, Move
<1>12. ASSUME NEW t \in Threads, DestroyQuit(t) \/ DestroyMark(t)
       PROVE  LoopInv' /\ GameInv'
  BY <1>12 DEF DestroyQuit, DestroyMark, Move, objects
<1>13. ASSUME NEW t \in Threads,
              DestroyPipeline(t) \/ DestroyBus(t) \/ DestroyPool(t) \/ DestroyCtl(t)
       PROVE  LoopInv' /\ GameInv'
  BY <1>13 DEF DestroyPipeline, DestroyBus, DestroyPool, DestroyCtl, Move
<1>14. ASSUME NEW t \in Threads, DestroyDeinit(t) PROVE LoopInv' /\ GameInv'
  BY <1>14, Zenon DEF DestroyDeinit, Leave, ReturnTo
<1>15. CASE UNCHANGED srv_vars
  BY <1>15, Zenon DEF srv_vars, objects
<1> HIDE DEF ServerInv, ServerTypes, StartInv, LoopInv, GameInv, Threads, Working, Entering,
             Releasing
<1> QED
  BY <1>1, <1>2, <1>3, <1>4, <1>5, <1>6, <1>7, <1>8, <1>9, <1>10, <1>11, <1>12, <1>13, <1>14,
     <1>15, Zenon
     DEF ServerNext, rtp_server_init, rtp_server_main_loop, rtp_server_destroy

\* They hold in every reachable state.
LEMMA FateInvariance == ServerSpec => [](LoopInv /\ GameInv)
<1>1. ServerInit => LoopInv /\ GameInv
  BY DEF ServerInit, LoopInv, GameInv, Threads
<1> QED BY <1>1, FateStep, ServerInvariance, PTL DEF ServerSpec

\* The server's thread has ended, or there never was one; or it is under way at p, or
\* anywhere, and its loop was quit.
Ended == place["l"] \in {"none", "ended"}
Halted(p) == loop = "quit" /\ place["l"] = p
Quitted == loop = "quit" /\ place["l"] \in Working \cup {"enter", "run"}

\* One step of rtp_server_destroy, from the loop to the end of the thread.
Onward ==
  \/ place'["l"] = place["l"]
  \/ place["l"] = "run" /\ place'["l"] = "enter"
  \/ place["l"] = "enter" /\ place'["l"] \in Entering
  \/ place["l"] = "eos" /\ place'["l"] = "quit"
  \/ place["l"] = "quit" /\ place'["l"] = "mark"
  \/ place["l"] = "mark" /\ place'["l"] = "pipeline"
  \/ place["l"] = "pipeline" /\ place'["l"] = "bus"
  \/ place["l"] = "bus" /\ place'["l"] = "pool"
  \/ place["l"] = "pool" /\ place'["l"] = "ctl"
  \/ place["l"] = "ctl" /\ place'["l"] = "deinit"
  \/ place["l"] \in {"enter", "deinit"} /\ in_cb /\ place'["l"] = "run"
  \/ place["l"] \in {"enter", "deinit"} /\ ~in_cb /\ place'["l"] = "ended"

\* The way of that thread once its loop was quit: out of g_main_loop_run at once, and
\* through rtp_server_destroy step by step; from there back to g_main_loop_run only if it
\* was called by the error callback, which is not called again.
LEMMA QuittedStep ==
  ASSUME ServerInv, LoopInv, [ServerNext]_srv_vars, Quitted
  PROVE  /\ Quitted' \/ Ended'
         /\ place["l"] = "run" \/ ~in_cb => ~in_cb'
         /\ Onward
<1> USE DEF ServerInv, ServerTypes, StartInv, LoopInv, Quitted, Ended, Onward, Threads,
            Working, Entering, Releasing
<1>1. CASE ~rtp_server_destroy("l")
  <2>1. ~rtp_server_init
    BY DEF rtp_server_init, InitDone, InitFails, InitFailsLate, Move
  <2>2. CASE SendEnter \/ SendPush \/ rtp_server_queue_full \/ rtp_server_queue_ready
    BY <2>2 DEF SendEnter, SendPush, rtp_server_queue_full, rtp_server_queue_ready, objects
  <2>3. CASE rtp_server_main_loop \/ rtp_server_error_cb \/ CallDestroy
    BY <2>3 DEF rtp_server_main_loop, LoopRun, LoopExit, rtp_server_error_cb, CallDestroy,
                Move, objects
  <2>4. CASE rtp_server_destroy("d")
    <3> USE <2>4
        DEF rtp_server_destroy, DestroySkip, DestroyEnter, DestroyEos, DestroyQuit,
            DestroyMark, DestroyPipeline, DestroyBus, DestroyPool, DestroyCtl,
            DestroyDeinit, Leave, Move, objects
    <3>1. place'["l"] = place["l"]
      BY SMT
    <3>2. loop' = "quit"
      BY SMT
    <3>3. ~in_cb => ~in_cb'
      <4>1. \/ in_cb' = in_cb
            \/ in_cb' = (in_cb /\ "d" # "l")
        BY Zenon
      <4> HIDE <2>4 DEF rtp_server_destroy
      <4> QED BY <4>1, Zenon
    <3> HIDE <2>4 DEF rtp_server_destroy
    <3> QED BY <3>1, <3>2, <3>3, Zenon
  <2>5. CASE UNCHANGED srv_vars
    BY <2>5, Zenon DEF srv_vars, objects
  <2> QED
    BY <1>1, <2>1, <2>2, <2>3, <2>4, <2>5, Zenon DEF ServerNext
<1>2. CASE rtp_server_destroy("l")
  <2>1. CASE DestroySkip("l") \/ DestroyDeinit("l")
    BY <2>1, Zenon DEF DestroySkip, DestroyDeinit, Leave, ReturnTo, objects
  <2>2. CASE DestroyEnter("l")
    <3>1. place["l"] = "enter" /\ place'["l"] \in Entering /\ loop' = "quit" /\ in_cb' = in_cb
      BY <2>2 DEF DestroyEnter, Move, objects
    <3> QED BY <3>1, Zenon
  <2>3. CASE (\E arrived \in BOOLEAN : DestroyEos("l", arrived)) \/ DestroyQuit("l")
             \/ DestroyMark("l")
    BY <2>3 DEF DestroyEos, DestroyQuit, DestroyMark, Move, objects
  <2>4. CASE DestroyPipeline("l") \/ DestroyBus("l") \/ DestroyPool("l") \/ DestroyCtl("l")
    BY <2>4 DEF DestroyPipeline, DestroyBus, DestroyPool, DestroyCtl, Move
  <2> QED
    BY <1>2, <2>1, <2>2, <2>3, <2>4, Zenon DEF rtp_server_destroy
<1> QED BY <1>1, <1>2, Zenon

\* A step of that thread itself moves it.
LEMMA DestroyMoves ==
  ASSUME ServerInv, NEW t \in Threads, rtp_server_destroy(t)
  PROVE  place[t] \in Working \cup {"enter"} /\ place'[t] # place[t]
  BY DEF rtp_server_destroy, DestroySkip, DestroyEnter, DestroyEos, DestroyQuit,
         DestroyMark, DestroyPipeline, DestroyBus, DestroyPool, DestroyCtl,
         DestroyDeinit, Leave, ReturnTo, Move, ServerInv, ServerTypes, Threads, Working,
         Entering, Releasing

\* The same way in terms of Halted, one stop after the other.
LEMMA HaltedOn ==
  ASSUME ServerInv, LoopInv, [ServerNext]_srv_vars
  PROVE  /\ Halted("run") => ~in_cb /\ (Halted("run")' \/ Halted("enter")')
         /\ Halted("enter") =>
              \/ Halted("enter")' \/ Halted("eos")' \/ Halted("quit")' \/ Halted("mark")'
              \/ (in_cb /\ Halted("run")') \/ Ended'
         /\ Halted("eos") => Halted("eos")' \/ Halted("quit")'
         /\ Halted("quit") => Halted("quit")' \/ Halted("mark")'
         /\ Halted("mark") => Halted("mark")' \/ Halted("pipeline")'
         /\ Halted("pipeline") => Halted("pipeline")' \/ Halted("bus")'
         /\ Halted("bus") => Halted("bus")' \/ Halted("pool")'
         /\ Halted("pool") => Halted("pool")' \/ Halted("ctl")'
         /\ Halted("ctl") => Halted("ctl")' \/ Halted("deinit")'
         /\ Halted("deinit") => Halted("deinit")' \/ (in_cb /\ Halted("run")') \/ Ended'
         /\ Quitted /\ ~in_cb => ~in_cb'
<1>1. CASE Quitted
  <2>1. place["l"] = "run" => ~in_cb
    BY DEF LoopInv, Working, Entering, Releasing
  <2>2. (Quitted' \/ Ended') /\ (place["l"] = "run" \/ ~in_cb => ~in_cb') /\ Onward
    BY <1>1, QuittedStep, Zenon
  <2>3. loop' = "quit" \/ place'["l"] \in {"none", "ended"}
    BY <2>2 DEF Quitted, Ended
  <2> QED
    BY <2>1, <2>2, <2>3, Zenon DEF Halted, Ended, Onward, Entering
<1>2. CASE ~Quitted
  BY <1>2, Zenon DEF Quitted, Halted, Working, Entering, Releasing
<1> QED BY <1>1, <1>2

\* fmmod_destroy is about to quit the loop of a thread that is in it or beyond.
Quitting == place["d"] = "quit" /\ place["l"] \notin {"none", "start", "ended"}

\* It does so with its next step, unless the thread comes to its end first.
LEMMA QuittingStep ==
  ASSUME ServerInv, LoopInv, [ServerNext]_srv_vars, Quitting
  PROVE  /\ Quitting' \/ Quitted' \/ Ended'
         /\ <<rtp_server_destroy("d")>>_srv_vars => Quitted' \/ Ended'
<1> USE DEF ServerInv, ServerTypes, LoopInv, Quitting, Quitted, Ended, Threads, Working,
            Entering, Releasing
<1>1. CASE rtp_server_destroy("d")
  <2>1. DestroyQuit("d")
    BY <1>1 DEF rtp_server_destroy, DestroySkip, DestroyEnter, DestroyEos, DestroyMark,
                DestroyPipeline, DestroyBus, DestroyPool, DestroyCtl, DestroyDeinit, Move
  <2> QED BY <2>1 DEF DestroyQuit, Move
<1>2. CASE ~rtp_server_destroy("d")
  <2>1. ~rtp_server_init
    BY DEF rtp_server_init, InitDone, InitFails, InitFailsLate, Move
  <2>2. CASE SendEnter \/ SendPush \/ rtp_server_queue_full \/ rtp_server_queue_ready
    BY <1>2, <2>2 DEF SendEnter, SendPush, rtp_server_queue_full, rtp_server_queue_ready
  <2>3. CASE rtp_server_main_loop \/ rtp_server_error_cb \/ CallDestroy
    BY <1>2, <2>3 DEF rtp_server_main_loop, LoopRun, LoopExit, rtp_server_error_cb,
                      CallDestroy, Move
  <2>4. CASE rtp_server_destroy("l")
    <3>1. place'["d"] = "quit"
      BY <2>4 DEF rtp_server_destroy, DestroySkip, DestroyEnter, DestroyEos, DestroyQuit,
                  DestroyMark, DestroyPipeline, DestroyBus, DestroyPool, DestroyCtl,
                  DestroyDeinit, Move, Leave
    <3>2. place'["l"] \in Working \cup {"run", "ended"}
      BY <2>4, Zenon
         DEF rtp_server_destroy, DestroySkip, DestroyEnter, DestroyEos, DestroyQuit,
             DestroyMark, DestroyPipeline, DestroyBus, DestroyPool, DestroyCtl,
             DestroyDeinit, Move, Leave, ReturnTo
    <3> QED BY <1>2, <3>1, <3>2
  <2>5. CASE UNCHANGED srv_vars
    BY <1>2, <2>5, Zenon DEF srv_vars
  <2> QED
    BY <1>2, <2>1, <2>2, <2>3, <2>4, <2>5, Zenon DEF ServerNext
<1> QED BY <1>1, <1>2

\* A step of the thread itself takes it from where it is.
LEMMA HaltedMoves ==
  ASSUME ServerInv, NEW p \in Working \cup {"enter"}
  PROVE  /\ <<rtp_server_destroy("l")>>_srv_vars /\ Halted(p) => ~Halted(p)'
         /\ <<LoopExit>>_srv_vars /\ Halted("run") => ~Halted("run")'
<1>1. rtp_server_destroy("l") => place'["l"] # place["l"]
  BY DestroyMoves DEF Threads
<1>2. LoopExit => place'["l"] # "run"
  BY DEF LoopExit, Move, ServerInv, ServerTypes, Threads
<1> QED BY <1>1, <1>2, Zenon DEF Halted

\* Fairness of rtp_server_destroy and what it rests on, for each of its two threads.
LEMMA FairThreads ==
  /\ (\A t \in Threads : DestroyFair(t)) => DestroyFair("d") /\ DestroyFair("l")
  /\ (\A t \in Threads : DestroyCan(t)) => DestroyCan("d") /\ DestroyCan("l")
  BY Zenon DEF Threads

\* "Stop the main loop": the quit that fmmod_destroy is about to call, on a thread that has
\* entered its loop, ends that thread, from the error callback and in the middle of the
\* cleanup as well.
THEOREM LoopStops == FairSpec /\ []CanMove => StopLoop
<1> DEFINE J == ServerInv /\ LoopInv
           A == <<rtp_server_destroy("l")>>_srv_vars
<1>1. J /\ place["d"] = "quit" /\ place["l"] # "start" => Quitting \/ Ended
  BY Zenon DEF Quitting, Ended
<1>2. Ended => place["l"] \in {"none", "ended"}
  BY DEF Ended
<1>3. Quitted =>
        \/ Halted("run") \/ Halted("enter") \/ Halted("eos") \/ Halted("quit")
        \/ Halted("mark") \/ Halted("pipeline") \/ Halted("bus") \/ Halted("pool")
        \/ Halted("ctl") \/ Halted("deinit")
  BY Zenon DEF Quitted, Halted, Working, Entering, Releasing
<1>4. \/ Halted("enter") \/ Halted("eos") \/ Halted("quit") \/ Halted("mark")
      \/ Halted("pipeline") \/ Halted("bus") \/ Halted("pool") \/ Halted("ctl")
      \/ Halted("deinit")
      => DestroyReady("l")
  BY Zenon DEF Halted, DestroyReady, Entering
<1>5. Quitting => DestroyReady("d")
  BY DEF Quitting, DestroyReady, Entering
<1>6. Halted("run") => place["l"] = "run" /\ loop = "quit"
  BY DEF Halted
<1>7. J /\ A =>
        /\ ~(Halted("enter") /\ Halted("enter")') /\ ~(Halted("eos") /\ Halted("eos")')
        /\ ~(Halted("quit") /\ Halted("quit")') /\ ~(Halted("mark") /\ Halted("mark")')
        /\ ~(Halted("pipeline") /\ Halted("pipeline")')
        /\ ~(Halted("bus") /\ Halted("bus")') /\ ~(Halted("pool") /\ Halted("pool")')
        /\ ~(Halted("ctl") /\ Halted("ctl")') /\ ~(Halted("deinit") /\ Halted("deinit")')
  BY HaltedMoves, Zenon DEF Working, Entering, Releasing
<1>8. J /\ <<LoopExit>>_srv_vars => ~(Halted("run") /\ Halted("run")')
  BY HaltedMoves, Zenon
<1>9. ServerSpec /\ WF_srv_vars(LoopExit) /\ DestroyFair("d") /\ DestroyFair("l")
      /\ [](place["l"] = "run" /\ loop = "quit" => ENABLED <<LoopExit>>_srv_vars)
      /\ []DestroyCan("d") /\ []DestroyCan("l") => StopLoop
  BY <1>1, <1>2, <1>3, <1>4, <1>5, <1>6, <1>7, <1>8, HaltedOn, QuittedStep, QuittingStep,
     ServerInvariance, FateInvariance, PTL
     DEF ServerSpec, DestroyFair, DestroyCan, StopLoop
<1> QED BY <1>9, FairThreads, PTL DEF FairSpec, CanMove

\* The server's thread is at p of rtp_server_destroy because of an error; the parent knows,
\* or is in fmmod_destroy, or a callback of the appsrc replaced the state.
Failing(p) ==
  /\ place["d"] = "idle" /\ place["l"] = p
  /\ IF p = "enter" THEN rtpsrv_state = "FAILED" /\ gst ELSE error["l"]
Told == raised \/ place["d"] # "idle" \/ rtpsrv_state \in {"ACTIVE", "QUEUE_FULL"}

\* One step of that way.
FailingOn ==
  /\ Failing("enter") => Failing("enter")' \/ Failing("quit")'
  /\ Failing("quit") => Failing("quit")' \/ Failing("mark")'
  /\ Failing("mark") => Failing("mark")' \/ Failing("pipeline")'
  /\ Failing("pipeline") => Failing("pipeline")' \/ Failing("bus")'
  /\ Failing("bus") => Failing("bus")' \/ Failing("pool")'
  /\ Failing("pool") => Failing("pool")' \/ Failing("ctl")'
  /\ Failing("ctl") => Failing("ctl")' \/ Failing("deinit")'
  /\ Failing("deinit") => Failing("deinit")'

\* Nothing takes the thread out of rtp_server_destroy before it has raised SIGTERM.
LEMMA FailingStep ==
  ASSUME ServerInv, LoopInv, [ServerNext]_srv_vars, ~Told'
  PROVE  FailingOn
<1> USE DEF FailingOn
<1> SUFFICES ASSUME place["d"] = "idle", place["l"] \in Working \cup {"enter"}
             PROVE  FailingOn
  BY Zenon DEF Failing, Working, Entering, Releasing
<1> USE DEF ServerInv, ServerTypes, StartInv, LoopInv, Failing, Told, Threads, Working,
            Entering, Releasing
<1>1. CASE rtp_server_init \/ rtp_server_main_loop \/ rtp_server_error_cb \/ CallDestroy
  BY <1>1 DEF rtp_server_init, InitDone, InitFails, InitFailsLate, rtp_server_main_loop,
              LoopRun, LoopExit, rtp_server_error_cb, CallDestroy, Move
<1>2. CASE SendEnter \/ SendPush
  <2>1. UNCHANGED <<place, error, rtpsrv_state, gst>>
    BY <1>2 DEF SendEnter, SendPush, objects
  <2> QED BY <2>1, Zenon
<1>3. CASE rtp_server_queue_full \/ rtp_server_queue_ready
  BY <1>3 DEF rtp_server_queue_full, rtp_server_queue_ready, Store
<1>4. ASSUME NEW t \in Threads, rtp_server_destroy(t)
      PROVE  t = "l"
  BY <1>4, DestroyMoves
<1>5. CASE DestroySkip("l") \/ DestroyEnter("l")
  <2>1. place["l"] = "enter"
    BY <1>5 DEF DestroySkip, DestroyEnter, Move
  <2>2. SUFFICES ASSUME Failing("enter") PROVE Failing("quit")'
    BY <2>1, Zenon
  <2>3. DestroyEnter("l")
    BY <1>5, <2>2 DEF DestroySkip
  <2>4. place'["l"] = "quit" /\ place'["d"] = "idle"
    BY <2>2, <2>3 DEF DestroyEnter, Move
  <2>5. error'["l"]
    <3> DEFINE b == rtpsrv_state \in {"FAILED", "INACTIVE"}
    <3>1. error' = [error EXCEPT !["l"] = b]
      BY <2>3, Zenon DEF DestroyEnter
    <3>2. b
      BY <2>2, Zenon
    <3> HIDE DEF b
    <3> QED BY <3>1, <3>2, Zenon
  <2> QED BY <2>4, <2>5, Zenon
<1>6. CASE (\E arrived \in BOOLEAN : DestroyEos("l", arrived)) \/ DestroyQuit("l")
           \/ DestroyMark("l")
  BY <1>6 DEF DestroyEos, DestroyQuit, DestroyMark, Move, objects
<1>7. CASE DestroyPipeline("l") \/ DestroyBus("l") \/ DestroyPool("l") \/ DestroyCtl("l")
  BY <1>7 DEF DestroyPipeline, DestroyBus, DestroyPool, DestroyCtl, Move
<1>8. CASE DestroyDeinit("l")
  BY <1>8, Zenon DEF DestroyDeinit
<1>9. CASE UNCHANGED srv_vars
  BY <1>9, Zenon DEF srv_vars, objects
<1> HIDE DEF ServerInv, ServerTypes, StartInv, LoopInv, Failing, Told, Threads, Working,
             Entering, Releasing
<1> QED
  BY <1>1, <1>2, <1>3, <1>4, <1>5, <1>6, <1>7, <1>8, <1>9, Zenon
     DEF ServerNext, rtp_server_destroy

\* "Signal the parent it's game over": after a failure SIGTERM is raised, unless fmmod_destroy
\* is called anyway or a callback of the appsrc overwrites the state FAILED.
THEOREM FailureIsSignalled == FairSpec /\ []CanMove => GameOver
<1> DEFINE J == ServerInv /\ LoopInv /\ GameInv
           A == <<rtp_server_destroy("l")>>_srv_vars
<1>1. J /\ rtpsrv_state = "FAILED" =>
        Told \/ Failing("enter") \/ Failing("quit") \/ Failing("mark")
  BY Zenon DEF GameInv, Failing, Told
<1>2. \/ Failing("enter") \/ Failing("quit") \/ Failing("mark") \/ Failing("pipeline")
      \/ Failing("bus") \/ Failing("pool") \/ Failing("ctl") \/ Failing("deinit")
      => DestroyReady("l")
  BY Zenon DEF Failing, DestroyReady, Entering
<1>3. J /\ A =>
        /\ ~(Failing("enter") /\ Failing("enter")') /\ ~(Failing("quit") /\ Failing("quit")')
        /\ ~(Failing("mark") /\ Failing("mark")')
        /\ ~(Failing("pipeline") /\ Failing("pipeline")')
        /\ ~(Failing("bus") /\ Failing("bus")') /\ ~(Failing("pool") /\ Failing("pool")')
        /\ ~(Failing("ctl") /\ Failing("ctl")')
        /\ ~(Failing("deinit") /\ Failing("deinit")')
  <2>1. ServerInv /\ A => place'["l"] # place["l"]
    BY DestroyMoves DEF Threads
  <2> QED BY <2>1, Zenon DEF Failing
<1>4. ServerSpec /\ DestroyFair("l") /\ []DestroyCan("l") => (rtpsrv_state = "FAILED" ~> Told)
  BY <1>1, <1>2, <1>3, FailingStep, ServerInvariance, FateInvariance, PTL
     DEF ServerSpec, DestroyFair, DestroyCan, FailingOn
<1> QED BY <1>4, FairThreads, PTL DEF FairSpec, CanMove, GameOver, Told
=============================================================================
