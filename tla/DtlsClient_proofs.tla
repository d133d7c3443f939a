-------------------------- MODULE DtlsClient_proofs ---------------------------
(***************************************************************************)
(* Proofs about DtlsClient, for any number of attempts, faults and records *)
(* on their way, any limit of retries, and servers with and without        *)
(* cookies.                                                                *)
(*                                                                         *)
(* The lemmas follow the calls: what sending a record does to the client   *)
(* (SendIs, SendMsgIs), each message of the handshake, a record            *)
(* (HandleRecordOK), each step of the task, and the server and network.    *)
(***************************************************************************)
EXTENDS DtlsClient, SequenceTheorems, TLAPS

(***************************************************************************)
(* Types                                                                   *)
(***************************************************************************)
Keys  == Nat \X Nat
Types == {"handshake", "ccs", "alert", "data"}
Answered == {"HelloVerify", "ServerHello", "ServerKey", "HelloDone", "Finished"}
Whats == Answered \union {"ClientHello", "CookieHello", "ClientKey", "ccs",
                          "fatal", "close_notify", "data"}
Logs  == Seq(Whats \X Nat)

Records == [epoch : 0..1, key : Keys, seq : Nat, type : Types, what : Whats,
            mseq : Nat, random : Nat, hash : Logs]

\* What the two ends hash, message by message, from the randoms of both.
Entry(what, random)      == <<what, random>>
Begun(ours)              == << Entry("CookieHello", ours) >>
Heard(ours, theirs)      == Append(Begun(ours), Entry("ServerHello", theirs))
Keyed(ours, theirs)      == Append(Heard(ours, theirs), Entry("ServerKey", 0))
Done(ours, theirs)       == Append(Keyed(ours, theirs), Entry("HelloDone", 0))
Transcript(ours, theirs) == Append(Done(ours, theirs), Entry("ClientKey", 0))

\* What the client writes: a Finished message covers what its keys are from.
Requests == {r \in Records :
    Cookies /\ r.what = "Finished" => r.hash = Transcript(r.key[1], r.key[2])}

\* What the server writes: a message's number is that of its kind, and a
\* Finished message is under keys that are agreed.
Answers == {r \in Records :
    /\ r.type = "handshake" => r.what \in Answered
    /\ r.what = "HelloVerify" => Cookies /\ r.mseq = 0
    /\ r.what = "ServerHello" => r.mseq = FirstSeq /\ r.random # 0
    /\ r.what = "ServerKey"   => r.mseq = FirstSeq + 1 /\ r.random = 0
    /\ r.what = "HelloDone"   => r.mseq = FirstSeq + 2 /\ r.random = 0
                                 /\ r.epoch = 0
    /\ r.what = "Finished"    => r.mseq = FirstSeq + 3 /\ r.key \in agreed}

Slots == [epoch : 0..1, key : Keys, rseq : Nat]
Handshakes == [random : Nat, server : Nat, sent : 0..4, rcvd : 0..4,
               log : Logs, early : SUBSET Nat]
Clients == [state : States, active : 1..2, slot : [1..2 -> Slots],
            out : Seq(Requests), hs : Handshakes]
Servers == [state : ServerStates, client : Nat, random : Nat, log : Logs]

(***************************************************************************)
(* The inductive invariant                                                 *)
(***************************************************************************)

\* How far the handshake is, by the number of the message that is due.
HsOK(hs, random) ==
    /\ hs.random = random
    /\ hs.rcvd <= FirstSeq + 3
    /\ hs.server = 0 => hs.rcvd <= FirstSeq
    /\ hs.rcvd = 0 => hs.sent <= 1
    /\ hs.rcvd <= FirstSeq + 2 => hs.sent <= 2

\* Where there are cookies, the hash covers what has been counted.
LogOK(hs) ==
    Cookies =>
        /\ hs.rcvd = 1 => hs.log = Begun(hs.random)
        /\ hs.rcvd = 2 => hs.log = Heard(hs.random, hs.server)
        /\ hs.rcvd = 3 => hs.log = Keyed(hs.random, hs.server)

\* The other set of parameters is clear.  No keys are from a random to come,
\* nor from the current one before the last message of the server's flight;
\* what the keys in use have sealed came before the next sequence number.
KeysOK(c, used) ==
    LET s == Active(c)
        other == c.slot[3 - c.active]
    IN /\ used \subseteq Keys \X Nat
       /\ other.epoch = 0 /\ other.key = NoKey
       /\ s.epoch = 0 => s.key = NoKey
       /\ s.key # NoKey => /\ s.key[1] <= c.hs.random
                           /\ c.hs.rcvd <= FirstSeq + 2 => s.key[1] # c.hs.random
       /\ \A u \in used : /\ u[1][1] <= c.hs.random
                          /\ c.hs.rcvd <= FirstSeq + 2 => u[1][1] # c.hs.random
                          /\ s.key # NoKey /\ u[1] = s.key => u[2] < s.rseq

\* What a sequence of records has been encrypted with.
Seals(out) == {<<r.key, r.seq>> : r \in {x \in ToSet(out) : x.key # NoKey}}

\* What is right of a client while it handles a record, and after: random is
\* that of its handshake, used what has been sealed before the records it has
\* not written yet.
ClientOK(c, random, used) ==
    /\ c \in Clients
    /\ HsOK(c.hs, random) /\ LogOK(c.hs)
    /\ KeysOK(c, used \union Seals(c.out))

ClientInv ==
    ClientOK(client, connects, sealed) /\ client.out = <<>> /\ Agreement

AirInv ==
    /\ toServer \in Seq(Requests) /\ Len(toServer) <= MaxAir
    /\ toClient \in Seq(Answers)  /\ Len(toClient) <= MaxAir

ServerInv ==
    /\ server \in Servers /\ agreed \subseteq Keys
    /\ server.state = "hello" => server.random # 0
    /\ Cookies /\ server.state = "hello" =>
         server.log = Done(server.client, server.random)
    /\ Cookies /\ server.state \in {"key", "ccs"} =>
         server.log = Transcript(server.client, server.random)

\* dtls_client_init takes the keys of no client that is connected or about to
\* be: the task goes back to INIT with the client closed, or never answered.
TaskInv ==
    /\ at \in {"udp", "dtls", "services"} /\ app \in AppStates
    /\ up \in BOOLEAN /\ okBefore \in BOOLEAN
    /\ retry \in 0..RetryLimit
    /\ connects \in 0..MaxConnects /\ faults \in 0..MaxFaults
    /\ app = "INIT" =>
         client.state \in {"INIT", "CLIENTHELLO", "CLOSING", "CLOSED"} \union
                          (IF at = "dtls" THEN {"WAIT_SERVERHELLODONE"} ELSE {})
    /\ at = "services" => up
    /\ app \in {"CONNECT", "CONNECTING", "CLOSE"} => retry < RetryLimit

IInv == ClientInv /\ AirInv /\ ServerInv /\ TaskInv

(***************************************************************************)
(* Sequences                                                               *)
(***************************************************************************)
LEMMA LostIn ==
    ASSUME NEW S, NEW air \in Seq(S), NEW left \in Lost(air)
    PROVE  left \in Seq(S) /\ Len(left) <= Len(air)
<1> PICK i \in 1..Len(air) : left = RemoveAt(air, i)
  BY DEF Lost
<1> DEFINE front == SubSeq(air, 1, i - 1)
           back  == SubSeq(air, i + 1, Len(air))
<1>1. front \in Seq(S) /\ Len(front) = i - 1
  <2>1. \A j \in 1..(i - 1) : air[j] \in S
    BY ElementOfSeq
  <2> QED
    BY <2>1, SubSeqProperties
<1>2. back \in Seq(S) /\ Len(back) = Len(air) - i
  <2>1. \A j \in (i + 1)..Len(air) : air[j] \in S
    BY ElementOfSeq
  <2> QED
    BY <2>1, SubSeqProperties, LenProperties
<1>3. Len(air) \in Nat
  BY LenProperties
<1>4. left = front \o back
  BY DEF RemoveAt
<1> HIDE DEF front, back
<1>5. front \o back \in Seq(S) /\ Len(front \o back) = Len(front) + Len(back)
  BY <1>1, <1>2, ConcatProperties
<1> QED
  BY <1>1, <1>2, <1>3, <1>4, <1>5

LEMMA CopiedIn ==
    ASSUME NEW S, NEW air \in Seq(S), NEW more \in Copied(air)
    PROVE  more \in Seq(S) /\ Len(more) <= MaxAir
<1> PICK r \in ToSet(air) : more = Append(air, r) /\ Len(air) < MaxAir
  BY DEF Copied
<1>1. r \in S
  BY ElementOfSeq, LenProperties DEF ToSet
<1> QED
  BY <1>1, DtlsAssumption

LEMMA SwappedIn ==
    ASSUME NEW S, NEW air \in Seq(S), NEW other \in Swapped(air)
    PROVE  other \in Seq(S) /\ Len(other) = Len(air)
<1> PICK i \in 1..(Len(air) - 1) :
           other = [air EXCEPT ![i] = air[i + 1], ![i + 1] = air[i]]
  BY DEF Swapped
<1>1. air[i] \in S /\ air[i + 1] \in S
  BY ElementOfSeq
<1>2. /\ [air EXCEPT ![i] = air[i + 1]] \in Seq(S)
      /\ Len([air EXCEPT ![i] = air[i + 1]]) = Len(air)
  BY <1>1, ExceptSeq
<1> QED
  BY <1>1, <1>2, ExceptSeq

LEMMA DisturbedIn ==
    ASSUME NEW S, NEW air \in Seq(S), Len(air) <= MaxAir,
           NEW there \in Lost(air) \union Copied(air) \union Swapped(air)
    PROVE  there \in Seq(S) /\ Len(there) <= MaxAir
BY LostIn, CopiedIn, SwappedIn, LenProperties, DtlsAssumption

(***************************************************************************)
(* What the client sends                                                   *)
(***************************************************************************)

\* What the next record of a client is encrypted with.
Sealing(c) == IF Active(c).key = NoKey THEN {}
              ELSE {<<Active(c).key, Active(c).rseq>>}

LEMMA SealsOfAppend ==
    ASSUME NEW out \in Seq(Requests), NEW r \in Requests
    PROVE  Seals(Append(out, r)) =
             Seals(out) \union (IF r.key = NoKey THEN {} ELSE {<<r.key, r.seq>>})
<1>1. ToSet(Append(out, r)) = ToSet(out) \union {r}
  <2>1. /\ DOMAIN Append(out, r) = 1..(Len(out) + 1)
        /\ DOMAIN out = 1..Len(out) /\ Len(out) \in Nat
    BY LenProperties
  <2>2. /\ Append(out, r)[Len(out) + 1] = r
        /\ \A i \in 1..Len(out) : Append(out, r)[i] = out[i]
    BY <2>1
  <2>3. \A i \in 1..(Len(out) + 1) : i \in 1..Len(out) \/ i = Len(out) + 1
    BY <2>1
  <2> QED
    BY <2>1, <2>2, <2>3 DEF ToSet
<1> QED
  BY <1>1 DEF Seals

\* d is c with one more record, written under the parameters in use.
Wrote(c, d) ==
    /\ d \in Clients /\ d.state = c.state /\ d.active = c.active
    /\ d.slot[3 - c.active] = c.slot[3 - c.active]
    /\ Active(d).epoch = Active(c).epoch /\ Active(d).key = Active(c).key
    /\ Active(d).rseq = Active(c).rseq + 1
    /\ Seals(d.out) = Seals(c.out) \union Sealing(c)

\* Send appends one record under the parameters in use, and numbers it.
LEMMA SendIs ==
    ASSUME NEW c \in Clients, NEW type \in Types, NEW what \in Whats,
           NEW mseq \in Nat, NEW random \in Nat, NEW hash \in Logs,
           Cookies /\ what = "Finished" => hash = Transcript(Active(c).key[1], Active(c).key[2]),
           NEW d, d = Send(c, type, what, mseq, random, hash)
    PROVE  Wrote(c, d) /\ d.hs = c.hs
<1> DEFINE s == Active(c)
           record == [epoch |-> s.epoch, key |-> s.key, seq |-> s.rseq,
                      type |-> type, what |-> what, mseq |-> mseq,
                      random |-> random, hash |-> hash]
           slot == [c.slot EXCEPT ![c.active].rseq = @ + 1]
<1>1. s \in Slots /\ c.active \in 1..2 /\ c.slot \in [1..2 -> Slots]
  BY DEF Clients, Active
<1>2. record \in Requests
  BY <1>1 DEF Requests, Records, Slots
<1>3. slot \in [1..2 -> Slots]
  BY <1>1 DEF Slots
<1>4. d = [c EXCEPT !.slot[c.active].rseq = @ + 1, !.out = Append(@, record)]
  BY DEF Send
<1>5. /\ d.state = c.state /\ d.active = c.active /\ d.hs = c.hs
      /\ d.slot = slot /\ d.out = Append(c.out, record)
  BY <1>4 DEF Clients
<1>6. d \in Clients
  <2>1. d = [c EXCEPT !.slot = slot, !.out = Append(c.out, record)]
    BY <1>4
  <2>2. Append(c.out, record) \in Seq(Requests)
    <3>1. c.out \in Seq(Requests)
      BY DEF Clients
    <3> HIDE DEF record
    <3> QED
      BY <3>1, <1>2
  <2> DEFINE out == Append(c.out, record)
  <2>3. out \in Seq(Requests) /\ d = [c EXCEPT !.slot = slot, !.out = out]
    BY <2>1, <2>2
  <2> HIDE DEF slot, out
  <2>4. [c EXCEPT !.slot = slot, !.out = out] \in Clients
    BY <2>3, <1>3 DEF Clients
  <2> QED
    BY <2>3, <2>4, Zenon
<1>7. /\ slot[3 - c.active] = c.slot[3 - c.active]
      /\ slot[c.active] = [c.slot[c.active] EXCEPT !.rseq = @ + 1]
  BY <1>1
<1>8. Seals(d.out) = Seals(c.out) \union
        (IF s.key = NoKey THEN {} ELSE {<<s.key, s.rseq>>})
  <2>1. c.out \in Seq(Requests) /\ record.key = s.key /\ record.seq = s.rseq
    BY DEF Clients
  <2> HIDE DEF record, s
  <2> QED
    BY <1>2, <1>5, <2>1, SealsOfAppend
<1>9. /\ Active(d) = slot[c.active]
      /\ slot[c.active] = [s EXCEPT !.rseq = @ + 1]
  BY <1>5, <1>7 DEF Active
<1> QED
  BY <1>1, <1>5, <1>6, <1>7, <1>8, <1>9 DEF Slots, Active, Sealing, Wrote

LEMMA EnterIs ==
    ASSUME NEW c \in Clients, NEW state \in States, NEW d, d = Enter(c, state)
    PROVE  /\ d \in Clients /\ d.state = state /\ d.active = c.active
           /\ d.slot = c.slot /\ d.out = c.out /\ d.hs = c.hs
BY DEF Enter, Clients

LEMMA HsIs ==
    ASSUME NEW c \in Clients, NEW hs \in Handshakes,
           NEW d, d = [c EXCEPT !.hs = hs]
    PROVE  /\ d \in Clients /\ d.state = c.state /\ d.active = c.active
           /\ d.slot = c.slot /\ d.out = c.out /\ d.hs = hs
BY DEF Clients

LEMMA KeysKept ==
    ASSUME NEW c \in Clients, NEW d \in Clients, NEW used, NEW new,
           KeysOK(c, used), new \subseteq used,
           d.slot = c.slot, d.active = c.active, d.hs.random = c.hs.random,
           d.hs.rcvd >= c.hs.rcvd
    PROVE  KeysOK(d, new)
<1>1. c.hs.rcvd \in Nat /\ d.hs.rcvd \in Nat /\ FirstSeq \in Nat
  BY DEF Clients, Handshakes, FirstSeq
<1>2. d.hs.rcvd <= FirstSeq + 2 => c.hs.rcvd <= FirstSeq + 2
  BY <1>1
<1> QED
  BY <1>2 DEF KeysOK, Active

LEMMA KeysSent ==
    ASSUME NEW c \in Clients, NEW d, NEW used, KeysOK(c, used), Wrote(c, d),
           d.hs.random = c.hs.random, d.hs.rcvd = c.hs.rcvd
    PROVE  KeysOK(d, used \union Sealing(c))
<1> DEFINE s == Active(c)
           new == used \union (IF s.key = NoKey THEN {}
                               ELSE {<<s.key, s.rseq>>})
<1>1. s.key \in Keys /\ s.rseq \in Nat
  BY DEF Clients, Active, Slots
<1>2. new \subseteq Keys \X Nat
  BY <1>1 DEF KeysOK
<1>3. ASSUME NEW u \in new
      PROVE  /\ u[1][1] <= c.hs.random
             /\ c.hs.rcvd <= FirstSeq + 2 => u[1][1] # c.hs.random
             /\ s.key # NoKey /\ u[1] = s.key => u[2] < s.rseq + 1
  <2>1. CASE u \in used
    <3>1. u[2] \in Nat
      BY <2>1 DEF KeysOK
    <3> QED
      BY <1>1, <2>1, <3>1 DEF KeysOK
  <2>2. CASE u \notin used
    <3>1. u = <<s.key, s.rseq>> /\ s.key # NoKey
      BY <2>2
    <3>2. u[1] = s.key /\ u[2] = s.rseq
      BY <3>1
    <3> QED
      BY <1>1, <3>1, <3>2 DEF KeysOK
  <2> QED
    BY <2>1, <2>2
<1>4. /\ d.slot[3 - d.active].epoch = 0 /\ d.slot[3 - d.active].key = NoKey
      /\ Active(d).epoch = 0 => Active(d).key = NoKey
      /\ Active(d).key # NoKey =>
           /\ Active(d).key[1] <= d.hs.random
           /\ d.hs.rcvd <= FirstSeq + 2 => Active(d).key[1] # d.hs.random
  BY DEF KeysOK, Wrote
<1> HIDE DEF new
<1>5. KeysOK(d, new)
  BY <1>2, <1>3, <1>4 DEF KeysOK, Wrote
<1> QED
  BY <1>5 DEF new, Sealing

\* A record that is no message of the handshake.
LEMMA SendOK ==
    ASSUME NEW random, NEW used, NEW c, ClientOK(c, random, used),
           NEW type \in Types, NEW what \in Whats \ {"Finished"},
           NEW d, d = Send(c, type, what, 0, 0, <<>>)
    PROVE  /\ ClientOK(d, random, used)
           /\ d.state = c.state /\ d.active = c.active /\ d.hs = c.hs
           /\ Active(d).key = Active(c).key
<1> DEFINE none == <<>>
<1>1. /\ c \in Clients /\ 0 \in Nat /\ none \in Logs
      /\ what \in Whats
      /\ Cookies /\ what = "Finished" =>
           none = Transcript(Active(c).key[1], Active(c).key[2])
  BY DEF ClientOK, Logs
<1>2. Wrote(c, d) /\ d.hs = c.hs
  <2>1. d = Send(c, type, what, 0, 0, none)
    OBVIOUS
  <2> HIDE DEF none
  <2> QED
    BY <1>1, <2>1, SendIs, SMTT(30)
<1>3. KeysOK(d, (used \union Seals(c.out)) \union
                Sealing(c))
  BY <1>1, <1>2, KeysSent DEF ClientOK
<1>4. KeysOK(d, used \union Seals(d.out))
  <2>1. used \union Seals(d.out) = (used \union Seals(c.out)) \union
                Sealing(c)
    BY <1>2, Zenon DEF Wrote
  <2> QED
    BY <1>3, <2>1, Zenon
<1> QED
  BY <1>2, <1>4 DEF ClientOK, Wrote

LEMMA EnterOK ==
    ASSUME NEW random, NEW used, NEW c, ClientOK(c, random, used),
           NEW state \in States, NEW d, d = Enter(c, state)
    PROVE  /\ ClientOK(d, random, used)
           /\ d.state = state /\ d.active = c.active /\ d.hs = c.hs
           /\ Active(d) = Active(c)
<1>1. /\ c \in Clients /\ d \in Clients
      /\ d.state = state /\ d.active = c.active
      /\ d.slot = c.slot /\ d.out = c.out /\ d.hs = c.hs
  BY EnterIs DEF ClientOK
<1>2. c.hs.rcvd \in Nat
  BY <1>1 DEF Clients, Handshakes
<1>3. KeysOK(d, used \union Seals(d.out))
  BY <1>1, <1>2, KeysKept DEF ClientOK
<1> QED
  BY <1>1, <1>3 DEF ClientOK, Active

LEMMA CloseOK ==
    ASSUME NEW random, NEW used, NEW c, ClientOK(c, random, used),
           NEW d, d \in {Close(c), Fatal(c)}
    PROVE  /\ ClientOK(d, random, used) /\ d.state = "CLOSING"
           /\ d.hs = c.hs
<1>1. "CLOSING" \in States /\ "alert" \in Types
      /\ {"fatal", "close_notify"} \subseteq Whats \ {"Finished"}
  BY DEF States, Types, Whats, Answered
<1>2. CASE d = Close(c)
  <2> DEFINE e == SendAlert(c, "close_notify")
  <2>1. ClientOK(e, random, used) /\ e.hs = c.hs
    BY <1>1, SendOK DEF SendAlert
  <2>2. d = Enter(e, "CLOSING")
    BY <1>2 DEF Close, Enter
  <2> HIDE DEF e
  <2> QED
    BY <1>1, <2>1, <2>2, EnterOK
<1>3. CASE d = Fatal(c)
  <2> DEFINE e == Enter(c, "CLOSING")
  <2>1. ClientOK(e, random, used) /\ e.hs = c.hs /\ e.state = "CLOSING"
    BY <1>1, EnterOK
  <2>2. d = Send(e, "alert", "fatal", 0, 0, <<>>)
    BY <1>3 DEF Fatal, Enter, SendAlert
  <2> HIDE DEF e
  <2> QED
    BY <1>1, <2>1, <2>2, SendOK
<1> QED
  BY <1>2, <1>3

\* d is c with one more message of the handshake, which is hashed.
WroteMsg(c, d, what, random) ==
    /\ Wrote(c, d)
    /\ d.hs.random = c.hs.random /\ d.hs.server = c.hs.server
    /\ d.hs.rcvd = c.hs.rcvd /\ d.hs.sent = c.hs.sent + 1
    /\ d.hs.log = Append(c.hs.log, Entry(what, random))

LEMMA SendMsgIs ==
    ASSUME NEW c \in Clients, c.hs.sent <= 3,
           NEW what \in Whats, NEW random \in Nat, NEW hash \in Logs,
           Cookies /\ what = "Finished" => hash = Transcript(Active(c).key[1], Active(c).key[2]),
           NEW d, d = SendMsg(c, what, random, hash)
    PROVE  WroteMsg(c, d, what, random)
<1> DEFINE e == Send(c, "handshake", what, c.hs.sent, random, hash)
           log == Append(c.hs.log, <<what, random>>)
<1>1. /\ c.hs \in Handshakes /\ c.hs.sent \in 0..4
      /\ c.hs.sent \in Nat /\ "handshake" \in Types
  BY DEF Clients, Handshakes, Types
<1>3. d = [e EXCEPT !.hs.sent = @ + 1, !.hs.log = Append(@, <<what, random>>)]
  BY DEF SendMsg
<1>0. e = Send(c, "handshake", what, c.hs.sent, random, hash)
  OBVIOUS
<1> HIDE DEF e
<1>2. Wrote(c, e) /\ e.hs = c.hs
  BY <1>0, <1>1, SendIs, SMTT(30)
<1>4. log \in Logs
  <2>1. c.hs.log \in Logs /\ <<what, random>> \in Whats \X Nat
    BY <1>1 DEF Handshakes
  <2> QED
    BY <2>1 DEF Logs
<1>5. /\ d.state = e.state /\ d.active = e.active /\ d.slot = e.slot
      /\ d.out = e.out
  BY <1>2, <1>3 DEF Clients, Wrote
<1>6. /\ d.hs.random = e.hs.random /\ d.hs.server = e.hs.server
      /\ d.hs.rcvd = e.hs.rcvd /\ d.hs.sent = e.hs.sent + 1
      /\ d.hs.log = Append(e.hs.log, Entry(what, random))
  BY <1>2, <1>3 DEF Clients, Wrote, Handshakes, Entry
<1>7. d \in Clients
  <2> DEFINE sent == e.hs.sent + 1
             hs == [e.hs EXCEPT !.sent = sent, !.log = log]
  <2>1. sent \in 0..4
    BY <1>1, <1>2
  <2>2. d = [e EXCEPT !.hs = hs]
    BY <1>2, <1>3 DEF Wrote
  <2> HIDE DEF sent, log
  <2>3. hs \in Handshakes
    BY <1>1, <1>2, <1>4, <2>1 DEF Handshakes
  <2> HIDE DEF hs
  <2> QED
    BY <1>2, <2>2, <2>3, HsIs DEF Wrote
<1>8. Wrote(c, d)
  BY <1>2, <1>5, <1>7 DEF Active, Wrote
<1> QED
  BY <1>2, <1>6, <1>8 DEF WroteMsg

\* ... whose message adds to the hash.
LEMMA HashedIs ==
    ASSUME NEW c \in Clients, NEW r \in Records, NEW d, d = Hashed(c, r)
    PROVE  /\ d \in Clients /\ d.state = c.state /\ d.active = c.active
           /\ d.slot = c.slot /\ d.out = c.out
           /\ d.hs = [c.hs EXCEPT !.log = Append(@, Entry(r.what, r.random))]
           /\ d.hs \in Handshakes
<1> DEFINE log == Append(c.hs.log, <<r.what, r.random>>)
           hs == [c.hs EXCEPT !.log = log]
<1>1. log \in Logs
  <2>1. c.hs.log \in Logs /\ <<r.what, r.random>> \in Whats \X Nat
    BY DEF Clients, Handshakes, Records
  <2> QED
    BY <2>1 DEF Logs
<1>2. d = [c EXCEPT !.hs = hs]
  BY DEF Hashed
<1> HIDE DEF log
<1>3. hs \in Handshakes
  BY <1>1 DEF Clients, Handshakes
<1> HIDE DEF hs
<1>4. d \in Clients /\ d.state = c.state /\ d.active = c.active
      /\ d.slot = c.slot /\ d.out = c.out /\ d.hs = hs
  BY <1>2, <1>3, HsIs
<1> QED
  BY <1>3, <1>4 DEF hs, log, Entry

LEMMA CountedIs ==
    ASSUME NEW c \in Clients, c.hs.rcvd <= 3, NEW d, d = Counted(c)
    PROVE  /\ d \in Clients /\ d.state = c.state /\ d.active = c.active
           /\ d.slot = c.slot /\ d.out = c.out
           /\ d.hs = [c.hs EXCEPT !.rcvd = @ + 1]
           /\ d.hs \in Handshakes
<1> DEFINE hs == [c.hs EXCEPT !.rcvd = @ + 1]
<1>1. d = [c EXCEPT !.hs = hs]
  BY DEF Counted
<1>2. hs \in Handshakes
  BY DEF Clients, Handshakes
<1> HIDE DEF hs
<1>3. d \in Clients /\ d.state = c.state /\ d.active = c.active
      /\ d.slot = c.slot /\ d.out = c.out /\ d.hs = hs
  BY <1>1, <1>2, HsIs
<1> QED
  BY <1>2, <1>3 DEF hs

(***************************************************************************)
(* What the client makes of a message                                      *)
(***************************************************************************)

\* The messages of the server are numbered from here.
LEMMA FirstSeqIs == FirstSeq \in 0..1 /\ (Cookies => FirstSeq = 1)
BY DEF FirstSeq

\* A HelloVerifyRequest: the hash starts with the ClientHello it asks for.
LEMMA VerifyOK ==
    ASSUME NEW random, NEW used, NEW c, ClientOK(c, random, used),
           Cookies, c.hs.rcvd = 0,
           NEW d, d = Counted(CookieHello(c))
    PROVE  /\ ClientOK(d, random, used)
           /\ d.state = c.state /\ Active(d).key = Active(c).key
<1> DEFINE hs == [c.hs EXCEPT !.log = <<>>]
           b  == [c EXCEPT !.hs = hs]
           e  == SendMsg(b, "CookieHello", c.hs.random, <<>>)
<1>1. /\ c \in Clients /\ c.hs \in Handshakes /\ c.hs.random \in Nat
      /\ <<>> \in Logs /\ "CookieHello" \in Whats /\ "CookieHello" # "Finished"
  BY DEF ClientOK, Clients, Handshakes, Logs, Whats
<1>2. /\ hs \in Handshakes /\ hs.random = c.hs.random /\ hs.server = c.hs.server
      /\ hs.sent = c.hs.sent /\ hs.rcvd = 0 /\ hs.log = <<>>
  BY <1>1 DEF Handshakes
<1>3. CookieHello(c) = e
  BY <1>1 DEF CookieHello
<1> HIDE DEF hs
<1>4. /\ b \in Clients /\ b.state = c.state /\ b.active = c.active
      /\ b.slot = c.slot /\ b.out = c.out /\ b.hs = hs
  BY <1>1, <1>2, HsIs
<1>0. e = SendMsg(b, "CookieHello", c.hs.random, <<>>)
  OBVIOUS
<1> HIDE DEF b, e
<1>5. c.hs.sent <= 1
  BY DEF ClientOK, HsOK
<1>6. /\ Wrote(b, e)
      /\ e.hs.random = b.hs.random /\ e.hs.server = b.hs.server
      /\ e.hs.rcvd = b.hs.rcvd /\ e.hs.sent = b.hs.sent + 1
      /\ e.hs.log = Append(b.hs.log, Entry("CookieHello", c.hs.random))
  <2>1. b.hs.sent <= 3
    BY <1>1, <1>2, <1>4, <1>5 DEF Handshakes
  <2> QED
    <3>1. /\ c.hs.random \in Nat
          /\ Cookies /\ "CookieHello" = "Finished" =>
               <<>> = Transcript(Active(b).key[1], Active(b).key[2])
      BY <1>1
    <3>2. WroteMsg(b, e, "CookieHello", c.hs.random)
      BY <1>0, <1>1, <1>4, <2>1, <3>1, SendMsgIs, SMTT(30)
    <3> QED
      BY <3>2 DEF WroteMsg
<1>7. KeysOK(b, used \union Seals(b.out))
  BY <1>1, <1>2, <1>4, KeysKept DEF ClientOK, Handshakes
<1>8. KeysOK(e, used \union Seals(e.out))
  <2>1. KeysOK(e, (used \union Seals(b.out)) \union
                  Sealing(b))
    BY <1>4, <1>6, <1>7, KeysSent
  <2>2. used \union Seals(e.out) = (used \union Seals(b.out)) \union
                  Sealing(b)
    BY <1>6, Zenon DEF Wrote
  <2> QED
    BY <2>1, <2>2, Zenon
<1>9. /\ d \in Clients /\ d.state = e.state /\ d.active = e.active
      /\ d.slot = e.slot /\ d.out = e.out
      /\ d.hs = [e.hs EXCEPT !.rcvd = @ + 1] /\ d.hs \in Handshakes
  BY <1>2, <1>3, <1>4, <1>6, CountedIs DEF Wrote
<1>10. /\ d.hs.random = c.hs.random /\ d.hs.server = c.hs.server
       /\ d.hs.rcvd = 1 /\ d.hs.sent = c.hs.sent + 1
       /\ d.hs.log = Begun(c.hs.random)
  <2>1. /\ e.hs \in Handshakes /\ e.hs.rcvd = 0
        /\ e.hs.random = c.hs.random /\ e.hs.server = c.hs.server
        /\ e.hs.sent = c.hs.sent + 1
        /\ e.hs.log = Begun(c.hs.random)
    <3>1. Append(<<>>, Entry("CookieHello", c.hs.random)) = Begun(c.hs.random)
      BY DEF Begun
    <3> QED
      BY <1>2, <1>4, <1>6, <3>1 DEF Clients, Wrote
  <2> QED
    BY <1>9, <2>1 DEF Handshakes
<1>11. HsOK(d.hs, random)
  BY <1>1, <1>5, <1>10 DEF ClientOK, HsOK, FirstSeq, Handshakes
<1>12. LogOK(d.hs)
  BY <1>10 DEF LogOK
<1> DEFINE after == used \union Seals(e.out)
           then == used \union Seals(d.out)
<1>13. KeysOK(d, then)
  <2>1. /\ d.slot = e.slot /\ d.active = e.active
        /\ then \subseteq after
        /\ d.hs.random = e.hs.random /\ d.hs.rcvd >= e.hs.rcvd
    BY <1>2, <1>4, <1>6, <1>9, <1>10 DEF Wrote
  <2>2. KeysOK(e, after)
    BY <1>8
  <2> HIDE DEF then, after
  <2> QED
    BY <1>6, <1>9, <2>1, <2>2, KeysKept DEF Wrote
<1> QED
  BY <1>4, <1>6, <1>9, <1>11, <1>12, <1>13 DEF ClientOK, Active, Wrote

\* A ServerHello brings the server's random.
LEMMA HelloOK ==
    ASSUME NEW random, NEW used, NEW c, ClientOK(c, random, used),
           NEW r \in Answers, r.what = "ServerHello", c.hs.rcvd = FirstSeq,
           NEW d, d = Counted(ServerHello(c, r))
    PROVE  /\ ClientOK(d, random, used)
           /\ d.state = "WAIT_SERVERHELLODONE" /\ Active(d).key = Active(c).key
<1> DEFINE b == Hashed(c, r)
           hs == [b.hs EXCEPT !.server = r.random]
           e == [b EXCEPT !.hs = hs]
           f == Enter(e, "WAIT_SERVERHELLODONE")
<1>1. c \in Clients /\ r \in Records /\ r.random \in Nat \ {0}
      /\ c.hs \in Handshakes /\ "WAIT_SERVERHELLODONE" \in States
  BY DEF ClientOK, Clients, Answers, Records, States, HandshakeStates
<1>2. /\ b \in Clients /\ b.state = c.state /\ b.active = c.active
      /\ b.slot = c.slot /\ b.out = c.out
      /\ b.hs = [c.hs EXCEPT !.log = Append(@, Entry(r.what, r.random))]
      /\ b.hs \in Handshakes
  BY <1>1, HashedIs
<1>3. ServerHello(c, r) = f
  BY <1>2 DEF ServerHello
<1> HIDE DEF b
<1>4. /\ hs \in Handshakes /\ hs.random = c.hs.random /\ hs.server = r.random
      /\ hs.sent = c.hs.sent /\ hs.rcvd = FirstSeq
      /\ hs.log = Append(c.hs.log, Entry("ServerHello", r.random))
  BY <1>1, <1>2 DEF Handshakes
<1> HIDE DEF hs
<1>5. /\ e \in Clients /\ e.state = b.state /\ e.active = b.active
      /\ e.slot = b.slot /\ e.out = b.out /\ e.hs = hs
  BY <1>2, <1>4, HsIs
<1> HIDE DEF e
<1>6. /\ f \in Clients /\ f.state = "WAIT_SERVERHELLODONE"
      /\ f.active = e.active /\ f.slot = e.slot /\ f.out = e.out /\ f.hs = e.hs
  BY <1>1, <1>5, EnterIs
<1> HIDE DEF f
<1>7. /\ d \in Clients /\ d.state = f.state /\ d.active = f.active
      /\ d.slot = f.slot /\ d.out = f.out
      /\ d.hs = [f.hs EXCEPT !.rcvd = @ + 1] /\ d.hs \in Handshakes
  BY <1>3, <1>4, <1>5, <1>6, CountedIs DEF FirstSeq
<1>8. /\ d.hs.random = c.hs.random /\ d.hs.server = r.random
      /\ d.hs.sent = c.hs.sent /\ d.hs.rcvd = FirstSeq + 1
      /\ d.hs.log = Append(c.hs.log, Entry("ServerHello", r.random))
  BY <1>4, <1>5, <1>6, <1>7 DEF Handshakes
<1>9. HsOK(d.hs, random)
  BY <1>1, <1>8 DEF ClientOK, HsOK, FirstSeq, Handshakes
<1>10. LogOK(d.hs)
  <2>1. Cookies => c.hs.log = Begun(c.hs.random) /\ d.hs.rcvd = 2
    BY <1>8 DEF ClientOK, LogOK, FirstSeq
  <2>2. Append(Begun(c.hs.random), Entry("ServerHello", r.random))
          = Heard(c.hs.random, r.random)
    BY DEF Heard
  <2> QED
    BY <1>8, <2>1, <2>2 DEF LogOK
<1>11. KeysOK(d, used \union Seals(d.out))
  BY <1>1, <1>2, <1>5, <1>6, <1>7, <1>8, KeysKept DEF ClientOK, Handshakes, FirstSeq
<1> QED
  BY <1>2, <1>5, <1>6, <1>7, <1>9, <1>10, <1>11 DEF ClientOK, Active

\* A ServerKeyExchange adds to the hash only.
LEMMA KeyOK ==
    ASSUME NEW random, NEW used, NEW c, ClientOK(c, random, used),
           NEW r \in Answers, r.what = "ServerKey", c.hs.rcvd = FirstSeq + 1,
           NEW d, d = Counted(ServerKeyExchange(c, r))
    PROVE  /\ ClientOK(d, random, used)
           /\ d.state = c.state /\ Active(d).key = Active(c).key
<1> DEFINE b == Hashed(c, r)
<1>1. c \in Clients /\ r \in Records /\ r.random = 0 /\ c.hs \in Handshakes
  BY DEF ClientOK, Clients, Answers
<1>2. /\ b \in Clients /\ b.state = c.state /\ b.active = c.active
      /\ b.slot = c.slot /\ b.out = c.out
      /\ b.hs = [c.hs EXCEPT !.log = Append(@, Entry(r.what, r.random))]
      /\ b.hs \in Handshakes
  BY <1>1, HashedIs
<1>3. d = Counted(b)
  BY DEF ServerKeyExchange
<1> HIDE DEF b
<1>4. /\ b.hs.random = c.hs.random /\ b.hs.server = c.hs.server
      /\ b.hs.sent = c.hs.sent /\ b.hs.rcvd = FirstSeq + 1
      /\ b.hs.log = Append(c.hs.log, Entry("ServerKey", 0))
  BY <1>1, <1>2 DEF Handshakes
<1>5. /\ d \in Clients /\ d.state = b.state /\ d.active = b.active
      /\ d.slot = b.slot /\ d.out = b.out
      /\ d.hs = [b.hs EXCEPT !.rcvd = @ + 1] /\ d.hs \in Handshakes
  <2>1. b.hs.rcvd <= 3
    BY <1>4, FirstSeqIs
  <2> QED
    BY <1>2, <1>3, <2>1, CountedIs
<1>6. /\ d.hs.random = c.hs.random /\ d.hs.server = c.hs.server
      /\ d.hs.sent = c.hs.sent /\ d.hs.rcvd = FirstSeq + 2
      /\ d.hs.log = Append(c.hs.log, Entry("ServerKey", 0))
  BY <1>2, <1>4, <1>5 DEF Handshakes, FirstSeq
<1>7. HsOK(d.hs, random)
  BY <1>1, <1>6 DEF ClientOK, HsOK, FirstSeq, Handshakes
<1>8. LogOK(d.hs)
  <2>1. Cookies => /\ c.hs.log = Heard(c.hs.random, c.hs.server)
                   /\ d.hs.rcvd = 3
    BY <1>6 DEF ClientOK, LogOK, FirstSeq
  <2>2. Append(Heard(c.hs.random, c.hs.server), Entry("ServerKey", 0))
          = Keyed(c.hs.random, c.hs.server)
    BY DEF Keyed
  <2> QED
    BY <1>6, <2>1, <2>2 DEF LogOK
<1> DEFINE before == used \union Seals(c.out)
           after == used \union Seals(d.out)
<1>9. KeysOK(d, after)
  <2>1. /\ d.slot = c.slot /\ d.active = c.active
        /\ after \subseteq before
        /\ d.hs.random = c.hs.random /\ d.hs.rcvd >= c.hs.rcvd
    BY <1>2, <1>5, <1>6, FirstSeqIs
  <2>2. KeysOK(c, before)
    BY DEF ClientOK
  <2> HIDE DEF before, after
  <2> QED
    BY <1>1, <1>5, <2>1, <2>2, KeysKept
<1> QED
  BY <1>2, <1>5, <1>7, <1>8, <1>9 DEF ClientOK, Active

\* The new keys go to the other parameters, with a sequence number of 0.
LEMMA KeysAre ==
    ASSUME NEW c \in Clients, Active(c).epoch = 0, NEW d, d = CalculateKeys(c)
    PROVE  /\ d \in Clients /\ d.state = c.state /\ d.active = c.active
           /\ d.out = c.out /\ d.hs = c.hs /\ Active(d) = Active(c)
           /\ d.slot[3 - c.active].epoch = 1 /\ d.slot[3 - c.active].rseq = 0
           /\ d.slot[3 - c.active].key \in Keys
           /\ d.slot[3 - c.active].key[1] = c.hs.random
           /\ d.slot[3 - c.active].key[2] = c.hs.server
<1> DEFINE key == <<c.hs.random, c.hs.server>>
           params == Params(Active(c).epoch + 1, key)
           slot == [c.slot EXCEPT ![3 - c.active] = params]
<1>1. key \in Keys /\ key[1] = c.hs.random /\ key[2] = c.hs.server
  BY DEF Keys, Clients, Handshakes
<1>2. d = [c EXCEPT !.slot = slot]
  BY DEF CalculateKeys
<1> HIDE DEF key
<1>3. params \in Slots /\ params.epoch = 1 /\ params.key = key /\ params.rseq = 0
  BY <1>1 DEF Params, Slots
<1>4. c.active \in 1..2 /\ c.slot \in [1..2 -> Slots]
  BY DEF Clients
<1> HIDE DEF params
<1>5. /\ slot \in [1..2 -> Slots] /\ slot[3 - c.active] = params
      /\ slot[c.active] = c.slot[c.active]
  BY <1>3, <1>4
<1> HIDE DEF slot
<1>6. /\ d \in Clients /\ d.state = c.state /\ d.active = c.active
      /\ d.out = c.out /\ d.hs = c.hs /\ d.slot = slot
  BY <1>2, <1>5 DEF Clients
<1> QED
  BY <1>1, <1>3, <1>5, <1>6 DEF Active

LEMMA SwitchIs ==
    ASSUME NEW c \in Clients, NEW d, d = Switch(c)
    PROVE  /\ d \in Clients /\ d.state = c.state /\ d.active = 3 - c.active
           /\ d.slot = c.slot /\ d.out = c.out /\ d.hs = c.hs
BY DEF Switch, Clients

\* A ServerHelloDone is answered with three records, the last one the first
\* under the new keys.
LEMMA DoneOK ==
    ASSUME NEW random, NEW used, NEW c, ClientOK(c, random, used),
           NEW r \in Answers, r.what = "HelloDone", c.hs.rcvd = FirstSeq + 2,
           Active(c).epoch = 0,
           NEW d, d = Counted(HelloDone(c, r))
    PROVE  ClientOK(d, random, used) /\ d.state = "WAIT_CHANGECIPHERSPEC"
<1> DEFINE h == Hashed(c, r)
           k == SendMsg(h, "ClientKey", 0, <<>>)
           p == CalculateKeys(k)
           s == Send(p, "ccs", "ccs", 0, 0, <<>>)
           w == Switch(s)
           f == SendMsg(w, "Finished", 0, w.hs.log)
           e == Enter(f, "WAIT_CHANGECIPHERSPEC")
<1>1. /\ c \in Clients /\ c.hs \in Handshakes /\ r \in Records /\ r.random = 0
      /\ 0 \in Nat /\ <<>> \in Logs
      /\ "ClientKey" \in Whats /\ "ccs" \in Whats /\ "Finished" \in Whats
      /\ "ccs" \in Types
      /\ "WAIT_CHANGECIPHERSPEC" \in States /\ c.active \in 1..2
      /\ c.slot \in [1..2 -> Slots]
  BY DEF ClientOK, Clients, Answers, Logs, Whats, Answered, Types, States, HandshakeStates
<1>2. /\ c.hs.random = random /\ c.hs.sent <= 2 /\ c.hs.server # 0
      /\ Cookies => c.hs.log = Keyed(c.hs.random, c.hs.server)
  BY <1>1, FirstSeqIs DEF ClientOK, HsOK, LogOK, Handshakes
<1>3. d = Counted(e)
  BY DEF HelloDone, SendClientKey, SendCcs, SendFinished
<1>4. /\ h = Hashed(c, r) /\ k = SendMsg(h, "ClientKey", 0, <<>>)
      /\ p = CalculateKeys(k) /\ s = Send(p, "ccs", "ccs", 0, 0, <<>>)
      /\ w = Switch(s) /\ f = SendMsg(w, "Finished", 0, w.hs.log)
      /\ e = Enter(f, "WAIT_CHANGECIPHERSPEC")
  OBVIOUS
<1> HIDE DEF h, k, p, s, w, f, e
<1>5. /\ h \in Clients /\ h.active = c.active /\ h.slot = c.slot
      /\ h.out = c.out /\ h.hs \in Handshakes
      /\ h.hs.random = c.hs.random /\ h.hs.server = c.hs.server
      /\ h.hs.sent = c.hs.sent /\ h.hs.rcvd = c.hs.rcvd
      /\ h.hs.log = Append(c.hs.log, Entry("HelloDone", 0))
  <2>1. /\ h \in Clients /\ h.active = c.active /\ h.slot = c.slot
        /\ h.out = c.out /\ h.hs \in Handshakes
        /\ h.hs = [c.hs EXCEPT !.log = Append(@, Entry(r.what, r.random))]
    BY <1>1, <1>4, HashedIs
  <2> QED
    BY <1>1, <2>1 DEF Handshakes
<1>6. /\ Wrote(h, k)
      /\ k.hs.random = h.hs.random /\ k.hs.server = h.hs.server
      /\ k.hs.rcvd = h.hs.rcvd /\ k.hs.sent = h.hs.sent + 1
      /\ k.hs.log = Append(h.hs.log, Entry("ClientKey", 0))
  <2> DEFINE hash == <<>>
  <2>1. h.hs.sent <= 3
    BY <1>1, <1>2, <1>5 DEF Handshakes
  <2>2. Cookies /\ "ClientKey" = "Finished" =>
          hash = Transcript(Active(h).key[1], Active(h).key[2])
    OBVIOUS
  <2>3. h \in Clients /\ "ClientKey" \in Whats /\ 0 \in Nat /\ hash \in Logs
    BY <1>1, <1>5
  <2>4. k = SendMsg(h, "ClientKey", 0, hash)
    BY <1>4
  <2> HIDE DEF hash
  <2> QED
    <3>1. WroteMsg(h, k, "ClientKey", 0)
      BY <2>1, <2>2, <2>3, <2>4, SendMsgIs, SMTT(30)
    <3> QED
      BY <3>1 DEF WroteMsg
<1>7. /\ Active(c).key = NoKey /\ Active(k).key = NoKey
      /\ Active(k).epoch = 0 /\ k.active = c.active
      /\ k.slot[3 - c.active] = c.slot[3 - c.active]
      /\ k \in Clients
  BY <1>5, <1>6 DEF ClientOK, KeysOK, Wrote, Active
<1>8. /\ p \in Clients /\ p.active = k.active
      /\ p.out = k.out /\ p.hs = k.hs /\ Active(p) = Active(k)
      /\ p.slot[3 - k.active].epoch = 1 /\ p.slot[3 - k.active].rseq = 0
      /\ p.slot[3 - k.active].key \in Keys
      /\ p.slot[3 - k.active].key[1] = k.hs.random
      /\ p.slot[3 - k.active].key[2] = k.hs.server
  BY <1>4, <1>7, KeysAre
<1>9. Wrote(p, s) /\ s.hs = p.hs
  <2>1. /\ "ccs" \in Whats
        /\ Cookies /\ "ccs" = "Finished" =>
             <<>> = Transcript(Active(p).key[1], Active(p).key[2])
    BY <1>1
  <2> QED
    BY <1>1, <1>4, <1>8, <2>1, SendIs, SMTT(30)
<1>10. /\ w \in Clients /\ w.active = 3 - c.active
       /\ w.slot = s.slot /\ w.out = s.out /\ w.hs = s.hs
  BY <1>4, <1>7, <1>8, <1>9, SwitchIs DEF Wrote
<1> DEFINE key == Active(w).key
<1>11. /\ Active(w).epoch = 1 /\ Active(w).rseq = 0 /\ key \in Keys
       /\ key[1] = c.hs.random /\ key[2] = c.hs.server
       /\ w.slot[3 - w.active].epoch = 0 /\ w.slot[3 - w.active].key = NoKey
  <2>1. /\ s.slot[3 - c.active] = p.slot[3 - c.active]
        /\ s.slot[c.active].epoch = 0 /\ s.slot[c.active].key = NoKey
    BY <1>7, <1>8, <1>9 DEF Wrote, Active
  <2>2. 3 - w.active = c.active
    BY <1>1, <1>10
  <2> QED
    BY <1>5, <1>6, <1>7, <1>8, <1>10, <2>1, <2>2 DEF Active
<1>12. Cookies => w.hs.log = Transcript(key[1], key[2])
  BY <1>2, <1>5, <1>6, <1>8, <1>9, <1>10, <1>11 DEF Done, Transcript
<1>13. /\ w.hs.random = c.hs.random /\ w.hs.server = c.hs.server
       /\ w.hs.sent = c.hs.sent + 1 /\ w.hs.rcvd = c.hs.rcvd
       /\ w.hs.log \in Logs
  BY <1>5, <1>6, <1>8, <1>9, <1>10 DEF Clients, Handshakes
<1> HIDE DEF key
<1>14. /\ Wrote(w, f)
       /\ f.hs.random = w.hs.random /\ f.hs.server = w.hs.server
       /\ f.hs.rcvd = w.hs.rcvd
  <2> DEFINE hash == w.hs.log
  <2>1. w.hs.sent <= 3
    BY <1>1, <1>2, <1>13 DEF Handshakes
  <2>2. Cookies /\ "Finished" = "Finished" =>
          hash = Transcript(Active(w).key[1], Active(w).key[2])
    BY <1>12 DEF key
  <2>3. w \in Clients /\ "Finished" \in Whats /\ 0 \in Nat /\ hash \in Logs
    BY <1>1, <1>10, <1>13
  <2>4. f = SendMsg(w, "Finished", 0, hash)
    BY <1>4
  <2> HIDE DEF hash
  <2> QED
    <3>1. WroteMsg(w, f, "Finished", 0)
      BY <2>1, <2>2, <2>3, <2>4, SendMsgIs, SMTT(30)
    <3> QED
      BY <3>1 DEF WroteMsg
<1>15. /\ e \in Clients /\ e.state = "WAIT_CHANGECIPHERSPEC"
       /\ e.active = f.active /\ e.slot = f.slot /\ e.out = f.out
       /\ e.hs = f.hs
  BY <1>1, <1>4, <1>14, EnterIs DEF Wrote
<1>16. /\ d \in Clients /\ d.state = e.state /\ d.active = e.active
       /\ d.slot = e.slot /\ d.out = e.out
       /\ d.hs = [e.hs EXCEPT !.rcvd = @ + 1] /\ d.hs \in Handshakes
  <2>1. e.hs.rcvd <= 3
    BY <1>13, <1>14, <1>15, FirstSeqIs
  <2> QED
    BY <1>3, <1>15, <2>1, CountedIs
<1>17. /\ d.hs.random = c.hs.random /\ d.hs.server = c.hs.server
       /\ d.hs.rcvd = FirstSeq + 3
  <2>1. /\ e.hs \in Handshakes /\ e.hs.random = c.hs.random
        /\ e.hs.server = c.hs.server /\ e.hs.rcvd = FirstSeq + 2
    BY <1>13, <1>14, <1>15 DEF Clients
  <2> QED
    BY <1>16, <2>1, FirstSeqIs DEF Handshakes
<1>18. HsOK(d.hs, random) /\ LogOK(d.hs)
  BY <1>2, <1>17, FirstSeqIs DEF HsOK, LogOK
<1>19. Seals(d.out) = Seals(c.out) \union Sealing(w)
  <2>1. Seals(k.out) = Seals(c.out)
    <3>1. Sealing(h) = {}
      BY <1>5, <1>7 DEF Sealing, Active
    <3> QED
      BY <1>5, <1>6, <3>1 DEF Wrote
  <2>2. Seals(s.out) = Seals(k.out)
    <3>1. Sealing(p) = {}
      BY <1>7, <1>8 DEF Sealing
    <3> QED
      BY <1>8, <1>9, <3>1 DEF Wrote
  <2> QED
    BY <1>10, <1>14, <1>15, <1>16, <2>1, <2>2 DEF Wrote
<1>20. ASSUME NEW u \in (used \union Seals(c.out)) \union Sealing(w)
       PROVE  /\ u \in Keys \X Nat /\ u[1][1] <= c.hs.random
              /\ u[1] = key => u[2] < 1
  <2>1. CASE u \in used \union Seals(c.out)
    <3>1. c.hs.rcvd <= FirstSeq + 2
      BY FirstSeqIs
    <3>2. /\ u \in Keys \X Nat /\ u[1][1] <= c.hs.random
          /\ u[1][1] # c.hs.random
      BY <2>1, <3>1 DEF ClientOK, KeysOK
    <3>3. u[1] # key
      BY <1>11, <3>2
    <3> QED
      BY <3>2, <3>3
  <2>2. CASE u \in Sealing(w)
    <3>1. u = <<key, 0>>
      BY <1>11, <2>2 DEF Sealing, key
    <3>2. u[1] = key /\ u[2] = 0 /\ u \in Keys \X Nat
      BY <1>11, <3>1
    <3> QED
      BY <1>1, <1>11, <3>2 DEF Handshakes
  <2> QED
    BY <2>1, <2>2
<1>21. /\ Active(d).epoch = 1 /\ Active(d).key = key /\ Active(d).rseq = 1
       /\ d.slot[3 - d.active].epoch = 0 /\ d.slot[3 - d.active].key = NoKey
  BY <1>10, <1>11, <1>14, <1>15, <1>16 DEF Wrote, Active, key
<1>22. used \union Seals(d.out) = (used \union Seals(c.out)) \union Sealing(w)
  BY <1>19, Zenon
<1> DEFINE after == (used \union Seals(c.out)) \union Sealing(w)
<1>23. KeysOK(d, after)
  <2>1. \A u \in after : /\ u \in Keys \X Nat /\ u[1][1] <= c.hs.random
                         /\ u[1] = key => u[2] < 1
    BY <1>20
  <2>2. ~(d.hs.rcvd <= FirstSeq + 2) /\ key[1] <= c.hs.random
    BY <1>1, <1>11, <1>17, FirstSeqIs DEF Handshakes
  <2> HIDE DEF after
  <2> QED
    BY <1>17, <1>21, <2>1, <2>2 DEF KeysOK
<1> QED
  BY <1>15, <1>16, <1>18, <1>22, <1>23 DEF ClientOK

(***************************************************************************)
(* What the client makes of a record                                       *)
(***************************************************************************)

\* From c to d the client is connected with agreed keys only, and goes on
\* with a handshake, ends it, or gives up.
Moved(c, d) ==
    /\ d.state = "CONNECTED" => Active(d).key \in agreed
    /\ c.state \in {"INIT", "CLIENTHELLO", "CLOSING", "CLOSED"} =>
         d.state \in {"INIT", "CLIENTHELLO", "CLOSING", "CLOSED",
                      "WAIT_SERVERHELLODONE"}
    /\ Abstract(d) # Abstract(c) =>
         \/ Abstract(d) = "down"
         \/ Abstract(c) = "handshake" /\ Abstract(d) = "connected"

\* A record of the epoch in use is under the keys in use.
LEMMA EpochIsKey ==
    ASSUME NEW c \in Clients, NEW used, KeysOK(c, used), NEW r \in Answers,
           Decrypts(c, r), r.epoch = Active(c).epoch
    PROVE  r.key = Active(c).key
<1>1. c.active \in 1..2 /\ c.slot \in [1..2 -> Slots]
  BY DEF Clients
<1>2. PICK i \in 1..2 : c.slot[i].epoch = r.epoch /\ c.slot[i].key = r.key
  BY DEF Decrypts
<1>3. i = c.active \/ i = 3 - c.active
  BY <1>1
<1>4. /\ c.slot[3 - c.active].epoch = 0 /\ c.slot[3 - c.active].key = NoKey
      /\ Active(c).epoch = 0 => Active(c).key = NoKey
  BY DEF KeysOK
<1>5. CASE i = c.active
  BY <1>2, <1>5 DEF Active
<1>6. CASE i = 3 - c.active
  BY <1>2, <1>4, <1>6
<1> QED
  BY <1>3, <1>5, <1>6

LEMMA HandleMsgOK ==
    ASSUME NEW random, NEW used, NEW c, ClientOK(c, random, used),
           NEW r \in Answers, Decrypts(c, r), r.type = "handshake",
           r.epoch = Active(c).epoch, r.mseq = c.hs.rcvd,
           NEW d, d = HandleMsg(c, r)
    PROVE  ClientOK(d, random, used) /\ Moved(c, d)
<1>1. /\ c \in Clients /\ c.hs \in Handshakes /\ r.what \in Answered
      /\ r.key = Active(c).key
  BY EpochIsKey DEF ClientOK, Answers, Clients
<1>2. CASE r.what = "HelloVerify" /\ c.state = "CLIENTHELLO"
  <2>1. d = Counted(CookieHello(c))
    BY <1>2 DEF HandleMsg
  <2>2. Cookies /\ c.hs.rcvd = 0
    BY <1>2 DEF Answers
  <2>3. ClientOK(d, random, used) /\ d.state = c.state
    BY <2>1, <2>2, VerifyOK
  <2> QED
    BY <1>2, <2>3 DEF Moved, Abstract, HandshakeStates
<1>3. CASE r.what = "ServerHello" /\ c.state = "CLIENTHELLO"
  <2>1. d = Counted(ServerHello(c, r))
    BY <1>3 DEF HandleMsg
  <2>2. c.hs.rcvd = FirstSeq
    BY <1>3 DEF Answers
  <2>3. ClientOK(d, random, used) /\ d.state = "WAIT_SERVERHELLODONE"
    BY <1>3, <2>1, <2>2, HelloOK
  <2> QED
    BY <1>3, <2>3 DEF Moved, Abstract, HandshakeStates
<1>4. CASE r.what = "ServerKey" /\ c.hs.server = 0
  <2>1. c.hs.rcvd = FirstSeq + 1
    BY <1>4 DEF Answers
  <2>2. c.hs.rcvd <= FirstSeq
    BY <1>4 DEF ClientOK, HsOK
  <2> QED
    BY <2>1, <2>2, FirstSeqIs
<1>5. CASE /\ r.what = "ServerKey" /\ c.hs.server # 0
           /\ c.state = "WAIT_SERVERHELLODONE"
  <2>1. d = Counted(ServerKeyExchange(c, r))
    BY <1>5 DEF HandleMsg
  <2>2. c.hs.rcvd = FirstSeq + 1
    BY <1>5 DEF Answers
  <2>3. ClientOK(d, random, used) /\ d.state = c.state
    BY <1>5, <2>1, <2>2, KeyOK
  <2> QED
    BY <1>5, <2>3 DEF Moved, Abstract, HandshakeStates
<1>6. CASE r.what = "HelloDone" /\ c.state = "WAIT_SERVERHELLODONE"
  <2>1. d = Counted(HelloDone(c, r))
    BY <1>6 DEF HandleMsg
  <2>2. c.hs.rcvd = FirstSeq + 2 /\ Active(c).epoch = 0
    BY <1>6 DEF Answers
  <2>3. ClientOK(d, random, used) /\ d.state = "WAIT_CHANGECIPHERSPEC"
    BY <1>6, <2>1, <2>2, DoneOK
  <2> QED
    BY <1>6, <2>3 DEF Moved, Abstract, HandshakeStates
<1>7. CASE /\ r.what = "Finished" /\ c.state = "WAIT_FINISHED"
           /\ FinishedMatches(c, r)
  <2>1. d = Enter(c, "CONNECTED") /\ "CONNECTED" \in States
    BY <1>7 DEF HandleMsg, States
  <2>2. r.key \in agreed
    BY <1>7 DEF Answers
  <2>3. /\ ClientOK(d, random, used) /\ d.state = "CONNECTED"
        /\ Active(d) = Active(c)
    BY <2>1, EnterOK
  <2> QED
    BY <1>1, <1>7, <2>2, <2>3 DEF Moved, Abstract, HandshakeStates
<1>8. CASE d = Fatal(c)
  <2>1. ClientOK(d, random, used) /\ d.state = "CLOSING"
    BY <1>8, CloseOK
  <2> QED
    BY <2>1 DEF Moved, Abstract, HandshakeStates
<1> QED
  BY <1>2, <1>3, <1>4, <1>5, <1>6, <1>7, <1>8 DEF HandleMsg

\* A message that comes too early changes no more than the set of those.
Early(c, mseq) == [c EXCEPT !.hs.early = @ \union {mseq}]

LEMMA EarlyOK ==
    ASSUME NEW random, NEW used, NEW c, ClientOK(c, random, used),
           NEW mseq \in Nat, NEW d, d = Early(c, mseq)
    PROVE  /\ ClientOK(d, random, used)
           /\ d.state = c.state /\ Active(d) = Active(c)
<1> DEFINE early == c.hs.early \union {mseq}
           hs == [c.hs EXCEPT !.early = early]
<1>1. c \in Clients /\ c.hs \in Handshakes /\ early \in SUBSET Nat
  BY DEF ClientOK, Clients, Handshakes
<1>2. d = [c EXCEPT !.hs = hs]
  BY DEF Early
<1> HIDE DEF early
<1>3. /\ hs \in Handshakes /\ hs.random = c.hs.random
      /\ hs.server = c.hs.server /\ hs.sent = c.hs.sent
      /\ hs.rcvd = c.hs.rcvd /\ hs.log = c.hs.log
  BY <1>1 DEF Handshakes
<1> HIDE DEF hs
<1>4. /\ d \in Clients /\ d.state = c.state /\ d.active = c.active
      /\ d.slot = c.slot /\ d.out = c.out /\ d.hs = hs
  BY <1>1, <1>2, <1>3, HsIs
<1>5. HsOK(d.hs, random) /\ LogOK(d.hs)
  BY <1>3, <1>4 DEF ClientOK, HsOK, LogOK
<1> DEFINE all == used \union Seals(c.out)
<1>6. KeysOK(c, all) /\ used \union Seals(d.out) = all
  BY <1>4 DEF ClientOK
<1>7. d.hs.rcvd >= c.hs.rcvd
  BY <1>1, <1>3, <1>4 DEF Handshakes
<1> HIDE DEF all
<1>8. KeysOK(d, all)
  BY <1>1, <1>3, <1>4, <1>6, <1>7, KeysKept
<1> QED
  BY <1>4, <1>5, <1>6, <1>8 DEF ClientOK, Active

LEMMA HandleHandshakeOK ==
    ASSUME NEW random, NEW used, NEW c, ClientOK(c, random, used),
           NEW r \in Answers, Decrypts(c, r), r.type = "handshake",
           c.state = "CONNECTED" => Active(c).key \in agreed,
           NEW d, d = HandleHandshake(c, r)
    PROVE  ClientOK(d, random, used) /\ Moved(c, d)
<1>1. CASE d = c
  BY <1>1 DEF Moved
<1>2. CASE d = Early(c, r.mseq)
  <2>1. r.mseq \in Nat
    BY DEF Answers, Records
  <2>2. ClientOK(d, random, used) /\ d.state = c.state /\ Active(d) = Active(c)
    BY <1>2, <2>1, EarlyOK
  <2> QED
    BY <2>2 DEF Moved, Abstract
<1>3. CASE /\ r.epoch = Active(c).epoch /\ r.mseq = c.hs.rcvd
           /\ d = HandleMsg(c, r)
  BY <1>3, HandleMsgOK
<1>4. r.mseq \in Nat /\ c.hs.rcvd \in Nat
  BY DEF Answers, Records, ClientOK, Clients, Handshakes
<1> QED
  BY <1>1, <1>2, <1>3, <1>4 DEF HandleHandshake, Early

LEMMA HandleAlertOK ==
    ASSUME NEW random, NEW used, NEW c, ClientOK(c, random, used),
           NEW r, NEW d, d = HandleAlert(c, r)
    PROVE  ClientOK(d, random, used) /\ d.state \in {"CLOSING", "CLOSED"}
<1>1. CASE d = Close(c)
  BY <1>1, CloseOK
<1>2. CASE d = Enter(c, "CLOSED")
  BY <1>2, EnterOK DEF States
<1>3. CASE d = c /\ c.state \in {"CLOSED", "CLOSING"}
  BY <1>3
<1> QED
  BY <1>1, <1>2, <1>3 DEF HandleAlert

\* dtls_handle_message, whatever the record.
LEMMA HandleRecordOK ==
    ASSUME NEW random, NEW used, NEW c, ClientOK(c, random, used),
           NEW r \in Answers,
           c.state = "CONNECTED" => Active(c).key \in agreed,
           NEW d, d = HandleRecord(c, r)
    PROVE  /\ ClientOK(d, random, used) /\ Moved(c, d)
           /\ Decrypts(c, r) /\ r.type = "alert" =>
                d.state \in {"CLOSING", "CLOSED"}
<1>1. CASE d = c /\ (Decrypts(c, r) => r.type # "alert")
  BY <1>1 DEF Moved
<1>2. CASE ~Decrypts(c, r) /\ d = Enter(Fatal(c), "CLOSED")
  <2> DEFINE e == Fatal(c)
  <2>1. ClientOK(e, random, used)
    BY CloseOK
  <2>2. d = Enter(e, "CLOSED") /\ "CLOSED" \in States
    BY <1>2 DEF States
  <2> HIDE DEF e
  <2>3. ClientOK(d, random, used) /\ d.state = "CLOSED"
    BY <2>1, <2>2, EnterOK
  <2> QED
    BY <1>2, <2>3 DEF Moved, Abstract, HandshakeStates
<1>3. CASE Decrypts(c, r) /\ r.type = "ccs"
  <2>1. d = HandleCcs(c)
    BY <1>3 DEF HandleRecord
  <2>2. CASE c.state = "WAIT_CHANGECIPHERSPEC"
    <3>1. d = Enter(c, "WAIT_FINISHED") /\ "WAIT_FINISHED" \in States
      BY <2>1, <2>2 DEF HandleCcs, States, HandshakeStates
    <3>2. ClientOK(d, random, used) /\ d.state = "WAIT_FINISHED"
      BY <3>1, EnterOK
    <3> QED
      BY <1>3, <2>2, <3>2 DEF Moved, Abstract, HandshakeStates
  <2>3. CASE c.state # "WAIT_CHANGECIPHERSPEC"
    BY <1>1, <1>3, <2>1, <2>3 DEF HandleCcs
  <2> QED
    BY <2>2, <2>3
<1>4. CASE Decrypts(c, r) /\ r.type = "alert"
  <2>1. d = HandleAlert(c, r)
    BY <1>4 DEF HandleRecord
  <2>2. ClientOK(d, random, used) /\ d.state \in {"CLOSING", "CLOSED"}
    BY <2>1, HandleAlertOK
  <2> QED
    BY <2>2 DEF Moved, Abstract, HandshakeStates
<1>5. CASE Decrypts(c, r) /\ r.type = "handshake"
  <2>1. d = HandleHandshake(c, r)
    BY <1>5 DEF HandleRecord
  <2> QED
    BY <1>5, <2>1, HandleHandshakeOK
<1>6. CASE Decrypts(c, r) /\ r.type = "data"
  <2>1. d = c
    BY <1>6 DEF HandleRecord
  <2> QED
    BY <1>1, <1>6, <2>1
<1>7. r.type \in Types /\ Decrypts(c, r) \in BOOLEAN
  BY DEF Answers, Records, Decrypts
<1>8. CASE ~Decrypts(c, r)
  <2>1. d = IF c.state \in HandshakeStates \union {"INIT"}
            THEN Enter(Fatal(c), "CLOSED") ELSE c
    BY <1>8 DEF HandleRecord
  <2> QED
    BY <1>1, <1>2, <1>8, <2>1
<1> QED
  BY <1>3, <1>4, <1>5, <1>6, <1>7, <1>8 DEF Types

(***************************************************************************)
(* What a step leaves on its way                                           *)
(***************************************************************************)
LEMMA SealsNone == Seals(<<>>) = {} /\ <<>> \in Seq(Requests)
BY DEF Seals, ToSet

\* The client keeps nothing of what it has written.
LEMMA FlushedOK ==
    ASSUME NEW random, NEW used, NEW c, ClientOK(c, random, used),
           NEW new, new \subseteq used \union Seals(c.out),
           NEW d, d = [c EXCEPT !.out = <<>>]
    PROVE  /\ ClientOK(d, random, new) /\ d.out = <<>>
           /\ d.state = c.state /\ Active(d) = Active(c)
<1>1. c \in Clients
  BY DEF ClientOK
<1>2. /\ d \in Clients /\ d.state = c.state /\ d.active = c.active
      /\ d.slot = c.slot /\ d.out = <<>> /\ d.hs = c.hs
  BY <1>1, SealsNone DEF Clients
<1>3. d.hs.random = c.hs.random /\ d.hs.rcvd >= c.hs.rcvd
  BY <1>1, <1>2 DEF Clients, Handshakes
<1> DEFINE all == used \union Seals(c.out)
<1>4. KeysOK(c, all) /\ new \subseteq all
  BY DEF ClientOK
<1> HIDE DEF all
<1>5. KeysOK(d, new)
  BY <1>1, <1>2, <1>3, <1>4, KeysKept
<1>6. new \union Seals(d.out) = new
  BY <1>2, SealsNone
<1> QED
  BY <1>2, <1>5, <1>6 DEF ClientOK, Active

LEMMA WrittenOK ==
    ASSUME NEW random, NEW c, ClientOK(c, random, sealed), AirInv, Written(c)
    PROVE  /\ ClientOK(client', random, sealed') /\ client'.out = <<>>
           /\ client'.state = c.state /\ Active(client') = Active(c)
           /\ toServer' \in Seq(Requests) /\ Len(toServer') <= MaxAir
<1>1. /\ client' = [c EXCEPT !.out = <<>>]
      /\ sealed' = sealed \union Seals(c.out)
  BY DEF Written, Seals
<1> DEFINE d == client'
           new == sealed'
<1>2. d = [c EXCEPT !.out = <<>>] /\ new \subseteq sealed \union Seals(c.out)
  BY <1>1
<1> HIDE DEF d, new
<1>3. /\ ClientOK(d, random, new) /\ d.out = <<>>
      /\ d.state = c.state /\ Active(d) = Active(c)
  BY <1>2, FlushedOK
<1>4. c.out \in Seq(Requests) /\ toServer \in Seq(Requests)
  BY DEF ClientOK, Clients, AirInv
<1>5. toServer' = toServer \o c.out /\ Len(toServer) + Len(c.out) <= MaxAir
  BY DEF Written
<1>6. toServer' \in Seq(Requests) /\ Len(toServer') <= MaxAir
  BY <1>4, <1>5, ConcatProperties
<1> QED
  BY <1>3, <1>6 DEF d, new

LEMMA DisconnectedOK ==
    ASSUME NEW random, NEW c, ClientOK(c, random, sealed), up \in BOOLEAN,
           Disconnected(c)
    PROVE  /\ ClientOK(client', random, sealed) /\ client'.out = <<>>
           /\ client'.state = IF up THEN "CLOSING" ELSE c.state
           /\ ~up => Active(client') = Active(c)
<1> DEFINE e == IF up THEN Close(c) ELSE c
           d == client'
<1>1. /\ ClientOK(e, random, sealed)
      /\ e.state = IF up THEN "CLOSING" ELSE c.state
      /\ ~up => e = c
  BY CloseOK
<1>2. d = [e EXCEPT !.out = <<>>]
  BY DEF Disconnected
<1> HIDE DEF d, e
<1>3. sealed \subseteq sealed \union Seals(e.out)
  OBVIOUS
<1>4. /\ ClientOK(d, random, sealed) /\ d.out = <<>>
      /\ d.state = e.state /\ Active(d) = Active(e)
  BY <1>1, <1>2, <1>3, FlushedOK
<1> QED
  BY <1>1, <1>4 DEF d

\* dtls_connect begins a handshake of its own, under the keys in use.
LEMMA ConnectOK ==
    ASSUME IInv, connects < MaxConnects, NEW d, d = Connect
    PROVE  ClientOK(d, connects + 1, sealed) /\ d.state = "CLIENTHELLO"
<1> DEFINE n == connects + 1
           b == [client EXCEPT !.hs = NewHandshake(n)]
           e == SendMsg(b, "ClientHello", b.hs.random, <<>>)
           hs == [e.hs EXCEPT !.log = <<>>]
           f == [e EXCEPT !.hs = hs]
           new == NewHandshake(n)
           none == <<>>
<1>1. /\ client \in Clients /\ n \in Nat /\ connects \in Nat
      /\ "CLIENTHELLO" \in States /\ "ClientHello" \in Whats /\ none \in Logs
      /\ KeysOK(client, sealed) /\ client.out = <<>>
      /\ HsOK(client.hs, connects) /\ client.hs \in Handshakes
  <2>1. ClientOK(client, connects, sealed) /\ client.out = <<>>
    BY DEF IInv, ClientInv
  <2>2. connects \in Nat /\ n \in Nat
    BY DtlsAssumption DEF IInv, TaskInv
  <2>3. /\ "CLIENTHELLO" \in States /\ "ClientHello" \in Whats
        /\ none \in Logs
    BY DEF States, HandshakeStates, Whats, Logs
  <2>4. KeysOK(client, sealed)
    <3>1. sealed \union Seals(client.out) = sealed
      BY <2>1, SealsNone
    <3> QED
      BY <2>1, <3>1 DEF ClientOK
  <2> QED
    BY <2>1, <2>2, <2>3, <2>4 DEF ClientOK, Clients
<1>2. /\ new \in Handshakes /\ new.random = n /\ new.server = 0
      /\ new.sent = 0 /\ new.rcvd = 0 /\ new.log = none
  <2>1. 0 \in 0..4 /\ {} \in SUBSET Nat /\ 0 \in Nat
    OBVIOUS
  <2> QED
    BY <1>1, <2>1 DEF NewHandshake, Handshakes
<1>3. d = Enter(f, "CLIENTHELLO")
  BY DEF Connect, ClientHello
<1>4. b = [client EXCEPT !.hs = new]
  OBVIOUS
<1>5. e = SendMsg(b, "ClientHello", b.hs.random, none)
  OBVIOUS
<1> HIDE DEF b, e, new, none
<1>6. /\ b \in Clients /\ b.state = client.state /\ b.active = client.active
      /\ b.slot = client.slot /\ b.out = client.out /\ b.hs = new
  BY <1>1, <1>2, <1>4, HsIs
<1>7. /\ Wrote(b, e)
      /\ e.hs.random = b.hs.random /\ e.hs.server = b.hs.server
      /\ e.hs.rcvd = b.hs.rcvd /\ e.hs.sent = b.hs.sent + 1
      /\ e.hs.log = Append(b.hs.log, Entry("ClientHello", b.hs.random))
  <2> DEFINE random == b.hs.random
  <2>1. b.hs.sent <= 3 /\ random \in Nat
    BY <1>1, <1>2, <1>6
  <2>2. Cookies /\ "ClientHello" = "Finished" =>
          none = Transcript(Active(b).key[1], Active(b).key[2])
    OBVIOUS
  <2>3. b \in Clients /\ "ClientHello" \in Whats /\ none \in Logs
    BY <1>1, <1>6
  <2>4. e = SendMsg(b, "ClientHello", random, none)
    BY <1>5
  <2> HIDE DEF random
  <2>5. WroteMsg(b, e, "ClientHello", random)
    BY <2>1, <2>2, <2>3, <2>4, SendMsgIs, SMTT(30)
  <2> QED
    BY <2>5 DEF random, WroteMsg
<1>8. /\ hs \in Handshakes /\ hs.random = n /\ hs.server = 0
      /\ hs.sent = 1 /\ hs.rcvd = 0
  <2>1. e.hs \in Handshakes
    BY <1>7 DEF Wrote, Clients
  <2> QED
    BY <1>1, <1>2, <1>6, <1>7, <2>1 DEF Handshakes, none
<1> HIDE DEF hs
<1>9. /\ f \in Clients /\ f.state = e.state /\ f.active = e.active
      /\ f.slot = e.slot /\ f.out = e.out /\ f.hs = hs
  BY <1>7, <1>8, HsIs DEF Wrote
<1> HIDE DEF f
<1>10. HsOK(f.hs, n) /\ LogOK(f.hs)
  BY <1>8, <1>9, FirstSeqIs DEF HsOK, LogOK
<1>11. KeysOK(b, sealed)
  <2>1. \A k \in Nat : k <= connects => k <= n /\ k # n
    BY <1>1
  <2>2. \A u \in sealed : u[1][1] \in Nat
    BY <1>1 DEF KeysOK, Keys
  <2>3. Active(client).key[1] \in Nat
    BY <1>1 DEF Clients, Active, Slots, Keys
  <2> QED
    BY <1>1, <1>2, <1>6, <2>1, <2>2, <2>3 DEF KeysOK, HsOK, Active
<1>12. KeysOK(e, sealed \union Sealing(b))
  BY <1>6, <1>7, <1>11, KeysSent
<1>13. Seals(f.out) = Sealing(b)
  BY <1>1, <1>6, <1>7, <1>9, SealsNone DEF Wrote
<1> DEFINE all == sealed \union Sealing(b)
<1>14. KeysOK(f, all)
  <2>1. e \in Clients /\ e.hs.rcvd = 0 /\ e.hs.random = n
    BY <1>2, <1>6, <1>7 DEF Wrote
  <2>2. KeysOK(e, all) /\ all \subseteq all
    BY <1>12
  <2>3. f.hs.random = e.hs.random /\ f.hs.rcvd >= e.hs.rcvd
    BY <1>8, <1>9, <2>1
  <2> HIDE DEF all
  <2> QED
    BY <1>9, <2>1, <2>2, <2>3, KeysKept
<1>15. ClientOK(f, n, sealed)
  BY <1>9, <1>10, <1>13, <1>14 DEF ClientOK
<1> QED
  BY <1>1, <1>3, <1>15, EnterOK

(***************************************************************************)
(* The steps of the task                                                   *)
(***************************************************************************)
LEMMA SameClient ==
    ASSUME ClientInv, UNCHANGED <<client, connects, sealed, agreed>>
    PROVE  ClientInv'
BY DEF ClientInv, Agreement, Active

LEMMA SameAnswers == ASSUME UNCHANGED agreed PROVE Answers' = Answers
BY DEF Answers

LEMMA SameAir ==
    ASSUME AirInv, UNCHANGED <<toServer, toClient, agreed>> PROVE AirInv'
BY SameAnswers DEF AirInv

LEMMA SameServer ==
    ASSUME ServerInv, UNCHANGED <<server, agreed>> PROVE ServerInv'
BY DEF ServerInv

\* What the client has written leaves what is on its way to it as it is.
LEMMA WroteAir ==
    ASSUME AirInv, UNCHANGED <<toClient, agreed>>,
           toServer' \in Seq(Requests), Len(toServer') <= MaxAir
    PROVE  AirInv'
BY SameAnswers DEF AirInv

\* The types of the task's own variables.
LEMMA TaskTypes ==
    ASSUME TaskInv
    PROVE  /\ retry \in Nat /\ connects \in Nat /\ faults \in Nat
           /\ RetryLimit \in Nat /\ 1 <= RetryLimit
           /\ MaxConnects \in Nat /\ MaxFaults \in Nat /\ MaxAir \in Nat
BY DtlsAssumption DEF TaskInv

LEMMA HeadAnswer ==
    ASSUME AirInv, toClient # <<>>
    PROVE  /\ Head(toClient) \in Answers /\ Tail(toClient) \in Seq(Answers)
           /\ Len(Tail(toClient)) <= MaxAir
<1>1. /\ toClient \in Seq(Answers) /\ Len(toClient) <= MaxAir
      /\ Len(toClient) \in Nat /\ MaxAir \in Nat
  BY LenProperties, DtlsAssumption DEF AirInv
<1> QED
  BY <1>1, HeadTailProperties

\* A record is received, whatever it is; what becomes of the client and the
\* event that is raised.
LEMMA ReceiveIs ==
    ASSUME IInv, Receive
    PROVE  /\ ClientOK(client', connects, sealed') /\ client'.out = <<>>
           /\ toServer' \in Seq(Requests) /\ Len(toServer') <= MaxAir
           /\ Moved(client, client') /\ up' \in BOOLEAN
           /\ up' /\ ~up => client'.state = "CONNECTED"
           /\ \/ app' = app
              \/ app' = "INIT" /\ client'.state \in {"CLOSING", "CLOSED"}
<1> DEFINE r == Head(toClient)
           c == HandleRecord(client, r)
<1>1. r \in Answers
  BY HeadAnswer DEF IInv, Receive
<1>2. /\ ClientOK(client, connects, sealed) /\ AirInv /\ up \in BOOLEAN
      /\ client.state = "CONNECTED" => Active(client).key \in agreed
  BY DEF IInv, ClientInv, Agreement, TaskInv
<1>3. Written(c) /\ Event(c, r)
  BY DEF Receive
<1>4. c = HandleRecord(client, r)
  OBVIOUS
<1> HIDE DEF r, c
<1>5. /\ ClientOK(c, connects, sealed) /\ Moved(client, c)
      /\ Decrypts(client, r) /\ r.type = "alert" =>
           c.state \in {"CLOSING", "CLOSED"}
  BY <1>1, <1>2, <1>4, HandleRecordOK
<1>6. /\ ClientOK(client', connects, sealed') /\ client'.out = <<>>
      /\ client'.state = c.state /\ Active(client') = Active(c)
      /\ toServer' \in Seq(Requests) /\ Len(toServer') <= MaxAir
  BY <1>2, <1>3, <1>5, WrittenOK
<1>7. Moved(client, client')
  BY <1>5, <1>6 DEF Moved, Abstract
<1>8. /\ up' \in BOOLEAN
      /\ up' /\ ~up => c.state = "CONNECTED"
      /\ \/ app' = app
         \/ app' = "INIT" /\ c.state \in {"CLOSING", "CLOSED"}
  BY <1>2, <1>3, <1>5 DEF Event
<1>9. up' /\ ~up => client'.state = "CONNECTED"
  BY <1>6, <1>8
<1>10. \/ app' = app
       \/ app' = "INIT" /\ client'.state \in {"CLOSING", "CLOSED"}
  BY <1>6, <1>8
<1> QED
  BY <1>6, <1>7, <1>8, <1>9, <1>10

LEMMA ReceiveOK == ASSUME IInv, Receive PROVE IInv'
<1>1. /\ ClientOK(client', connects, sealed') /\ client'.out = <<>>
      /\ toServer' \in Seq(Requests) /\ Len(toServer') <= MaxAir
      /\ Moved(client, client') /\ up' \in BOOLEAN
      /\ \/ app' = app
         \/ app' = "INIT" /\ client'.state \in {"CLOSING", "CLOSED"}
  BY ReceiveIs
<1>2. /\ at = "udp" /\ at' = "dtls" /\ toClient' = Tail(toClient)
      /\ UNCHANGED <<retry, okBefore, server, connects, faults, agreed>>
  BY DEF Receive
<1>3. ClientInv'
  BY <1>1, <1>2 DEF ClientInv, Agreement, Moved
<1>4. AirInv'
  <2>1. Tail(toClient) \in Seq(Answers) /\ Len(Tail(toClient)) <= MaxAir
    BY HeadAnswer DEF IInv, Receive
  <2> QED
    BY <1>1, <1>2, <2>1, SameAnswers DEF AirInv
<1>5. ServerInv'
  BY <1>2, SameServer DEF IInv
<1>6. TaskInv'
  <2>1. app' = "INIT" => client'.state \in
          {"INIT", "CLIENTHELLO", "CLOSING", "CLOSED", "WAIT_SERVERHELLODONE"}
    BY <1>1, <1>2 DEF IInv, TaskInv, Moved
  <2> QED
    BY <1>1, <1>2, <2>1 DEF IInv, TaskInv, AppStates
<1> QED
  BY <1>3, <1>4, <1>5, <1>6 DEF IInv

LEMMA AppInitOK == ASSUME IInv, AppInit PROVE IInv'
<1> DEFINE s == Params(0, NoKey)
           d == client'
<1>1. /\ client' = [client EXCEPT !.slot = <<s, s>>, !.active = 1]
      /\ at = "dtls" /\ app = "INIT" /\ retry' = 0 /\ up' = FALSE
      /\ app' = "CONNECT" /\ at' = "udp"
      /\ UNCHANGED <<okBefore, toServer, toClient, server, connects, faults,
                     agreed, sealed>>
  BY DEF AppInit, CycleEnds
<1>2. ClientOK(client, connects, sealed) /\ client.out = <<>>
  BY DEF IInv, ClientInv
<1>3. s \in Slots /\ s.epoch = 0 /\ s.key = NoKey
  BY DEF Params, Slots, NoKey, Keys
<1> HIDE DEF s
<1>4. /\ d \in Clients /\ d.state = client.state /\ d.active = 1
      /\ d.slot[1] = s /\ d.slot[2] = s
      /\ d.out = <<>> /\ d.hs = client.hs
  <2> DEFINE slot == <<s, s>>
  <2>1. slot \in [1..2 -> Slots] /\ slot[1] = s /\ slot[2] = s
    BY <1>3
  <2>2. d = [client EXCEPT !.slot = slot, !.active = 1]
    BY <1>1
  <2> HIDE DEF slot, d
  <2>3. client \in Clients /\ client.out = <<>>
    BY <1>2 DEF ClientOK
  <2>4. /\ d.state = client.state /\ d.active = 1 /\ d.slot = slot
        /\ d.out = client.out /\ d.hs = client.hs
    BY <2>2, <2>3 DEF Clients
  <2>5. d \in Clients
    <3> DEFINE one == 1
    <3>1. one \in 1..2 /\ d = [client EXCEPT !.slot = slot, !.active = one]
      BY <2>2
    <3> HIDE DEF one
    <3> QED
      BY <2>1, <2>3, <3>1 DEF Clients
  <2> QED
    BY <2>1, <2>3, <2>4, <2>5
<1>5. KeysOK(d, sealed)
  <2>1. KeysOK(client, sealed)
    <3>1. sealed \union Seals(client.out) = sealed
      BY <1>2, SealsNone
    <3> QED
      BY <1>2, <3>1 DEF ClientOK
  <2>2. Active(d) = s /\ d.slot[3 - d.active] = s
    BY <1>4 DEF Active
  <2> HIDE DEF d
  <2> QED
    BY <1>3, <1>4, <2>1, <2>2 DEF KeysOK
<1>6. ClientInv'
  <2>1. client.state # "CONNECTED"
    BY <1>1 DEF IInv, TaskInv
  <2>2. sealed \union Seals(d.out) = sealed
    BY <1>4, SealsNone
  <2>3. ClientOK(d, connects, sealed)
    BY <1>2, <1>4, <1>5, <2>2 DEF ClientOK
  <2> QED
    BY <1>1, <1>4, <2>1, <2>3 DEF ClientInv, Agreement
<1>7. TaskInv'
  <2>1. /\ retry' \in 0..RetryLimit /\ retry' < RetryLimit
        /\ connects' \in 0..MaxConnects /\ faults' \in 0..MaxFaults
    BY <1>1, TaskTypes DEF IInv, TaskInv
  <2>2. up' \in BOOLEAN /\ okBefore' \in BOOLEAN
    BY <1>1 DEF IInv, TaskInv
  <2> QED
    BY <1>1, <2>1, <2>2 DEF TaskInv, AppStates
<1> QED
  BY <1>1, <1>6, <1>7, SameAir, SameServer DEF IInv

LEMMA AppConnectOK == ASSUME IInv, AppConnect PROVE IInv'
<1> DEFINE c == Connect
<1>1. /\ at = "dtls" /\ app = "CONNECT" /\ connects < MaxConnects
      /\ connects' = connects + 1 /\ up' = FALSE
      /\ app' = "CONNECTING" /\ at' = "udp" /\ Written(c)
      /\ UNCHANGED <<retry, okBefore, toClient, server, faults, agreed>>
  BY DEF AppConnect, CycleEnds
<1>2. c = Connect
  OBVIOUS
<1> HIDE DEF c
<1>3. ClientOK(c, connects', sealed) /\ c.state = "CLIENTHELLO"
  BY <1>1, <1>2, ConnectOK
<1>4. /\ ClientOK(client', connects', sealed') /\ client'.out = <<>>
      /\ client'.state = c.state
      /\ toServer' \in Seq(Requests) /\ Len(toServer') <= MaxAir
  BY <1>1, <1>3, WrittenOK DEF IInv
<1>5. ClientInv'
  BY <1>3, <1>4 DEF ClientInv, Agreement
<1>6. AirInv' /\ ServerInv'
  BY <1>1, <1>4, WroteAir, SameServer DEF IInv
<1>7. TaskInv'
  <2>1. /\ retry' \in 0..RetryLimit /\ retry' < RetryLimit
        /\ connects' \in 0..MaxConnects /\ faults' \in 0..MaxFaults
    BY <1>1, TaskTypes DEF IInv, TaskInv
  <2>2. up' \in BOOLEAN /\ okBefore' \in BOOLEAN
    BY <1>1 DEF IInv, TaskInv
  <2> QED
    BY <1>1, <2>1, <2>2 DEF TaskInv, AppStates
<1> QED
  BY <1>5, <1>6, <1>7 DEF IInv

LEMMA AppConnectFailsOK == ASSUME IInv, AppConnectFails PROVE IInv'
<1> DEFINE c == Connect
<1>1. /\ at = "dtls" /\ app = "CONNECT" /\ connects < MaxConnects
      /\ connects' = connects + 1 /\ up' = FALSE
      /\ faults < MaxFaults /\ faults' = faults + 1
      /\ app' = "INIT" /\ at' = "udp" /\ Disconnected(c)
      /\ UNCHANGED <<retry, okBefore, toServer, toClient, server, agreed, sealed>>
  BY DEF AppConnectFails, CycleEnds, Disconnected, Fault
<1>2. c = Connect
  OBVIOUS
<1> HIDE DEF c
<1>3. ClientOK(c, connects', sealed) /\ c.state = "CLIENTHELLO"
  BY <1>1, <1>2, ConnectOK
<1>4. /\ ClientOK(client', connects', sealed) /\ client'.out = <<>>
      /\ client'.state \in {"CLOSING", "CLIENTHELLO"}
  BY <1>1, <1>3, DisconnectedOK DEF IInv, TaskInv
<1>5. ClientInv'
  BY <1>1, <1>4 DEF ClientInv, Agreement
<1>6. AirInv' /\ ServerInv'
  BY <1>1, SameAir, SameServer DEF IInv
<1>7. TaskInv'
  <2>1. /\ retry' \in 0..RetryLimit
        /\ connects' \in 0..MaxConnects /\ faults' \in 0..MaxFaults
    BY <1>1, TaskTypes DEF IInv, TaskInv
  <2>2. up' \in BOOLEAN /\ okBefore' \in BOOLEAN
    BY <1>1 DEF IInv, TaskInv
  <2> QED
    BY <1>1, <1>4, <2>1, <2>2 DEF TaskInv, AppStates
<1> QED
  BY <1>5, <1>6, <1>7 DEF IInv

\* The steps that leave the client and the network alone.
LEMMA AppStepsOK ==
    ASSUME IInv,
           \/ NothingReceived \/ AppWaits \/ AppConnected \/ AppTimeout
           \/ AppTimeoutEarly \/ AppIdles
    PROVE  IInv'
<1>1. UNCHANGED <<client, toServer, toClient, server, connects, agreed, sealed>>
  BY DEF NothingReceived, AppWaits, AppConnected, AppTimeout, AppTimeoutEarly,
     TimesOut, AppIdles
<1>2. ClientInv' /\ AirInv' /\ ServerInv'
  BY <1>1, SameClient, SameAir, SameServer DEF IInv
<1>3. ASSUME NothingReceived \/ AppIdles PROVE TaskInv'
  BY <1>1, <1>3 DEF IInv, TaskInv, NothingReceived, AppIdles
<1>4. ASSUME AppWaits PROVE TaskInv'
  BY <1>1, <1>4 DEF IInv, TaskInv, AppWaits, CycleEnds
<1>5. ASSUME AppConnected PROVE TaskInv'
  BY <1>1, <1>5, TaskTypes DEF IInv, TaskInv, AppConnected, CycleEnds, AppStates
<1>6. ASSUME AppTimeout \/ AppTimeoutEarly PROVE TaskInv'
  <2>1. faults' \in 0..MaxFaults
    BY <1>6, TaskTypes DEF IInv, TaskInv, AppTimeout, AppTimeoutEarly, Fault
  <2>2. /\ app = "CONNECTING" /\ app' = "CLOSE" /\ ~up /\ at' = "udp"
        /\ UNCHANGED <<up, retry, okBefore>>
    BY <1>6 DEF AppTimeout, AppTimeoutEarly, TimesOut, CycleEnds
  <2> QED
    BY <1>1, <2>1, <2>2 DEF IInv, TaskInv, AppStates
<1> QED
  BY <1>2, <1>3, <1>4, <1>5, <1>6 DEF IInv

LEMMA AppCloseOK == ASSUME IInv, AppClose PROVE IInv'
<1> DEFINE c == Close(client)
<1>1. /\ at = "dtls" /\ app = "CLOSE" /\ Written(c)
      /\ retry' = IF okBefore THEN retry + 1 ELSE retry
      /\ app' = IF GivesUp(retry') THEN "INIT" ELSE "CONNECT"
      /\ at' = IF up' THEN "services" ELSE "udp"
      /\ UNCHANGED <<up, okBefore, toClient, server, connects, faults, agreed>>
  BY DEF AppClose, CycleEnds
<1>2. ClientOK(c, connects, sealed) /\ c.state = "CLOSING"
  BY CloseOK DEF IInv, ClientInv
<1> HIDE DEF c
<1>3. /\ ClientOK(client', connects, sealed') /\ client'.out = <<>>
      /\ client'.state = c.state
      /\ toServer' \in Seq(Requests) /\ Len(toServer') <= MaxAir
  BY <1>1, <1>2, WrittenOK DEF IInv
<1>4. ClientInv'
  BY <1>1, <1>2, <1>3 DEF ClientInv, Agreement
<1>5. AirInv' /\ ServerInv'
  BY <1>1, <1>3, WroteAir, SameServer DEF IInv
<1>6. TaskInv'
  <2>1. retry' \in 0..RetryLimit /\ (app' = "CONNECT" => retry' < RetryLimit)
    BY <1>1, TaskTypes DEF IInv, TaskInv, GivesUp
  <2> QED
    BY <1>1, <1>2, <1>3, <2>1 DEF IInv, TaskInv, AppStates
<1> QED
  BY <1>4, <1>5, <1>6 DEF IInv

LEMMA AppWritesOK == ASSUME IInv, AppWrites PROVE IInv'
<1> DEFINE c == Send(client, "data", "data", 0, 0, <<>>)
<1>1. /\ at = "services" /\ client.state = "CONNECTED" /\ Written(c)
      /\ at' = "udp"
      /\ UNCHANGED <<app, up, retry, okBefore, toClient, server, connects,
                     faults, agreed>>
  BY DEF AppWrites
<1>2. /\ ClientOK(client, connects, sealed) /\ "data" \in Types
      /\ "data" \in Whats \ {"Finished"}
      /\ Active(client).key \in agreed
  BY <1>1 DEF IInv, ClientInv, Types, Whats, Agreement
<1>3. /\ ClientOK(c, connects, sealed) /\ c.state = "CONNECTED"
      /\ Active(c).key = Active(client).key
  BY <1>1, <1>2, SendOK
<1> HIDE DEF c
<1>4. /\ ClientOK(client', connects, sealed') /\ client'.out = <<>>
      /\ client'.state = c.state /\ Active(client') = Active(c)
      /\ toServer' \in Seq(Requests) /\ Len(toServer') <= MaxAir
  BY <1>1, <1>3, WrittenOK DEF IInv
<1>5. ClientInv'
  BY <1>1, <1>2, <1>3, <1>4 DEF ClientInv, Agreement
<1>6. AirInv' /\ ServerInv'
  BY <1>1, <1>4, WroteAir, SameServer DEF IInv
<1>7. TaskInv'
  BY <1>1, <1>3, <1>4 DEF IInv, TaskInv
<1> QED
  BY <1>5, <1>6, <1>7 DEF IInv

\* connect() again, from the services: the flag is set, so it closes.
LEMMA AppReconnectsOK ==
    ASSUME IInv, AppReconnects \/ AppMissesAnswers PROVE IInv'
<1>1. /\ at = "services" /\ Disconnected(client) /\ at' = "udp"
      /\ faults' \in 0..MaxFaults
      /\ UNCHANGED <<retry, okBefore, toServer, toClient, server, connects,
                     agreed, sealed>>
  BY TaskTypes DEF IInv, TaskInv, AppReconnects, AppMissesAnswers, Fault
<1>2. up = TRUE /\ app' = "INIT" /\ up' = FALSE
  BY <1>1 DEF IInv, TaskInv, Disconnected
<1>3. /\ ClientOK(client', connects, sealed) /\ client'.out = <<>>
      /\ client'.state = "CLOSING"
  BY <1>1, <1>2, DisconnectedOK DEF IInv, ClientInv, TaskInv
<1>4. ClientInv'
  BY <1>1, <1>3 DEF ClientInv, Agreement
<1>5. AirInv' /\ ServerInv'
  BY <1>1, SameAir, SameServer DEF IInv
<1>6. TaskInv'
  BY <1>1, <1>2, <1>3 DEF IInv, TaskInv, AppStates
<1> QED
  BY <1>4, <1>5, <1>6 DEF IInv

LEMMA TaskStepOK == ASSUME IInv, Task PROVE IInv'
BY ReceiveOK, AppInitOK, AppConnectOK, AppConnectFailsOK, AppStepsOK,
   AppCloseOK, AppWritesOK, AppReconnectsOK DEF Task

(***************************************************************************)
(* The steps of the server and the network                                 *)
(***************************************************************************)
LEMMA AnswerIs ==
    ASSUME NEW key \in Keys, NEW type \in Types, NEW what \in Whats,
           NEW mseq \in Nat, NEW random \in Nat, NEW hash \in Logs,
           NEW r, r = Answer(key, type, what, mseq, random, hash)
    PROVE  /\ r \in Records
           /\ r.epoch = IF key = NoKey THEN 0 ELSE 1
           /\ r.key = key /\ r.type = type /\ r.what = what
           /\ r.mseq = mseq /\ r.random = random
BY DEF Answer, Records

LEMMA NoKeyIs == NoKey \in Keys
BY DEF NoKey, Keys

LEMMA FourAppended ==
    ASSUME NEW S, NEW w \in S, NEW x \in S, NEW y \in S, NEW z \in S
    PROVE  <<w, x, y, z>> = Append(Append(Append(<<w>>, x), y), z)
<1> DEFINE s == <<w, x, y, z>>
           t == Append(Append(Append(<<w>>, x), y), z)
<1>1. s \in Seq(S) /\ Len(s) = 4
  OBVIOUS
<1>2. t \in Seq(S) /\ Len(t) = 4
  OBVIOUS
<1>3. s[1] = t[1] /\ s[2] = t[2] /\ s[3] = t[3] /\ s[4] = t[4]
  OBVIOUS
<1>4. \A i \in 1..4 : i = 1 \/ i = 2 \/ i = 3 \/ i = 4
  OBVIOUS
<1> HIDE DEF s, t
<1>5. \A i \in 1..Len(s) : s[i] = t[i]
  BY <1>1, <1>3, <1>4
<1>6. s = t
  BY <1>1, <1>2, <1>5, SeqEqual
<1> QED
  BY <1>6 DEF s, t

\* Records that the server sends are answers, and so are those on their way.
LEMMA SendsOK ==
    ASSUME AirInv, agreed \subseteq agreed', NEW records,
           records \in Seq(Answers'), Sends(records), UNCHANGED toServer
    PROVE  AirInv'
<1>1. Answers \subseteq Answers'
  BY DEF Answers
<1>2. toClient \in Seq(Answers')
  BY <1>1 DEF AirInv
<1>3. toClient' = toClient \o records /\ Len(toClient) + Len(records) <= MaxAir
  BY DEF Sends
<1> DEFINE S == Answers'
<1>4. toClient \in Seq(S) /\ records \in Seq(S)
  BY <1>2
<1> HIDE DEF S
<1>5. toClient' \in Seq(S) /\ Len(toClient') <= MaxAir
  BY <1>3, <1>4, ConcatProperties
<1> QED
  BY <1>5 DEF AirInv, S

LEMMA FlightOK ==
    ASSUME NEW s \in Servers, s.random # 0
    PROVE  Flight(s) \in Seq(Answers)
<1> DEFINE none == <<>>
           h == Answer(NoKey, "handshake", "ServerHello", FirstSeq, s.random, none)
           k == Answer(NoKey, "handshake", "ServerKey", FirstSeq + 1, 0, none)
           d == Answer(NoKey, "handshake", "HelloDone", FirstSeq + 2, 0, none)
<1>1. /\ "handshake" \in Types /\ none \in Logs /\ 0 \in Nat
      /\ "ServerHello" \in Whats /\ "ServerKey" \in Whats
      /\ "HelloDone" \in Whats
  BY DEF Types, Whats, Answered, Logs
<1>2. /\ FirstSeq \in Nat /\ FirstSeq + 1 \in Nat /\ FirstSeq + 2 \in Nat
      /\ s.random \in Nat
  BY FirstSeqIs DEF Servers
<1>3. Flight(s) = <<h, k, d>>
  BY DEF Flight
<1> HIDE DEF none
<1>4. h \in Answers
  <2>1. /\ h \in Records /\ h.what = "ServerHello" /\ h.mseq = FirstSeq
        /\ h.random = s.random
    BY <1>1, <1>2, NoKeyIs, AnswerIs
  <2> HIDE DEF h
  <2> QED
    BY <2>1 DEF Answers, Answered
<1>5. k \in Answers
  <2>1. /\ k \in Records /\ k.what = "ServerKey" /\ k.mseq = FirstSeq + 1
        /\ k.random = 0
    BY <1>1, <1>2, NoKeyIs, AnswerIs
  <2> HIDE DEF k
  <2> QED
    BY <2>1 DEF Answers, Answered
<1>6. d \in Answers
  <2>1. /\ d \in Records /\ d.what = "HelloDone" /\ d.mseq = FirstSeq + 2
        /\ d.random = 0 /\ d.epoch = 0
    BY <1>1, <1>2, NoKeyIs, AnswerIs
  <2> HIDE DEF d
  <2> QED
    BY <2>1 DEF Answers, Answered
<1> HIDE DEF h, k, d
<1>7. <<h, k, d>> \in Seq(Answers)
  BY <1>4, <1>5, <1>6
<1> QED
  BY <1>3, <1>7

\* An answer that is no message of the handshake.
LEMMA PlainOK ==
    ASSUME NEW key \in Keys, NEW type \in Types \ {"handshake"},
           NEW what \in {"ccs", "fatal", "close_notify", "data"},
           NEW r, r = Answer(key, type, what, 0, 0, <<>>)
    PROVE  r \in Answers
<1> DEFINE none == <<>>
<1>1. /\ none \in Logs /\ what \in Whats /\ type \in Types /\ 0 \in Nat
      /\ r = Answer(key, type, what, 0, 0, none)
  BY DEF Logs, Whats
<1> HIDE DEF none
<1>2. r \in Records /\ r.what = what /\ r.type = type
  BY <1>1, AnswerIs
<1> QED
  BY <1>2 DEF Answers

LEMMA NetworkOK == ASSUME IInv, Network PROVE IInv'
<1>1. /\ UNCHANGED <<at, client, app, up, retry, okBefore, server, connects,
                     agreed, sealed>>
      /\ faults' \in 0..MaxFaults
  BY TaskTypes DEF IInv, TaskInv, Network, Fault, taskVars
<1>2. AirInv'
  <2>1. \/ /\ toServer' \in Lost(toServer) \union Copied(toServer)
                              \union Swapped(toServer)
           /\ UNCHANGED toClient
        \/ /\ toClient' \in Lost(toClient) \union Copied(toClient)
                              \union Swapped(toClient)
           /\ UNCHANGED toServer
    BY DEF Network, Disturbs
  <2>2. /\ toServer \in Seq(Requests) /\ Len(toServer) <= MaxAir
        /\ toClient \in Seq(Answers)  /\ Len(toClient) <= MaxAir
    BY DEF IInv, AirInv
  <2>3. /\ toServer' \in Seq(Requests) /\ Len(toServer') <= MaxAir
        /\ toClient' \in Seq(Answers) /\ Len(toClient') <= MaxAir
    BY <2>1, <2>2, DisturbedIn
  <2> QED
    BY <1>1, <2>3, SameAnswers DEF AirInv
<1>3. TaskInv'
  BY <1>1 DEF IInv, TaskInv
<1> QED
  BY <1>1, <1>2, <1>3, SameClient, SameServer DEF IInv

LEMMA ServerKeyIn == ASSUME ServerInv PROVE ServerKey \in Keys
BY NoKeyIs DEF ServerInv, ServerKey, Servers, Keys

LEMMA ServerActsOK == ASSUME IInv, ServerActs PROVE IInv'
<1>1. /\ UNCHANGED <<at, client, app, up, retry, okBefore, toServer, connects,
                     agreed, sealed>>
      /\ faults' \in 0..MaxFaults
  BY TaskTypes DEF IInv, TaskInv, ServerActs, Fault, taskVars
<1>2. server' = server \/ server' = [server EXCEPT !.state = "none"]
  BY DEF ServerActs
<1>3. ServerInv'
  <2>1. CASE server' = server
    BY <1>1, <2>1, SameServer DEF IInv
  <2>2. CASE server' = [server EXCEPT !.state = "none"]
    BY <1>1, <2>2 DEF IInv, ServerInv, Servers, ServerStates
  <2> QED
    BY <1>2, <2>1, <2>2
<1>4. AirInv'
  <2>1. PICK records : Sends(records) /\ records \in Seq(Answers)
    <3>1. ServerKey \in Keys /\ NoKey \in Keys
      BY ServerKeyIn, NoKeyIs DEF IInv
    <3>2. ASSUME server.state = "hello" PROVE Flight(server) \in Seq(Answers)
      BY <3>2, FlightOK DEF IInv, ServerInv
    <3>3. ASSUME NEW key \in {ServerKey, NoKey}, NEW type \in {"alert", "data"},
                 NEW what \in {"close_notify", "fatal", "data"}
          PROVE  <<Answer(key, type, what, 0, 0, <<>>)>> \in Seq(Answers)
      <4> DEFINE r == Answer(key, type, what, 0, 0, <<>>)
      <4>1. r \in Answers
        BY <3>1, PlainOK DEF Types
      <4> HIDE DEF r
      <4>2. <<r>> \in Seq(Answers)
        BY <4>1
      <4> QED
        BY <4>2 DEF r
    <3> QED
      BY <3>2, <3>3 DEF ServerActs
  <2>2. Answers' = Answers
    BY <1>1, SameAnswers
  <2> QED
    BY <1>1, <2>1, <2>2, SendsOK DEF IInv
<1>5. TaskInv'
  BY <1>1 DEF IInv, TaskInv
<1> QED
  BY <1>1, <1>3, <1>4, <1>5, SameClient DEF IInv

\* A ClientHello that is accepted: the server begins a handshake, its hash
\* the four messages of both flights.
LEMMA StartedOK ==
    ASSUME ServerInv, NEW r \in Requests,
           r.what = IF Cookies THEN "CookieHello" ELSE "ClientHello",
           NEW s, s = Started(r)
    PROVE  /\ s \in Servers /\ s.state = "hello" /\ s.random # 0
           /\ Cookies => s.log = Done(s.client, s.random)
<1> DEFINE random == server.random + 1
           w == Entry(r.what, r.random)
           x == Entry("ServerHello", random)
           y == Entry("ServerKey", 0)
           z == Entry("HelloDone", 0)
           E == Whats \X Nat
           log == <<w, x, y, z>>
<1>1. random \in Nat /\ random # 0 /\ r.random \in Nat /\ r.what \in Whats
  BY DEF ServerInv, Servers, Requests, Records
<1>2. w \in E /\ x \in E /\ y \in E /\ z \in E
  <2>1. /\ "ServerHello" \in Whats /\ "ServerKey" \in Whats
        /\ "HelloDone" \in Whats /\ 0 \in Nat
    BY DEF Whats, Answered
  <2> QED
    BY <1>1, <2>1 DEF Entry
<1>3. s = [state |-> "hello", client |-> r.random, random |-> random,
           log |-> log]
  BY DEF Started, Entry
<1> HIDE DEF random
<1>4. log \in Logs
  <2> HIDE DEF w, x, y, z, E
  <2>1. log \in Seq(E)
    BY <1>2
  <2> QED
    BY <2>1 DEF E, Logs
<1>5. log = Append(Append(Append(<<w>>, x), y), z)
  <2> HIDE DEF w, x, y, z, E
  <2> QED
    BY <1>2, FourAppended
<1>6. Cookies => Append(Append(Append(<<w>>, x), y), z) = Done(r.random, random)
  BY DEF Done, Keyed, Heard, Begun
<1> HIDE DEF w, x, y, z, log
<1>7. /\ s.state = "hello" /\ s.client = r.random /\ s.random = random
      /\ s.log = log
  BY <1>3
<1>8. s \in Servers
  BY <1>1, <1>3, <1>4 DEF Servers, ServerStates
<1> QED
  BY <1>1, <1>5, <1>6, <1>7, <1>8

\* A message of the client's that the server hashes.
LEMMA TakesIs ==
    ASSUME ServerInv, NEW r \in Requests, NEW state \in ServerStates,
           NEW s, s = Takes(r, state)
    PROVE  /\ s \in Servers /\ s.state = state /\ s.client = server.client
           /\ s.random = server.random
           /\ s.log = Append(server.log, Entry(r.what, 0))
<1> DEFINE log == Append(server.log, Entry(r.what, 0))
<1>1. server \in Servers
  BY DEF ServerInv
<1>2. log \in Logs
  <2>1. server.log \in Logs /\ Entry(r.what, 0) \in Whats \X Nat
    BY <1>1 DEF Servers, Requests, Records, Entry
  <2> QED
    BY <2>1 DEF Logs
<1>3. s = [server EXCEPT !.state = state, !.log = log]
  BY <1>1 DEF Takes, Entry
<1> HIDE DEF log
<1>4. /\ s.state = state /\ s.client = server.client
      /\ s.random = server.random /\ s.log = log
  BY <1>1, <1>3 DEF Servers
<1>5. s \in Servers
  BY <1>1, <1>2, <1>3 DEF Servers
<1> QED
  BY <1>4, <1>5 DEF log

\* The server's answer to one record of the client.
LEMMA ServerHearsOK ==
    ASSUME IInv, NEW r \in Requests, ServerHears(r)
    PROVE  /\ ServerInv' /\ agreed \subseteq agreed'
           /\ \/ toClient' = toClient
              \/ \E records \in Seq(Answers') : Sends(records)
<1>1. /\ ServerInv /\ server \in Servers /\ agreed \subseteq Keys
      /\ ServerKey \in Keys /\ NoKey \in Keys
  BY ServerKeyIn, NoKeyIs DEF IInv, ServerInv
<1>2. CASE Sends(<<Verify>>) /\ UNCHANGED <<server, agreed>> /\ Cookies
  <2> DEFINE none == <<>>
             v == Answer(NoKey, "handshake", "HelloVerify", 0, 0, none)
  <2>1. /\ "handshake" \in Types /\ none \in Logs /\ 0 \in Nat
        /\ "HelloVerify" \in Whats
    BY DEF Types, Whats, Answered, Logs
  <2>2. Verify = v
    BY DEF Verify
  <2> HIDE DEF none
  <2>3. v \in Records /\ v.what = "HelloVerify" /\ v.mseq = 0
    BY <1>1, <2>1, AnswerIs
  <2> HIDE DEF v
  <2>4. v \in Answers
    BY <1>2, <2>3 DEF Answers, Answered
  <2>5. <<v>> \in Seq(Answers)
    BY <2>4
  <2>6. Answers' = Answers
    BY <1>2, SameAnswers
  <2> QED
    BY <1>1, <1>2, <2>2, <2>5, <2>6, SameServer
<1>3. CASE /\ r.what = IF Cookies THEN "CookieHello" ELSE "ClientHello"
           /\ server' = IF server.state = "hello" /\ server.client = r.random
                        THEN server ELSE Started(r)
           /\ Sends(Flight(server')) /\ UNCHANGED agreed
  <2> DEFINE s == server'
  <2>1. /\ s \in Servers /\ s.state = "hello" /\ s.random # 0
        /\ Cookies => s.log = Done(s.client, s.random)
    <3>1. CASE server' = server /\ server.state = "hello"
      BY <1>1, <3>1 DEF ServerInv
    <3>2. CASE server' = Started(r)
      BY <1>1, <1>3, <3>2, StartedOK
    <3> QED
      BY <1>3, <3>1, <3>2
  <2>2. ServerInv'
    BY <1>1, <1>3, <2>1 DEF ServerInv
  <2>3. Flight(s) \in Seq(Answers)
    <3> HIDE DEF s
    <3> QED
      BY <2>1, FlightOK
  <2>4. Answers' = Answers
    BY <1>3, SameAnswers
  <2> QED
    BY <1>3, <2>2, <2>3, <2>4
<1>4. CASE /\ r.what = "ClientKey" /\ server.state = "hello"
           /\ server' = Takes(r, "key") /\ UNCHANGED <<toClient, agreed>>
  <2> DEFINE s == server'
  <2>1. s = Takes(r, "key") /\ "key" \in ServerStates
    BY <1>4 DEF ServerStates
  <2> HIDE DEF s
  <2>2. /\ s \in Servers /\ s.state = "key" /\ s.client = server.client
        /\ s.random = server.random
        /\ s.log = Append(server.log, Entry(r.what, 0))
    BY <1>1, <2>1, TakesIs
  <2>3. Cookies => s.log = Transcript(s.client, s.random)
    BY <1>4, <2>2 DEF IInv, ServerInv, Transcript
  <2>4. ServerInv'
    BY <1>1, <1>4, <2>2, <2>3 DEF ServerInv, s
  <2> QED
    BY <1>4, <2>4
<1>5. CASE /\ server.state = "key"
           /\ server' = [server EXCEPT !.state = "ccs"]
           /\ UNCHANGED <<toClient, agreed>>
  <2>1. ServerInv'
    BY <1>1, <1>5 DEF ServerInv, Servers, ServerStates
  <2> QED
    BY <1>5, <2>1
<1>6. CASE /\ server' = Takes(r, "up")
           /\ Sends(<<Answer(NoKey, "ccs", "ccs", 0, 0, <<>>),
                      Answer(ServerKey, "handshake", "Finished", FirstSeq + 3, 0,
                             server'.log)>>)
           /\ agreed' = agreed \union {ServerKey}
  <2> DEFINE s == server'
             key == ServerKey
             hash == s.log
             a == Answer(NoKey, "ccs", "ccs", 0, 0, <<>>)
             b == Answer(key, "handshake", "Finished", FirstSeq + 3, 0, hash)
  <2>1. s = Takes(r, "up") /\ "up" \in ServerStates
    BY <1>6 DEF ServerStates
  <2>2. s \in Servers /\ s.state = "up"
    <3> HIDE DEF s
    <3> QED
      BY <1>1, <2>1, TakesIs
  <2>3. ServerInv'
    BY <1>1, <1>6, <2>2 DEF ServerInv
  <2>4. key \in Keys /\ key \in agreed' /\ hash \in Logs
    BY <1>1, <1>6, <2>2 DEF Servers
  <2>5. /\ FirstSeq + 3 \in Nat /\ 0 \in Nat /\ "handshake" \in Types
        /\ "Finished" \in Whats
    BY FirstSeqIs DEF Types, Whats, Answered
  <2>6. /\ Sends(<<a, b>>)
        /\ b = Answer(key, "handshake", "Finished", FirstSeq + 3, 0, hash)
    BY <1>6
  <2>7. a \in Answers
    BY <1>1, PlainOK DEF Types
  <2>8. a \in Answers'
    <3>1. Answers \subseteq Answers'
      BY <1>6 DEF Answers
    <3> HIDE DEF a
    <3> QED
      BY <2>7, <3>1
  <2> HIDE DEF a, b, key, hash, s
  <2>9. /\ b \in Records /\ b.what = "Finished" /\ b.mseq = FirstSeq + 3
        /\ b.key = key
    BY <2>4, <2>5, <2>6, AnswerIs
  <2>10. b \in Answers'
    BY <2>4, <2>9 DEF Answers, Answered
  <2> DEFINE S == Answers'
  <2>11. a \in S /\ b \in S
    BY <2>8, <2>10
  <2> HIDE DEF S
  <2>12. <<a, b>> \in Seq(S)
    BY <2>11
  <2>13. agreed \subseteq agreed'
    BY <1>6
  <2> QED
    BY <2>3, <2>6, <2>12, <2>13 DEF S
<1>7. CASE /\ server' = [server EXCEPT !.state = "none"]
           /\ \/ Sends(<<Answer(ServerKey, "alert", "fatal", 0, 0, <<>>)>>)
              \/ UNCHANGED toClient
           /\ UNCHANGED agreed
  <2>1. ServerInv'
    BY <1>1, <1>7 DEF ServerInv, Servers, ServerStates
  <2> DEFINE a == Answer(ServerKey, "alert", "fatal", 0, 0, <<>>)
  <2>2. a \in Answers
    BY <1>1, PlainOK DEF Types
  <2>3. Sends(<<a>>) \/ UNCHANGED toClient
    BY <1>7
  <2> HIDE DEF a
  <2>4. <<a>> \in Seq(Answers)
    BY <2>2
  <2>5. Answers' = Answers
    BY <1>7, SameAnswers
  <2> QED
    BY <1>7, <2>1, <2>3, <2>4, <2>5
<1>8. CASE UNCHANGED <<toClient, server, agreed>>
  BY <1>1, <1>8, SameServer
<1> QED
  BY <1>2, <1>3, <1>4, <1>5, <1>6, <1>7, <1>8 DEF ServerHears

LEMMA ServerReceivesOK == ASSUME IInv, ServerReceives PROVE IInv'
<1> DEFINE r == Head(toServer)
<1>1. /\ toServer # <<>> /\ ServerHears(r) /\ toServer' = Tail(toServer)
      /\ UNCHANGED <<at, client, app, up, retry, okBefore, connects, faults,
                     sealed>>
  BY DEF ServerReceives, taskVars
<1>2. /\ r \in Requests /\ toServer' \in Seq(Requests)
      /\ Len(toServer') <= MaxAir
  <2>1. /\ toServer \in Seq(Requests) /\ Len(toServer) <= MaxAir
        /\ Len(toServer) \in Nat /\ MaxAir \in Nat
    BY LenProperties, DtlsAssumption DEF IInv, AirInv
  <2> QED
    BY <1>1, <2>1, HeadTailProperties
<1> HIDE DEF r
<1>3. /\ ServerInv' /\ agreed \subseteq agreed'
      /\ \/ toClient' = toClient
         \/ \E records \in Seq(Answers') : Sends(records)
  BY <1>1, <1>2, ServerHearsOK
<1>4. AirInv'
  <2> DEFINE S == Answers'
  <2>1. toClient \in Seq(S) /\ Len(toClient) <= MaxAir
    <3>1. Answers \subseteq Answers'
      BY <1>3 DEF Answers
    <3> QED
      BY <3>1 DEF IInv, AirInv
  <2> HIDE DEF S
  <2>2. toClient' \in Seq(S) /\ Len(toClient') <= MaxAir
    <3>1. CASE toClient' = toClient
      BY <2>1, <3>1
    <3>2. ASSUME NEW records \in Seq(S), Sends(records)
          PROVE  toClient' \in Seq(S) /\ Len(toClient') <= MaxAir
      BY <2>1, <3>2, ConcatProperties DEF Sends
    <3> QED
      BY <1>3, <3>1, <3>2 DEF S
  <2> QED
    BY <1>2, <2>2 DEF AirInv, S
<1>5. ClientInv'
  BY <1>1, <1>3 DEF IInv, ClientInv, Agreement, Active
<1>6. TaskInv'
  BY <1>1 DEF IInv, TaskInv
<1> QED
  BY <1>3, <1>4, <1>5, <1>6 DEF IInv

(***************************************************************************)
(* The theorems                                                            *)
(***************************************************************************)
LEMMA InitOK == ASSUME Init PROVE IInv
<1> DEFINE s == Params(0, NoKey)
           slot == <<s, s>>
           hs == NewHandshake(0)
           none == <<>>
           one == 1
<1>1. /\ client = [state |-> "INIT", active |-> one, out |-> none,
                   slot |-> slot, hs |-> hs]
      /\ at = "udp" /\ app = "INIT" /\ up = FALSE /\ retry = 0
      /\ okBefore = FALSE /\ toServer = none /\ toClient = none
      /\ server = [state |-> "none", client |-> 0, random |-> 0, log |-> none]
      /\ connects = 0 /\ faults = 0 /\ agreed = {} /\ sealed = {}
  BY DEF Init
<1>2. /\ s \in Slots /\ s.epoch = 0 /\ s.key = NoKey
      /\ slot \in [1..2 -> Slots] /\ slot[1] = s /\ slot[2] = s
  BY NoKeyIs DEF Params, Slots
<1>3. /\ hs \in Handshakes /\ hs.random = 0 /\ hs.server = 0 /\ hs.sent = 0
      /\ hs.rcvd = 0
  <2>1. 0 \in 0..4 /\ {} \in SUBSET Nat /\ 0 \in Nat /\ none \in Logs
    BY DEF Logs
  <2> QED
    BY <2>1 DEF NewHandshake, Handshakes
<1>4. none \in Logs /\ none \in Seq(Requests) /\ none \in Seq(Answers)
      /\ Len(none) = 0 /\ one \in 1..2 /\ Seals(none) = {}
  BY SealsNone DEF Logs
<1>5. one = 1
  OBVIOUS
<1> HIDE DEF s, slot, hs, none, one
<1>6. /\ client \in Clients /\ client.state = "INIT" /\ client.active = one
      /\ client.out = none /\ client.slot = slot /\ client.hs = hs
  BY <1>1, <1>2, <1>3, <1>4 DEF Clients, States
<1>7. KeysOK(client, {})
  <2>1. Active(client) = s /\ client.slot[3 - client.active] = s
    BY <1>2, <1>5, <1>6 DEF Active
  <2> QED
    BY <1>2, <2>1 DEF KeysOK
<1>8. HsOK(client.hs, 0) /\ LogOK(client.hs)
  BY <1>3, <1>6, FirstSeqIs DEF HsOK, LogOK
<1>9. ClientInv
  <2>1. ClientOK(client, 0, {})
    BY <1>4, <1>6, <1>7, <1>8 DEF ClientOK
  <2>2. client.out = <<>>
    BY <1>6 DEF none
  <2> QED
    BY <1>1, <1>6, <2>1, <2>2 DEF ClientInv, Agreement
<1>10. AirInv
  BY <1>1, <1>4, DtlsAssumption DEF AirInv
<1>11. ServerInv
  BY <1>1, <1>4 DEF ServerInv, Servers, ServerStates
<1>12. TaskInv
  <2>1. /\ retry \in 0..RetryLimit
        /\ connects \in 0..MaxConnects /\ faults \in 0..MaxFaults
    BY <1>1, DtlsAssumption
  <2>2. up \in BOOLEAN /\ okBefore \in BOOLEAN
    BY <1>1
  <2> QED
    BY <1>1, <1>6, <2>1, <2>2 DEF TaskInv, AppStates
<1> QED
  BY <1>9, <1>10, <1>11, <1>12 DEF IInv

LEMMA NextOK == ASSUME IInv, [Next]_vars PROVE IInv'
<1>1. CASE UNCHANGED vars
  <2>1. UNCHANGED <<at, client, app, up, retry, okBefore, toServer, toClient,
                    server, connects, faults, agreed, sealed>>
    BY <1>1 DEF vars
  <2>2. TaskInv'
    BY <2>1 DEF IInv, TaskInv
  <2> QED
    BY <2>1, <2>2, SameClient, SameAir, SameServer DEF IInv
<1> QED
  BY <1>1, TaskStepOK, ServerReceivesOK, ServerActsOK, NetworkOK DEF Next

\* The inductive invariant: how far the handshake is, what the hash covers,
\* which keys are in use and which have been used, and what the server knows.
THEOREM SpecIInv == Spec => []IInv
<1>1. Init => IInv
  BY InitOK
<1>2. IInv /\ [Next]_vars => IInv'
  BY NextOK
<1> QED
  BY <1>1, <1>2, PTL DEF Spec

\* TypeOK: every variable stays in its type: no handshake sends or counts
\* more than four messages (dtls_send_handshake_msg, handle_handshake_msg),
\* and no retry is begun at the limit (DTLS_STATE_CLOSE).
THEOREM SpecTypeOK == Spec => []TypeOK
<1>1. IInv => TypeOK
  <2> SUFFICES ASSUME IInv PROVE TypeOK
    OBVIOUS
  <2>1. client \in Clients /\ client.out = <<>> /\ server \in Servers
    BY DEF IInv, ClientInv, ClientOK, ServerInv
  <2>2. \A i \in {1, 2} : /\ client.slot[i].epoch \in 0..1
                          /\ client.slot[i].rseq \in Nat
    <3>1. \A i \in 1..2 : client.slot[i] \in Slots
      BY <2>1 DEF Clients
    <3> QED
      BY <3>1 DEF Slots
  <2>3. /\ client.state \in States /\ client.active \in {1, 2}
        /\ client.hs.sent \in 0..4 /\ client.hs.rcvd \in 0..4
        /\ server.state \in ServerStates
    BY <2>1 DEF Clients, Handshakes, Servers
  <2>4. up \in BOOLEAN /\ okBefore \in BOOLEAN
    BY DEF IInv, TaskInv
  <2>5. {up, okBefore} \subseteq BOOLEAN
    BY <2>4, Zenon
  <2> QED
    BY <2>1, <2>2, <2>3, <2>5 DEF TypeOK, IInv, TaskInv, AirInv
<1> QED
  BY <1>1, SpecIInv, PTL

\* Agreement: a client that is CONNECTED uses keys whose handshake the server
\* has found complete (handle_ccs, check_finished, the epochs and the message
\* numbers together), for any number of attempts and of faults.
THEOREM SpecAgreement == Spec => []Agreement
<1>1. IInv => Agreement
  BY DEF IInv, ClientInv
<1> QED
  BY <1>1, SpecIInv, PTL

\* FreshSequence: no record is encrypted with keys and a sequence number that
\* have been used before (dtls_prepare_record): keys are from the random of
\* their handshake, and no handshake has the random of an earlier one.
THEOREM SpecFreshSequence == Spec => []FreshSequence
<1>1. IInv => FreshSequence
  <2> SUFFICES ASSUME IInv, NEW i \in {1, 2}, client.slot[i].key # NoKey,
                      NEW used \in sealed, used[1] = client.slot[i].key
               PROVE  used[2] < client.slot[i].rseq
    BY DEF FreshSequence
  <2>1. client \in Clients /\ KeysOK(client, sealed)
    <3>1. ClientOK(client, connects, sealed) /\ client.out = <<>>
      BY DEF IInv, ClientInv
    <3>2. sealed \union Seals(client.out) = sealed
      BY <3>1, SealsNone
    <3> QED
      BY <3>1, <3>2 DEF ClientOK
  <2>2. client.active \in 1..2
    BY <2>1 DEF Clients
  <2>3. client.slot[3 - client.active].key = NoKey
    BY <2>1 DEF KeysOK
  <2>4. i = client.active
    BY <2>2, <2>3
  <2> QED
    BY <2>1, <2>4 DEF KeysOK, Active
<1> QED
  BY <1>1, SpecIInv, PTL

\* SameTranscript: where the server asks for cookies, a Finished message that
\* it can read covers the messages it has seen (update_hs_hash in the check_
\* functions, and the hash begun anew by dtls_send_client_hello).
THEOREM SpecSameTranscript == ASSUME Cookies PROVE Spec => []SameTranscript
<1>1. IInv => SameTranscript
  <2> SUFFICES ASSUME IInv, NEW i \in 1..Len(toServer),
                      toServer[i].what = "Finished", server.state = "ccs",
                      toServer[i].key = ServerKey
               PROVE  toServer[i].hash = server.log
    BY DEF SameTranscript
  <2> DEFINE r == toServer[i]
  <2>1. r \in Requests
    BY ElementOfSeq DEF IInv, AirInv
  <2> HIDE DEF r
  <2>2. r.hash = Transcript(r.key[1], r.key[2])
    BY <2>1 DEF Requests, r
  <2>3. r.key[1] = server.client /\ r.key[2] = server.random
    BY DEF ServerKey, r
  <2>4. server.log = Transcript(server.client, server.random)
    BY DEF IInv, ServerInv
  <2> QED
    BY <2>2, <2>3, <2>4 DEF r
<1> QED
  BY <1>1, SpecIInv, PTL

\* AsCloudCommsAssumes: the flag of the handshake is raised on a connected
\* client only (dtlsEventHandler), a handshake is left for connected or for
\* down only, and only dtls_connect begins one.
THEOREM SpecAsCloudCommsAssumes == Spec => AsCloudCommsAssumes
<1> DEFINE Assumed ==
      /\ (up' /\ ~up) => client'.state = "CONNECTED"
      /\ Abstract(client') # Abstract(client) =>
           \/ Abstract(client') = "down"
           \/ Abstract(client) = "handshake" /\ Abstract(client') = "connected"
           \/ connects' = connects + 1
<1>1. ASSUME IInv, Next PROVE Assumed
  <2>1. CASE Receive
    BY <1>1, <2>1, ReceiveIs DEF Moved
  <2>2. CASE AppInit
    <3>1. client'.state = client.state /\ up' = FALSE
      BY <1>1, <2>2 DEF AppInit, IInv, ClientInv, ClientOK, Clients
    <3> QED
      BY <3>1 DEF Abstract
  <2>3. CASE AppConnect \/ AppConnectFails
    BY <2>3 DEF AppConnect, AppConnectFails, Disconnected
  <2>4. CASE AppClose
    <3> DEFINE c == Close(client)
    <3>1. ClientOK(c, connects, sealed) /\ c.state = "CLOSING"
      BY <1>1, CloseOK DEF IInv, ClientInv
    <3>2. Written(c) /\ UNCHANGED up
      BY <2>4 DEF AppClose
    <3> HIDE DEF c
    <3>3. client'.state = "CLOSING"
      BY <1>1, <3>1, <3>2, WrittenOK DEF IInv
    <3> QED
      BY <3>2, <3>3 DEF Abstract, HandshakeStates
  <2>5. CASE AppWrites
    <3> DEFINE c == Send(client, "data", "data", 0, 0, <<>>)
    <3>1. /\ ClientOK(client, connects, sealed) /\ "data" \in Types
          /\ "data" \in Whats \ {"Finished"}
      BY <1>1 DEF IInv, ClientInv, Types, Whats
    <3>2. ClientOK(c, connects, sealed) /\ c.state = client.state
      BY <3>1, SendOK
    <3>3. Written(c) /\ UNCHANGED up
      BY <2>5 DEF AppWrites
    <3> HIDE DEF c
    <3>4. client'.state = client.state
      BY <1>1, <3>2, <3>3, WrittenOK DEF IInv
    <3> QED
      BY <3>3, <3>4 DEF Abstract
  <2>6. CASE AppReconnects \/ AppMissesAnswers
    <3>1. up = TRUE /\ up' = FALSE /\ Disconnected(client)
      BY <1>1, <2>6 DEF AppReconnects, AppMissesAnswers, Disconnected, IInv, TaskInv
    <3>2. client'.state = "CLOSING"
      BY <1>1, <3>1, DisconnectedOK DEF IInv, ClientInv
    <3> QED
      BY <3>1, <3>2 DEF Abstract, HandshakeStates
  <2>7. CASE \/ NothingReceived \/ AppWaits \/ AppConnected \/ AppTimeout
             \/ AppTimeoutEarly \/ AppIdles \/ ServerReceives \/ ServerActs
             \/ Network
    <3>1. UNCHANGED <<client, up>>
      BY <2>7 DEF NothingReceived, AppWaits, AppConnected, AppTimeout,
         AppTimeoutEarly, TimesOut, AppIdles, ServerReceives, ServerActs,
         Network, taskVars
    <3> QED
      BY <3>1
  <2> QED
    BY <1>1, <2>1, <2>2, <2>3, <2>4, <2>5, <2>6, <2>7 DEF Next, Task
<1>2. IInv /\ [Next]_vars => [Assumed]_vars
  BY <1>1
<1>3. ([][Assumed]_vars) <=> AsCloudCommsAssumes
  BY DEF AsCloudCommsAssumes
<1> HIDE DEF Assumed
<1> QED
  BY <1>2, <1>3, SpecIInv, PTL DEF Spec
=============================================================================
