--------------------------- MODULE Transports_proofs ---------------------------
(* Proofs about what waits for another program, for any calls, callers,      *)
(* bounds and failures: the transports under one lock implement RemoteCalls, *)
(* answers belong to whom they are given, a response that was cut off is not *)
(* committed, and every record of telemetry is accounted for.                *)
EXTENDS MCTransports, SequenceTheorems, FiniteSetTheorems, TLAPS

-----------------------------------------------------------------------------
(* LockedTransport implements RemoteCalls as long as the server writes       *)
(* nothing of its own accord, for any number of calls and any room in the    *)
(* pipes. Nobody compares ids: what holds is that whatever is between the    *)
(* two programs belongs to the owner of the mutex.                           *)

(* The calls of which nothing has reached a pipe. *)
Unsent ==
  {c \in Calls : \/ outcome[c] = "idle"
                 \/ outcome[c] = "pending" /\ ~(owner = c /\ written)}

(* What is on its way to the server was written once and not yet executed.  *)
OnceInv ==
  /\ \A i \in 1..Len(toServer) :
       /\ toServer[i] \notin Unsent /\ toServer[i] \notin executed
       /\ \A j \in 1..Len(toServer) : toServer[j] = toServer[i] => j = i
  /\ \A c \in executed : c \notin Unsent /\ c \notin Notices

(* Only a scanner has lines that are too long. *)
KindInv == \A i \in 1..Len(toClient) : toClient[i] = TooLong => kind = "stdio"

(* Nobody will read any more. *)
Dead == broken \/ ((closing # "open" \/ server = "down") /\ ~written)

(* The request of the owner is in one place: on its way, being served, or   *)
(* answered. Notifications may precede it.                                  *)
Pipeline ==
  /\ \A i \in 1..Len(toServer) : toServer[i] \notin Notices =>
       written /\ toServer[i] = owner /\ serving = NoCall /\ toClient = <<>>
  /\ serving # NoCall => written /\ serving = owner /\ serving \in executed /\ toClient = <<>>
  /\ toClient # <<>> =>
       /\ written /\ Len(toClient) = 1
       /\ toClient[1] # TooLong => toClient[1] = owner /\ toClient[1] \in executed

OrderInv == noise = 0 => Dead \/ Pipeline

LockedInv == TypeOK /\ OnceInv /\ KindInv /\ OrderInv

-----------------------------------------------------------------------------
LEMMA LockedInit == Init => LockedInv
<1>. SUFFICES ASSUME Init PROVE LockedInv
  OBVIOUS
<1>1. /\ toServer = <<>> /\ toClient = <<>> /\ executed = {} /\ serving = NoCall
      /\ owner = NoCall /\ written = FALSE /\ broken = FALSE /\ noise = 0 /\ Len(<<>>) = 0
      /\ toServer \in Seq(Calls) /\ toClient \in Seq(Messages) /\ MaxNoise \in Nat
  BY LockedTransportAssumption DEF Init
<1>2. TypeOK
  <2>1. /\ outcome \in [Calls -> {"idle", "pending", "answered", "failed", "sent"}]
        /\ answer \in [Calls -> Messages \cup {NoCall}]
        /\ kind \in {"stdio", "websocket"} /\ server = "up" /\ closing = "open"
    BY DEF Init
  <2>2. noise \in 0..MaxNoise
    BY <1>1
  <2>. QED
    BY <1>1, <2>1, <2>2 DEF TypeOK
<1>3. OnceInv /\ KindInv /\ OrderInv
  BY <1>1 DEF OnceInv, KindInv, OrderInv, Pipeline
<1>. QED
  BY <1>2, <1>3 DEF LockedInv

(* While the pipe to the server stays, it is enough that no call becomes    *)
(* unsent again.                                                            *)
LEMMA OnceKept ==
  ASSUME TypeOK, OnceInv, UNCHANGED <<toServer, executed>>,
         Unsent' \subseteq Unsent
  PROVE  OnceInv'
<1>1. \A i \in 1..Len(toServer) : toServer[i] \in Calls
  BY DEF TypeOK
<1>2. executed \subseteq Calls
  BY DEF TypeOK
<1>3. \A i \in 1..Len(toServer) : toServer[i] \notin Unsent'
  BY <1>1 DEF OnceInv
<1>4. \A d \in executed : d \notin Unsent'
  BY <1>2 DEF OnceInv
<1>. QED
  BY <1>3, <1>4 DEF OnceInv

(* The owner returns: the mutex is free, and its call stays sent.           *)
LEMMA OwnerReturns ==
  ASSUME TypeOK, NEW c \in Calls, owner = c,
         NEW w \in {"answered", "failed", "sent"}, Finish(c, w)
  PROVE  /\ outcome[c] = "pending" /\ owner' = NoCall /\ written' = FALSE /\ kind' = kind
         /\ outcome' = [outcome EXCEPT ![c] = w]
         /\ outcome' \in [Calls -> {"idle", "pending", "answered", "failed", "sent"}]
         /\ c \notin Unsent' /\ Unsent' \subseteq Unsent
<1>1. /\ outcome \in [Calls -> {"idle", "pending", "answered", "failed", "sent"}]
      /\ c # NoCall
  BY LockedTransportAssumption DEF TypeOK
<1>2. /\ outcome[c] = "pending" /\ owner' = NoCall /\ written' = FALSE /\ kind' = kind
      /\ outcome' = [outcome EXCEPT ![c] = w]
  BY <1>1 DEF TypeOK, Finish
<1>3. \A d \in Calls : outcome'[d] = IF d = c THEN w ELSE outcome[d]
  BY <1>1, <1>2
<1>4. outcome' \in [Calls -> {"idle", "pending", "answered", "failed", "sent"}]
  BY <1>1, <1>2
<1>5. c \notin Unsent'
  BY <1>3 DEF Unsent
<1>6. Unsent' \subseteq Unsent
  BY <1>2, <1>3 DEF Unsent
<1>. QED
  BY <1>2, <1>4, <1>5, <1>6

(* The owner returns without having touched the pipes.                      *)
LEMMA FailureStep ==
  ASSUME LockedInv, NEW c \in Calls, WriteFails(c) \/ ReadFails(c)
  PROVE  LockedInv' /\ Remote!Return(c)
<1>1. /\ owner = c /\ Finish(c, "failed")
      /\ UNCHANGED <<answer, toServer, toClient, broken, serving, executed, server, noise, closing>>
  BY DEF WriteFails, ReadFails, serveVars
<1>2. /\ outcome[c] = "pending" /\ owner' = NoCall /\ written' = FALSE /\ kind' = kind
      /\ outcome' = [outcome EXCEPT ![c] = "failed"]
      /\ outcome' \in [Calls -> {"idle", "pending", "answered", "failed", "sent"}]
      /\ Unsent' \subseteq Unsent
  BY <1>1, OwnerReturns DEF LockedInv
<1>3. TypeOK'
  BY <1>1, <1>2 DEF LockedInv, TypeOK
<1>4. OnceInv' /\ KindInv'
  <2>1. OnceInv'
    BY <1>1, <1>2, OnceKept DEF LockedInv
  <2>2. KindInv'
    BY <1>1, <1>2 DEF LockedInv, KindInv
  <2>. QED
    BY <2>1, <2>2
<1>5. broken \/ closing # "open" \/ server = "down"
  BY DEF WriteFails, ReadFails
<1>6. Dead'
  BY <1>1, <1>2, <1>5 DEF Dead
<1>7. Remote!Return(c)
  BY <1>1, <1>2 DEF Remote!Return
<1>. QED
  BY <1>3, <1>4, <1>6, <1>7 DEF LockedInv, OrderInv

(* A call begins, or takes the mutex. *)
LEMMA EntryStep ==
  ASSUME LockedInv, NEW c \in Calls, Begin(c) \/ Lock(c)
  PROVE  LockedInv' /\ [Remote!Next]_<<outcome, answer, executed>>
<1>0. /\ outcome \in [Calls -> {"idle", "pending", "answered", "failed", "sent"}]
      /\ c # NoCall /\ (owner = NoCall => written = FALSE) /\ written \in BOOLEAN
      /\ owner \in {d \in Calls : outcome[d] = "pending"} \cup {NoCall}
  BY LockedTransportAssumption DEF LockedInv, TypeOK
<1>1. CASE Begin(c)
  <2>1. /\ outcome[c] = "idle" /\ outcome' = [outcome EXCEPT ![c] = "pending"]
        /\ UNCHANGED <<kind, answer, owner, written, toServer, toClient, broken, serving, executed, server, noise, closing>>
    BY <1>1 DEF Begin, serveVars
  <2>2. \A d \in Calls : outcome'[d] = IF d = c THEN "pending" ELSE outcome[d]
    BY <1>0, <2>1
  <2>3. TypeOK'
    BY <1>0, <2>1, <2>2 DEF LockedInv, TypeOK
  <2>4. Unsent' \subseteq Unsent
    BY <2>1, <2>2 DEF Unsent
  <2>5. OnceInv'
    BY <2>1, <2>4, OnceKept DEF LockedInv
  <2>6. KindInv' /\ OrderInv'
    BY <2>1 DEF LockedInv, KindInv, OrderInv, Dead, Pipeline
  <2>7. Remote!Issue(c)
    BY <2>1 DEF Remote!Issue
  <2>. QED
    BY <2>3, <2>5, <2>6, <2>7 DEF LockedInv, Remote!Next
<1>2. CASE Lock(c)
  <2>1. /\ outcome[c] = "pending" /\ owner = NoCall /\ owner' = c /\ written = FALSE /\ written' = FALSE
        /\ UNCHANGED <<kind, outcome, answer, toServer, toClient, broken, serving, executed, server, noise, closing>>
    BY <1>0, <1>2 DEF Lock, serveVars
  <2>2. TypeOK'
    BY <1>0, <2>1 DEF LockedInv, TypeOK
  <2>3. Unsent' \subseteq Unsent
    BY <2>1 DEF Unsent
  <2>4. OnceInv'
    BY <2>1, <2>3, OnceKept DEF LockedInv
  <2>5. KindInv' /\ OrderInv'
    BY <2>1 DEF LockedInv, KindInv, OrderInv, Dead, Pipeline
  <2>. QED
    BY <2>1, <2>2, <2>4, <2>5 DEF LockedInv
<1>. QED
  BY <1>1, <1>2

(* The request of the owner enters the pipe behind notifications only.      *)
LEMMA WriteStep ==
  ASSUME LockedInv, NEW c \in Calls, Write(c)
  PROVE  LockedInv' /\ [Remote!Next]_<<outcome, answer, executed>>
<1>1. /\ owner = c /\ written = FALSE /\ closing = "open" /\ server = "up"
      /\ toServer' = Append(toServer, c) /\ owner # NoCall /\ outcome[c] = "pending"
      /\ UNCHANGED <<kind, toClient, broken, serving, executed, server, noise, closing>>
  BY LockedTransportAssumption DEF Write, Finish, serveVars, LockedInv, TypeOK
<1>2. /\ toServer' \in Seq(Calls) /\ Len(toServer') = Len(toServer) + 1
      /\ \A i \in 1..Len(toServer) : toServer'[i] = toServer[i] /\ toServer[i] \in Calls
      /\ toServer'[Len(toServer) + 1] = c
      /\ \A i \in 1..Len(toServer') : i \in 1..Len(toServer) \/ i = Len(toServer) + 1
  <2>1. toServer \in Seq(Calls) /\ Len(toServer) \in Nat
    BY DEF LockedInv, TypeOK
  <2>2. /\ toServer' \in Seq(Calls) /\ Len(toServer') = Len(toServer) + 1
        /\ \A i \in 1..Len(toServer) : toServer'[i] = toServer[i]
        /\ toServer'[Len(toServer) + 1] = c
    BY <1>1, <2>1, AppendProperties
  <2>. QED
    BY <2>1, <2>2
<1>3. c \in Unsent /\ c \notin executed /\ \A i \in 1..Len(toServer) : toServer[i] # c
  BY <1>1 DEF Unsent, LockedInv, OnceInv
<1>4. /\ c \notin Unsent' /\ Unsent' \subseteq Unsent
      /\ outcome' \in [Calls -> {"idle", "pending", "answered", "failed", "sent"}]
      /\ c \in Notices => /\ outcome' = [outcome EXCEPT ![c] = "sent"] /\ answer' = answer
                          /\ owner' = NoCall /\ written' = FALSE
      /\ c \notin Notices => UNCHANGED <<outcome, answer, owner>> /\ written' = TRUE
  <2>1. CASE c \in Notices
    <3>1. Finish(c, "sent") /\ answer' = answer
      BY <2>1 DEF Write
    <3>. QED
      BY <1>1, <2>1, <3>1, OwnerReturns DEF LockedInv
  <2>2. CASE c \notin Notices
    <3>1. UNCHANGED <<outcome, answer, owner>> /\ written' = TRUE
      BY <2>2 DEF Write
    <3>2. c \notin Unsent' /\ Unsent' \subseteq Unsent
      BY <1>1, <3>1 DEF Unsent
    <3>. QED
      BY <2>2, <3>1, <3>2 DEF LockedInv, TypeOK
  <2>. QED
    BY <2>1, <2>2
<1>5. TypeOK'
  <2>1. owner' \in {d \in Calls : outcome'[d] = "pending"} \cup {NoCall}
    BY <1>1, <1>4
  <2>2. answer' \in [Calls -> Messages \cup {NoCall}] /\ written' \in BOOLEAN /\ (written' => owner' # NoCall)
    BY <1>1, <1>4 DEF LockedInv, TypeOK
  <2>. QED
    BY <1>1, <1>2, <1>4, <2>1, <2>2 DEF LockedInv, TypeOK
<1>6. OnceInv'
  <2>1. \A i \in 1..Len(toServer) : toServer[i] \notin Unsent' /\ toServer[i] \notin executed
    BY <1>2, <1>4 DEF LockedInv, OnceInv
  <2>2. \A i \in 1..Len(toServer') : toServer'[i] \notin Unsent' /\ toServer'[i] \notin executed
    <3>1. SUFFICES ASSUME NEW i \in 1..Len(toServer')
                   PROVE  toServer'[i] \notin Unsent' /\ toServer'[i] \notin executed
      OBVIOUS
    <3>2. CASE i \in 1..Len(toServer)
      <4>1. toServer'[i] = toServer[i]
        BY <1>2, <3>2
      <4>. QED
        BY <2>1, <3>2, <4>1
    <3>3. CASE i = Len(toServer) + 1
      <4>1. toServer'[i] = c
        BY <1>2, <3>3
      <4>. QED
        BY <1>3, <1>4, <4>1
    <3>. QED
      BY <1>2, <3>2, <3>3
  <2>3. ASSUME NEW i \in 1..Len(toServer'), NEW j \in 1..Len(toServer'), toServer'[j] = toServer'[i]
        PROVE  j = i
    <3>1. CASE i \in 1..Len(toServer) /\ j \in 1..Len(toServer)
      BY <1>2, <2>3, <3>1 DEF LockedInv, OnceInv
    <3>2. CASE i = Len(toServer) + 1 \/ j = Len(toServer) + 1
      BY <1>2, <1>3, <2>3, <3>2
    <3>. QED
      BY <1>2, <3>1, <3>2
  <2>4. executed' = executed /\ \A d \in executed : d \notin Unsent' /\ d \notin Notices
    BY <1>1, <1>4 DEF LockedInv, OnceInv, TypeOK
  <2>. QED
    BY <2>2, <2>3, <2>4 DEF OnceInv
<1>7. KindInv'
  BY <1>1 DEF LockedInv, KindInv
<1>8. OrderInv'
  <2>1. CASE broken
    BY <1>1, <2>1 DEF OrderInv, Dead
  <2>2. CASE noise = 0 /\ ~broken
    <3>1. /\ serving = NoCall /\ toClient = <<>>
          /\ \A i \in 1..Len(toServer) : toServer[i] \in Notices
      BY <1>1, <2>2 DEF LockedInv, OrderInv, Dead, Pipeline
    <3>2. Pipeline'
      BY <1>1, <1>2, <1>4, <3>1 DEF Pipeline
    <3>. QED
      BY <3>2 DEF OrderInv
  <2>3. CASE noise # 0
    BY <1>1, <2>3 DEF OrderInv
  <2>. QED
    BY <2>1, <2>2, <2>3
<1>9. [Remote!Next]_<<outcome, answer, executed>>
  <2>1. CASE c \in Notices
    <3>1. Remote!Return(c)
      BY <1>1, <1>4, <2>1 DEF Remote!Return
    <3>. QED
      BY <3>1 DEF Remote!Next
  <2>. QED
    BY <1>1, <1>4, <2>1
<1>. QED
  BY <1>5, <1>6, <1>7, <1>8, <1>9 DEF LockedInv

(* The message that comes next is the reply to the owner's request.         *)
LEMMA ReadStep ==
  ASSUME LockedInv, NEW c \in Calls, Read(c)
  PROVE  LockedInv' /\ (noise = 0 => Remote!Return(c))
<1> DEFINE m == Head(toClient)
<1>1. /\ owner = c /\ written /\ ~broken /\ toClient # <<>>
      /\ toClient' = Tail(toClient) /\ broken' = (m = TooLong)
      /\ UNCHANGED <<toServer, serving, executed, server, noise, closing>>
  BY DEF Read, serveVars
<1>2. /\ toClient' \in Seq(Messages) /\ Len(toClient') = Len(toClient) - 1 /\ Len(toClient) \in Nat \ {0}
      /\ m = toClient[1] /\ m \in Messages /\ 1 \in 1..Len(toClient)
      /\ \A i \in 1..Len(toClient') : toClient'[i] = toClient[i + 1] /\ i + 1 \in 1..Len(toClient)
  <2>1. toClient \in Seq(Messages) /\ Len(toClient) \in Nat \ {0}
    BY <1>1, EmptySeq DEF LockedInv, TypeOK
  <2>2. /\ toClient' \in Seq(Messages) /\ Len(toClient') = Len(toClient) - 1
        /\ m = toClient[1] /\ m \in Messages
        /\ \A i \in 1..Len(toClient') : toClient'[i] = toClient[i + 1]
    BY <1>1, <2>1, HeadTailProperties
  <2>. QED
    BY <2>1, <2>2
<1>3. PICK w \in {"answered", "failed"} :
        /\ Finish(c, w) /\ (w = "failed" <=> m \in {TooLong, Malformed})
        /\ answer' = IF w = "failed" THEN answer ELSE [answer EXCEPT ![c] = m]
  BY DEF Read
<1>4. /\ outcome[c] = "pending" /\ owner' = NoCall /\ written' = FALSE /\ kind' = kind
      /\ outcome' = [outcome EXCEPT ![c] = w]
      /\ outcome' \in [Calls -> {"idle", "pending", "answered", "failed", "sent"}]
      /\ Unsent' \subseteq Unsent
  BY <1>1, <1>3, OwnerReturns DEF LockedInv
<1>5. TypeOK'
  <2>1. answer' \in [Calls -> Messages \cup {NoCall}]
    BY <1>2, <1>3 DEF LockedInv, TypeOK
  <2>2. broken' \in BOOLEAN /\ (broken' => kind = "stdio")
    BY <1>1, <1>2 DEF LockedInv, KindInv
  <2>. QED
    BY <1>1, <1>2, <1>4, <2>1, <2>2 DEF LockedInv, TypeOK
<1>6. OnceInv' /\ KindInv'
  <2>1. OnceInv'
    BY <1>1, <1>4, OnceKept DEF LockedInv
  <2>2. KindInv'
    BY <1>2, <1>4 DEF LockedInv, KindInv
  <2>. QED
    BY <2>1, <2>2
<1>7. ASSUME noise = 0
      PROVE  Pipeline' /\ (w = "answered" => m = c /\ c \in executed)
  <2>1. Pipeline
    BY <1>1, <1>7 DEF LockedInv, OrderInv, Dead
  <2>2. /\ Len(toClient) = 1 /\ (m # TooLong => m = c /\ m \in executed)
        /\ serving = NoCall /\ \A i \in 1..Len(toServer) : toServer[i] \in Notices
    BY <1>1, <1>2, <2>1 DEF Pipeline
  <2>3. toClient' = <<>>
    BY <1>2, <2>2, EmptySeq
  <2>. QED
    BY <1>1, <1>3, <2>2, <2>3 DEF Pipeline
<1>8. noise = 0 => Remote!Return(c)
  <2>1. SUFFICES ASSUME noise = 0 PROVE Remote!Return(c)
    OBVIOUS
  <2>2. CASE w = "failed"
    BY <1>1, <1>3, <1>4, <2>2 DEF Remote!Return
  <2>3. CASE w = "answered"
    BY <1>1, <1>3, <1>4, <1>7, <2>1, <2>3 DEF Remote!Return
  <2>. QED
    BY <1>3, <2>2, <2>3
<1>. QED
  BY <1>1, <1>5, <1>6, <1>7, <1>8 DEF LockedInv, OrderInv

(* The server executes what it takes from the pipe; only the owner can have *)
(* put a request there.                                                     *)
LEMMA ServerReadStep ==
  ASSUME LockedInv, ServerRead
  PROVE  LockedInv' /\ [Remote!Next]_<<outcome, answer, executed>>
<1> DEFINE c == Head(toServer)
<1>1. /\ serving = NoCall /\ toServer # <<>> /\ toServer' = Tail(toServer)
      /\ c \in Notices => UNCHANGED <<serving, executed>>
      /\ c \notin Notices => serving' = c /\ executed' = executed \cup {c}
      /\ UNCHANGED <<kind, outcome, answer, owner, written, toClient, broken, server, noise, closing>>
  BY DEF ServerRead, callVars
<1>2. /\ toServer' \in Seq(Calls) /\ Len(toServer') = Len(toServer) - 1 /\ Len(toServer) \in Nat \ {0}
      /\ c = toServer[1] /\ c \in Calls /\ 1 \in 1..Len(toServer)
      /\ \A i \in 1..Len(toServer') : /\ toServer'[i] = toServer[i + 1]
                                     /\ i + 1 \in 1..Len(toServer) /\ i + 1 # 1
  <2>1. toServer \in Seq(Calls) /\ Len(toServer) \in Nat \ {0}
    BY <1>1, EmptySeq DEF LockedInv, TypeOK
  <2>2. /\ toServer' \in Seq(Calls) /\ Len(toServer') = Len(toServer) - 1
        /\ c = toServer[1] /\ c \in Calls
        /\ \A i \in 1..Len(toServer') : toServer'[i] = toServer[i + 1]
    BY <1>1, <2>1, HeadTailProperties
  <2>. QED
    BY <2>1, <2>2
<1>3. /\ c \notin Unsent /\ c \notin executed
      /\ \A i \in 1..Len(toServer') : toServer'[i] # c
  BY <1>2 DEF LockedInv, OnceInv
<1>4. executed' \subseteq executed \cup {c} /\ (c \in Notices => executed' = executed)
  BY <1>1
<1>5. TypeOK'
  <2>1. serving' \in Calls \cup {NoCall} /\ executed' \subseteq Calls
    BY <1>1, <1>2 DEF LockedInv, TypeOK
  <2>. QED
    BY <1>1, <1>2, <2>1 DEF LockedInv, TypeOK
<1>6. OnceInv'
  <2>1. Unsent' = Unsent
    BY <1>1 DEF Unsent
  <2>2. \A i \in 1..Len(toServer') : toServer'[i] \notin Unsent /\ toServer'[i] \notin executed'
    BY <1>2, <1>3, <1>4 DEF LockedInv, OnceInv
  <2>3. ASSUME NEW i \in 1..Len(toServer'), NEW j \in 1..Len(toServer'), toServer'[j] = toServer'[i]
        PROVE  j = i
    <3>1. j + 1 = i + 1
      BY <1>2, <2>3 DEF LockedInv, OnceInv
    <3>. QED
      BY <1>2, <3>1
  <2>4. \A d \in executed' : d \notin Unsent /\ d \notin Notices
    BY <1>3, <1>4 DEF LockedInv, OnceInv
  <2>. QED
    BY <2>1, <2>2, <2>3, <2>4 DEF OnceInv
<1>7. KindInv'
  BY <1>1 DEF LockedInv, KindInv
<1>8. OrderInv'
  <2>1. ASSUME Pipeline PROVE Pipeline'
    <3>1. CASE c \in Notices
      BY <1>1, <1>2, <2>1, <3>1 DEF Pipeline
    <3>2. CASE c \notin Notices
      <4>1. written /\ c = owner /\ toClient = <<>>
        BY <1>2, <2>1, <3>2 DEF Pipeline
      <4>2. \A i \in 1..Len(toServer') : toServer'[i] \in Notices
        BY <1>2, <1>3, <2>1, <4>1 DEF Pipeline
      <4>. QED
        BY <1>1, <3>2, <4>1, <4>2 DEF Pipeline
    <3>. QED
      BY <3>1, <3>2
  <2>2. Dead => Dead'
    BY <1>1 DEF Dead
  <2>. QED
    BY <1>1, <2>1, <2>2 DEF LockedInv, OrderInv
<1>9. [Remote!Next]_<<outcome, answer, executed>>
  <2>1. CASE c \in Notices
    BY <1>1, <2>1
  <2>2. CASE c \notin Notices
    <3>1. outcome[c] # "idle"
      BY <1>2, <1>3 DEF Unsent
    <3>2. Remote!Execute(c)
      BY <1>1, <1>3, <2>2, <3>1 DEF Remote!Execute
    <3>. QED
      BY <1>2, <3>2 DEF Remote!Next
  <2>. QED
    BY <2>1, <2>2
<1>. QED
  BY <1>5, <1>6, <1>7, <1>8, <1>9 DEF LockedInv

(* A reply takes the place of the request, which was the only one; of what  *)
(* the server writes of its own accord nothing is claimed.                  *)
LEMMA MessageStep ==
  ASSUME LockedInv, ServerReply \/ \E m \in {Notification, Malformed} : ServerNoise(m)
  PROVE  LockedInv' /\ UNCHANGED <<outcome, answer, executed>>
<1> DEFINE Lands(m) ==
      /\ toClient' = Append(toClient, m) /\ (m = TooLong => kind = "stdio")
      /\ \/ /\ serving # NoCall /\ serving' = NoCall /\ noise' = noise
            /\ m # TooLong => m = serving
         \/ serving' = serving /\ noise' = noise + 1 /\ noise < MaxNoise
      /\ UNCHANGED <<kind, outcome, answer, owner, written, toServer, broken, executed, server, closing>>
<1>1. PICK m \in Messages : Lands(m)
  <2>1. CASE ServerReply
    <3>1. serving \in Messages /\ serving # TooLong
      BY <2>1, LockedTransportAssumption DEF ServerReply, LockedInv, TypeOK, Messages
    <3>. QED
      BY <2>1, <3>1, LockedTransportAssumption DEF ServerReply, callVars, Messages
  <2>2. ASSUME NEW m \in {Notification, Malformed}, ServerNoise(m) PROVE m \in Messages /\ Lands(m)
    BY <2>2, LockedTransportAssumption DEF ServerNoise, callVars, Messages
  <2>. QED
    BY <2>1, <2>2
<1>2. /\ toClient' \in Seq(Messages) /\ Len(toClient') = Len(toClient) + 1 /\ Len(toClient) \in Nat
      /\ \A i \in 1..Len(toClient) : toClient'[i] = toClient[i]
      /\ toClient'[Len(toClient) + 1] = m
      /\ \A i \in 1..Len(toClient') : i \in 1..Len(toClient) \/ i = Len(toClient) + 1
  <2>1. toClient \in Seq(Messages) /\ Len(toClient) \in Nat
    BY DEF LockedInv, TypeOK
  <2>2. /\ toClient' \in Seq(Messages) /\ Len(toClient') = Len(toClient) + 1
        /\ \A i \in 1..Len(toClient) : toClient'[i] = toClient[i]
        /\ toClient'[Len(toClient) + 1] = m
    BY <1>1, <2>1, AppendProperties
  <2>. QED
    BY <2>1, <2>2
<1>3. noise \in 0..MaxNoise /\ MaxNoise \in Nat
  BY LockedTransportAssumption DEF LockedInv, TypeOK
<1>4. TypeOK'
  <2>1. noise' \in 0..MaxNoise /\ serving' \in Calls \cup {NoCall}
    BY <1>1, <1>3 DEF LockedInv, TypeOK
  <2>. QED
    BY <1>1, <1>2, <2>1 DEF LockedInv, TypeOK
<1>5. OnceInv'
  <2>1. Unsent' = Unsent
    BY <1>1 DEF Unsent
  <2>. QED
    BY <1>1, <2>1 DEF LockedInv, OnceInv
<1>6. KindInv'
  BY <1>1, <1>2 DEF LockedInv, KindInv
<1>7. OrderInv'
  <2>1. SUFFICES ASSUME noise' = 0 PROVE Dead' \/ Pipeline'
    BY DEF OrderInv
  <2>2. /\ serving # NoCall /\ serving' = NoCall /\ noise = 0
        /\ m # TooLong => m = serving
    BY <1>1, <1>3, <2>1
  <2>3. CASE Dead
    BY <1>1, <2>3 DEF Dead
  <2>4. CASE Pipeline
    <3>1. /\ written /\ serving = owner /\ serving \in executed /\ toClient = <<>>
          /\ \A i \in 1..Len(toServer) : toServer[i] \in Notices
      BY <2>2, <2>4 DEF Pipeline
    <3>2. Len(toClient') = 1 /\ toClient'[1] = m
      BY <1>2, <3>1, EmptySeq
    <3>. QED
      BY <1>1, <2>2, <3>1, <3>2 DEF Pipeline
  <2>. QED
    BY <2>2, <2>3, <2>4 DEF LockedInv, OrderInv
<1>. QED
  BY <1>1, <1>4, <1>5, <1>6, <1>7 DEF LockedInv

(* The server ends, or the transport is closed. *)
LEMMA EndStep ==
  ASSUME LockedInv, ServerEOF \/ ServerExit \/ Close
  PROVE  LockedInv' /\ UNCHANGED <<outcome, answer, executed>>
<1>1. /\ UNCHANGED <<kind, outcome, answer, owner, written, broken, executed, noise>>
      /\ serving' \in {serving, NoCall} /\ toServer' \in {toServer, <<>>} /\ toClient' \in {toClient, <<>>}
      /\ server' \in {"up", "down"} /\ closing' \in {"open", "stdin", "closed"}
      /\ closing # "open" => closing' # "open"
      /\ server = "down" => server' = "down"
  BY DEF ServerEOF, ServerExit, Close, CloseStdin, Wait, CloseConnection, callVars, serveVars, LockedInv, TypeOK
<1>2. /\ Len(<<>>) = 0 /\ toServer' \in Seq(Calls) /\ toClient' \in Seq(Messages)
      /\ serving' \in Calls \cup {NoCall}
  <2>1. toServer \in Seq(Calls) /\ toClient \in Seq(Messages) /\ serving \in Calls \cup {NoCall}
    BY DEF LockedInv, TypeOK
  <2>2. Len(<<>>) = 0 /\ <<>> \in Seq(Calls) /\ <<>> \in Seq(Messages)
    OBVIOUS
  <2>3. toServer' \in Seq(Calls)
    BY <1>1, <2>1, <2>2
  <2>4. toClient' \in Seq(Messages)
    BY <1>1, <2>1, <2>2
  <2>5. serving' \in Calls \cup {NoCall}
    BY <1>1, <2>1
  <2>. QED
    BY <2>2, <2>3, <2>4, <2>5
<1>3. TypeOK'
  BY <1>1, <1>2 DEF LockedInv, TypeOK
<1>4. OnceInv'
  <2>1. Unsent' = Unsent
    BY <1>1 DEF Unsent
  <2>2. CASE toServer' = toServer
    BY <1>1, <2>1, <2>2 DEF LockedInv, OnceInv
  <2>3. CASE toServer' = <<>>
    BY <1>1, <2>1, <2>3 DEF LockedInv, OnceInv
  <2>. QED
    BY <1>1, <2>2, <2>3
<1>5. KindInv'
  BY <1>1, <1>2 DEF LockedInv, KindInv
<1>6. OrderInv'
  <2>1. Dead => Dead'
    BY <1>1 DEF Dead
  <2>2. ASSUME Pipeline PROVE Pipeline'
    <3>1. \A i \in 1..Len(toServer') : toServer'[i] \notin Notices =>
            written' /\ toServer'[i] = owner' /\ serving' = NoCall /\ toClient' = <<>>
      BY <1>1, <1>2, <2>2 DEF Pipeline
    <3>2. /\ serving' # NoCall => /\ written' /\ serving' = owner' /\ serving' \in executed'
                                  /\ toClient' = <<>>
          /\ toClient' # <<>> => /\ written' /\ Len(toClient') = 1
                                 /\ toClient'[1] # TooLong => toClient'[1] = owner' /\ toClient'[1] \in executed'
      BY <1>1, <2>2 DEF Pipeline
    <3>. QED
      BY <3>1, <3>2 DEF Pipeline
  <2>. QED
    BY <1>1, <2>1, <2>2 DEF LockedInv, OrderInv
<1>. QED
  BY <1>1, <1>3, <1>4, <1>5, <1>6 DEF LockedInv

-----------------------------------------------------------------------------
LEMMA LockedStep ==
  LockedInv /\ [Next]_vars =>
    LockedInv' /\ (noise' = 0 => [Remote!Next]_<<outcome, answer, executed>>)
<1>. SUFFICES ASSUME LockedInv, [Next]_vars
     PROVE  LockedInv' /\ (noise' = 0 => [Remote!Next]_<<outcome, answer, executed>>)
  OBVIOUS
<1>1. CASE UNCHANGED vars
  <2>1. TypeOK'
    BY <1>1 DEF vars, callVars, serveVars, LockedInv, TypeOK
  <2>2. OnceInv' /\ KindInv' /\ OrderInv'
    BY <1>1 DEF vars, callVars, serveVars, LockedInv, OnceInv, Unsent, KindInv, OrderInv, Dead, Pipeline
  <2>. QED
    BY <1>1, <2>1, <2>2 DEF vars, callVars, serveVars, LockedInv
<1>2. ASSUME NEW c \in Calls, Begin(c) \/ Lock(c) \/ Write(c)
      PROVE  LockedInv' /\ [Remote!Next]_<<outcome, answer, executed>>
  BY <1>2, EntryStep, WriteStep
<1>3. ASSUME NEW c \in Calls, WriteFails(c) \/ ReadFails(c)
      PROVE  LockedInv' /\ [Remote!Next]_<<outcome, answer, executed>>
  BY <1>3, FailureStep DEF Remote!Next
<1>4. ASSUME NEW c \in Calls, Read(c)
      PROVE  LockedInv' /\ (noise' = 0 => [Remote!Next]_<<outcome, answer, executed>>)
  <2>1. noise' = noise
    BY <1>4 DEF Read, serveVars
  <2>. QED
    BY <1>4, <2>1, ReadStep DEF Remote!Next
<1>5. CASE Server \/ ServerExit \/ Close \/ \E m \in {Notification, Malformed} : ServerNoise(m)
  BY <1>5, ServerReadStep, MessageStep, EndStep DEF Server
<1>. QED
  BY <1>1, <1>2, <1>3, <1>4, <1>5 DEF Next, Call

(* Every variable of the transports keeps its type. *)
THEOREM LockedTypes == Spec => []TypeOK
<1>1. LockedInv => TypeOK
  BY DEF LockedInv
<1>. QED
  BY <1>1, LockedInit, LockedStep, PTL DEF Spec

(* As long as the server writes nothing of its own accord, StdioTransport    *)
(* and WebSocketTransport give a caller the reply to its own request or an   *)
(* error, and nothing is executed twice, although neither compares ids:      *)
(* whatever fails, ends or is closed, and for any number of callers          *)
(* (stdio.go:66-110, websocket.go:40-75).                                    *)
THEOREM LockedImplementsCalls == Spec => RepliesToTheirCallers
<1>1. Init => Remote!Init
  BY DEF Init, Remote!Init
<1>2. LockedInv /\ [Next]_vars =>
        [noise' = 0 => [Remote!Next]_<<outcome, answer, executed>>]_vars
  BY LockedStep
<1>. QED
  BY <1>1, <1>2, LockedInit, LockedStep, PTL DEF Spec, RepliesToTheirCallers

-----------------------------------------------------------------------------
(* HTTP. A call is executed while it is at the server and not before, and    *)
(* carries a header the function gave since it began.                        *)
PostedInv == \A c \in Posts :
  /\ executions[c] <= 1
  /\ post[c].at \in {"idle", "auth", "lock", "post"} => executions[c] = 0
  /\ post[c].at \in {"reply", "answered", "sent"} => executions[c] = 1
HeaderInv == \A c \in Posts :
  httpKind = "sse" /\ (post[c].at \in {"lock", "post"} \/ executions[c] = 1) =>
    post[c].header \in post[c].began..header
BeganInv == \A c \in Posts : post[c].began <= header
HttpInv == HttpTypeOK /\ PostedInv /\ HeaderInv /\ BeganInv

LEMMA HttpInitInv == HttpInit => HttpInv
<1> SUFFICES ASSUME HttpInit PROVE HttpInv
  OBVIOUS
<1>1. HttpTypeOK
  BY HttpAssumption DEF HttpInit, HttpTypeOK, NotPosted
<1>2. PostedInv /\ HeaderInv /\ BeganInv
  BY DEF HttpInit, PostedInv, HeaderInv, BeganInv, NotPosted
<1> QED
  BY <1>1, <1>2 DEF HttpInv

LEMMA HttpRests == HttpInv /\ UNCHANGED httpVars => HttpInv'
  BY DEF HttpInv, HttpTypeOK, PostedInv, HeaderInv, BeganInv, httpVars

LEMMA HttpStep == HttpInv /\ HttpNext => HttpInv'
<1> SUFFICES ASSUME HttpInv, HttpNext PROVE HttpInv'
  OBVIOUS
<1> USE DEF HttpInv
<1>1. CASE NewHeader
  <2>1. HttpTypeOK'
    BY <1>1, HttpAssumption DEF NewHeader, HttpTypeOK
  <2>2. PostedInv' /\ HeaderInv' /\ BeganInv'
    BY <1>1 DEF NewHeader, HttpTypeOK, PostedInv, HeaderInv, BeganInv
  <2> QED
    BY <2>1, <2>2
<1>2. ASSUME NEW c \in Posts, BeginPost(c) PROVE HttpInv'
  <2>1. HttpTypeOK'
    BY <1>2, HttpAssumption DEF BeginPost, HttpTypeOK
  <2>2. post[c].at = "idle"
    BY <1>2 DEF BeginPost, NotPosted
  <2>3. PostedInv' /\ HeaderInv' /\ BeganInv'
    BY <1>2, <2>2 DEF BeginPost, HttpTypeOK, PostedInv, HeaderInv, BeganInv
  <2> QED
    BY <2>1, <2>3
<1>3. ASSUME NEW c \in Posts, ResolveAuth(c) PROVE HttpInv'
  <2>1. HttpTypeOK'
    BY <1>3, HttpAssumption DEF ResolveAuth, HttpTypeOK
  <2>2. post[c].began <= header
    BY HttpAssumption DEF BeganInv
  <2>3. PostedInv' /\ HeaderInv' /\ BeganInv'
    BY <1>3, <2>2, HttpAssumption DEF ResolveAuth, HttpTypeOK, PostedInv, HeaderInv, BeganInv
  <2> QED
    BY <2>1, <2>3
<1>4. ASSUME NEW c \in Posts, TakeLock(c) PROVE HttpInv'
  <2>1. HttpTypeOK'
    BY <1>4 DEF TakeLock, HttpTypeOK
  <2>2. PostedInv' /\ HeaderInv' /\ BeganInv'
    BY <1>4 DEF TakeLock, HttpTypeOK, PostedInv, HeaderInv, BeganInv
  <2> QED
    BY <2>1, <2>2
<1>5. ASSUME NEW c \in Posts, ReachServer(c) PROVE HttpInv'
  <2>1. HttpTypeOK'
    BY <1>5 DEF ReachServer, HttpTypeOK
  <2>2. PostedInv' /\ HeaderInv' /\ BeganInv'
    BY <1>5 DEF ReachServer, HttpTypeOK, PostedInv, HeaderInv, BeganInv
  <2> QED
    BY <2>1, <2>2
<1>6. ASSUME NEW c \in Posts, NEW what \in {"answered", "sent", "failed"}, PostReturns(c, what),
             post[c].at \in {"post", "reply"}, post[c].at = "post" => what = "failed"
      PROVE  HttpInv'
  <2>1. HttpTypeOK'
    BY <1>6 DEF PostReturns, HttpTypeOK
  <2>2. PostedInv' /\ HeaderInv' /\ BeganInv'
    BY <1>6 DEF PostReturns, HttpTypeOK, PostedInv, HeaderInv, BeganInv
  <2> QED
    BY <2>1, <2>2
<1> QED
  BY <1>1, <1>2, <1>3, <1>4, <1>5, <1>6 DEF HttpNext, Reply, GiveUp

-----------------------------------------------------------------------------
(* Language servers. A frame waits in the channel of the request it names,   *)
(* and only once that request is no longer registered.                       *)
FramesInv == frames \in Seq(FrameSet)
TheirsInv ==
  /\ \A r \in Requests : lspAnswer[r].id \in {0, r} /\ channel[r].id \in {0, r}
  /\ \A r \in lspPending : lspCall[r] \in {"registered", "writing", "waiting"} /\ channel[r] = NoFrame
  /\ \A r \in Requests : lspCall[r] = "idle" => channel[r] = NoFrame
LspInv == LspTypeOK /\ FramesInv /\ TheirsInv /\ ShutdownEndsTheServer

LEMMA LspInitInv == LspInit => LspInv
<1> SUFFICES ASSUME LspInit PROVE LspInv
  OBVIOUS
<1>1. LspTypeOK /\ FramesInv
  <2>1. hung \in BOOLEAN
    BY Zenon DEF LspInit
  <2> QED
    BY <2>1 DEF LspInit, LspTypeOK, FramesInv, FrameSet
<1>2. TheirsInv /\ ShutdownEndsTheServer
  BY DEF LspInit, TheirsInv, ShutdownEndsTheServer, NoFrame
<1> QED
  BY <1>1, <1>2 DEF LspInv

LEMMA LspRests == LspInv /\ UNCHANGED lspVars => LspInv'
  BY DEF LspInv, LspTypeOK, FramesInv, TheirsInv, ShutdownEndsTheServer, lspVars

LEMMA LspStep == LspInv /\ LspNext => LspInv'
<1> SUFFICES ASSUME LspInv, LspNext PROVE LspInv'
  OBVIOUS
<1> USE DEF LspInv
<1>1. ASSUME NEW r \in Requests, Register(r) PROVE LspInv'
  <2>1. LspTypeOK' /\ FramesInv'
    BY <1>1 DEF Register, LspTypeOK, FramesInv
  <2>2. TheirsInv'
    BY <1>1 DEF Register, LspTypeOK, TheirsInv, NoFrame
  <2>3. ShutdownEndsTheServer'
    BY <1>1 DEF Register, LspTypeOK, ShutdownEndsTheServer
  <2> QED
    BY <2>1, <2>2, <2>3
<1>2. ASSUME NEW r \in Requests, WriteFrame(r) PROVE LspInv'
  <2>1. LspTypeOK' /\ FramesInv'
    BY <1>2 DEF WriteFrame, EndCall, LspTypeOK, FramesInv
  <2>2. TheirsInv'
    BY <1>2 DEF WriteFrame, EndCall, LspTypeOK, TheirsInv, NoFrame
  <2>3. ShutdownEndsTheServer'
    BY <1>2 DEF WriteFrame, EndCall, LspTypeOK, ShutdownEndsTheServer
  <2> QED
    BY <2>1, <2>2, <2>3
<1>3. ASSUME NEW r \in Requests, TakeAnswer(r) PROVE LspInv'
  <2>1. LspTypeOK' /\ FramesInv'
    BY <1>3 DEF TakeAnswer, LspTypeOK, FramesInv
  <2>2. TheirsInv'
    BY <1>3 DEF TakeAnswer, LspTypeOK, TheirsInv, NoFrame
  <2>3. ShutdownEndsTheServer'
    BY <1>3 DEF TakeAnswer, LspTypeOK, ShutdownEndsTheServer
  <2> QED
    BY <2>1, <2>2, <2>3
<1>4. ASSUME NEW r \in Requests, Abandon(r) PROVE LspInv'
  <2>1. LspTypeOK' /\ FramesInv'
    BY <1>4 DEF Abandon, EndCall, LspTypeOK, FramesInv
  <2>2. TheirsInv'
    BY <1>4 DEF Abandon, EndCall, LspTypeOK, TheirsInv, NoFrame
  <2>3. ShutdownEndsTheServer'
    BY <1>4 DEF Abandon, EndCall, LspTypeOK, ShutdownEndsTheServer
  <2> QED
    BY <2>1, <2>2, <2>3
<1>5. ASSUME NEW r \in Requests, Answer(r) PROVE LspInv'
  <2>1. LspTypeOK' /\ FramesInv'
    <3>0. \A from \in {"answer", "error"} : [id |-> r, from |-> from] \in FrameSet
      BY DEF FrameSet
    <3>1. PICK f \in FrameSet : frames' = Append(frames, f)
      BY <1>5, <3>0 DEF Answer
    <3>2. frames' \in Seq(FrameSet) /\ \A i \in DOMAIN frames' : frames'[i] \in FrameSet
      BY <3>1 DEF FramesInv
    <3> QED
      BY <1>5, <3>2 DEF Answer, LspTypeOK, FramesInv
  <2>2. TheirsInv'
    BY <1>5 DEF Answer, LspTypeOK, TheirsInv, NoFrame
  <2>3. ShutdownEndsTheServer'
    BY <1>5 DEF Answer, LspTypeOK, ShutdownEndsTheServer
  <2> QED
    BY <2>1, <2>2, <2>3
<1>6. ASSUME NEW r \in Requests, Ask(r) PROVE LspInv'
  <2>1. LspTypeOK' /\ FramesInv'
    <3>0. [id |-> r, from |-> "ask"] \in FrameSet
      BY DEF FrameSet
    <3>1. PICK f \in FrameSet : frames' = Append(frames, f)
      BY <1>6, <3>0 DEF Ask
    <3>2. frames' \in Seq(FrameSet) /\ \A i \in DOMAIN frames' : frames'[i] \in FrameSet
      BY <3>1 DEF FramesInv
    <3> QED
      BY <1>6, <3>2 DEF Ask, LspTypeOK, FramesInv
  <2>2. TheirsInv'
    BY <1>6 DEF Ask, LspTypeOK, TheirsInv, NoFrame
  <2>3. ShutdownEndsTheServer'
    BY <1>6 DEF Ask, LspTypeOK, ShutdownEndsTheServer
  <2> QED
    BY <2>1, <2>2, <2>3
<1>7. CASE ReadFrame
  <2>1. LspTypeOK' /\ FramesInv'
    <3>1. /\ Head(frames) \in FrameSet /\ frames' \in Seq(FrameSet)
          /\ \A i \in DOMAIN frames' : frames'[i] \in FrameSet
      BY <1>7 DEF ReadFrame, FramesInv
    <3>2. lspPending' \subseteq Requests /\ channel' \in [Requests -> FrameSet]
      BY <1>7, <3>1 DEF ReadFrame, LspTypeOK
    <3>3. LspTypeOK'
      BY <1>7, <3>1, <3>2 DEF ReadFrame, LspTypeOK
    <3> QED
      BY <3>1, <3>3 DEF FramesInv
  <2>2. TheirsInv'
    BY <1>7 DEF ReadFrame, LspTypeOK, TheirsInv, NoFrame
  <2>3. ShutdownEndsTheServer'
    BY <1>7 DEF ReadFrame, LspTypeOK, ShutdownEndsTheServer
  <2> QED
    BY <2>1, <2>2, <2>3
<1>8. CASE ReadLoopEnds
  <2>1. LspTypeOK' /\ FramesInv'
    BY <1>8 DEF ReadLoopEnds, LspTypeOK, FramesInv
  <2>2. TheirsInv'
    BY <1>8 DEF ReadLoopEnds, LspTypeOK, TheirsInv, NoFrame
  <2>3. ShutdownEndsTheServer'
    BY <1>8 DEF ReadLoopEnds, LspTypeOK, ShutdownEndsTheServer
  <2> QED
    BY <2>1, <2>2, <2>3
<1>9. CASE Exit
  <2>1. LspTypeOK' /\ FramesInv'
    BY <1>9 DEF Exit, LspTypeOK, FramesInv
  <2>2. TheirsInv'
    BY <1>9 DEF Exit, LspTypeOK, TheirsInv, NoFrame
  <2>3. ShutdownEndsTheServer'
    BY <1>9 DEF Exit, LspTypeOK, ShutdownEndsTheServer
  <2> QED
    BY <2>1, <2>2, <2>3
<1>10. CASE ShutdownRefused
  <2>1. LspTypeOK' /\ FramesInv'
    BY <1>10 DEF ShutdownRefused, Kill, LspTypeOK, FramesInv
  <2>2. TheirsInv'
    BY <1>10 DEF ShutdownRefused, Kill, LspTypeOK, TheirsInv, NoFrame
  <2>3. ShutdownEndsTheServer'
    BY <1>10 DEF ShutdownRefused, Kill, LspTypeOK, ShutdownEndsTheServer
  <2> QED
    BY <2>1, <2>2, <2>3
<1>11. CASE NotifyExit
  <2>1. LspTypeOK' /\ FramesInv'
    BY <1>11 DEF NotifyExit, Kill, LspTypeOK, FramesInv
  <2>2. TheirsInv'
    BY <1>11 DEF NotifyExit, Kill, LspTypeOK, TheirsInv, NoFrame
  <2>3. ShutdownEndsTheServer'
    BY <1>11 DEF NotifyExit, Kill, LspTypeOK, ShutdownEndsTheServer
  <2> QED
    BY <2>1, <2>2, <2>3
<1>12. CASE WaitExit
  <2>1. LspTypeOK' /\ FramesInv'
    BY <1>12 DEF WaitExit, Kill, LspTypeOK, FramesInv
  <2>2. TheirsInv'
    BY <1>12 DEF WaitExit, Kill, LspTypeOK, TheirsInv, NoFrame
  <2>3. ShutdownEndsTheServer'
    BY <1>12 DEF WaitExit, Kill, LspTypeOK, ShutdownEndsTheServer
  <2> QED
    BY <2>1, <2>2, <2>3
<1>13. ASSUME NEW r \in Requests, WriteBlocks(r) PROVE LspInv'
  <2>1. LspTypeOK' /\ FramesInv'
    BY <1>13 DEF WriteBlocks, LspTypeOK, FramesInv
  <2>2. TheirsInv'
    BY <1>13 DEF WriteBlocks, LspTypeOK, TheirsInv, NoFrame
  <2>3. ShutdownEndsTheServer'
    BY <1>13 DEF WriteBlocks, LspTypeOK, ShutdownEndsTheServer
  <2> QED
    BY <2>1, <2>2, <2>3
<1>14. CASE Hangs
  <2>1. LspTypeOK' /\ FramesInv'
    BY <1>14 DEF Hangs, LspTypeOK, FramesInv
  <2>2. TheirsInv'
    BY <1>14 DEF Hangs, LspTypeOK, TheirsInv, NoFrame
  <2>3. ShutdownEndsTheServer'
    BY <1>14 DEF Hangs, LspTypeOK, ShutdownEndsTheServer
  <2> QED
    BY <2>1, <2>2, <2>3
<1>15. CASE StartFails
  <2>1. LspTypeOK' /\ FramesInv'
    BY <1>15 DEF StartFails, Kill, LspTypeOK, FramesInv
  <2>2. TheirsInv'
    BY <1>15 DEF StartFails, Kill, LspTypeOK, TheirsInv, NoFrame
  <2>3. ShutdownEndsTheServer'
    BY <1>15 DEF StartFails, Kill, LspTypeOK, ShutdownEndsTheServer
  <2> QED
    BY <2>1, <2>2, <2>3
<1>16. CASE NotifyBlocks
  <2>1. LspTypeOK' /\ FramesInv'
    BY <1>16 DEF NotifyBlocks, LspTypeOK, FramesInv
  <2>2. TheirsInv'
    BY <1>16 DEF NotifyBlocks, LspTypeOK, TheirsInv, NoFrame
  <2>3. ShutdownEndsTheServer'
    BY <1>16 DEF NotifyBlocks, LspTypeOK, ShutdownEndsTheServer
  <2> QED
    BY <2>1, <2>2, <2>3
<1> QED
  BY <1>1, <1>2, <1>3, <1>4, <1>5, <1>6, <1>7, <1>8, <1>9, <1>10, <1>11, <1>12, <1>13, <1>14, <1>15, <1>16 DEF LspNext

-----------------------------------------------------------------------------
(* The browser login. No flow is under way before the screen of the flow,    *)
(* and while one waits it has no ending yet.                                 *)
Handlers == {NotSent} \cup [brought : Brought, at : {"sending", "done"}]
HandlersInv == handler \in [Callbacks -> Handlers] /\ result \in Seq(Callbacks)
WaitingInv ==
  /\ screen \in {"input", "provider", "method", "api_key"} => flow = "none"
  /\ flow = "waiting" => ending = "none"
LoginInv == LoginTypeOK /\ HandlersInv /\ WaitingInv /\ OnlyOwnCode

LEMMA LoginInitInv == LoginInit => LoginInv
<1> SUFFICES ASSUME LoginInit PROVE LoginInv
  OBVIOUS
<1>1. LoginTypeOK /\ HandlersInv
  BY DEF LoginInit, LoginTypeOK, HandlersInv, Handlers, LoginProviders
<1>2. WaitingInv /\ OnlyOwnCode
  BY DEF LoginInit, WaitingInv, OnlyOwnCode
<1> QED
  BY <1>1, <1>2 DEF LoginInv

LEMMA LoginRests == LoginInv /\ UNCHANGED loginVars => LoginInv'
  BY DEF LoginInv, LoginTypeOK, HandlersInv, WaitingInv, OnlyOwnCode, loginVars

LEMMA LoginStep == LoginInv /\ LoginNext => LoginInv'
<1> SUFFICES ASSUME LoginInv, LoginNext PROVE LoginInv'
  OBVIOUS
<1> USE DEF LoginInv
<1>1. CASE SlashLogin
  <2>1. LoginTypeOK'
    BY <1>1 DEF SlashLogin, flowVars, LoginTypeOK, HandlersInv, LoginProviders
  <2>2. HandlersInv'
    BY <1>1 DEF SlashLogin, flowVars, HandlersInv, Handlers
  <2>3. WaitingInv'
    BY <1>1 DEF SlashLogin, flowVars, LoginTypeOK, WaitingInv
  <2>4. OnlyOwnCode'
    BY <1>1, LoginAssumption DEF SlashLogin, flowVars, LoginTypeOK, HandlersInv, Handlers, WaitingInv, OnlyOwnCode, NotSent
  <2> QED
    BY <2>1, <2>2, <2>3, <2>4
<1>2. CASE PickProvider
  <2>1. LoginTypeOK'
    BY <1>2 DEF PickProvider, flowVars, LoginTypeOK, HandlersInv, LoginProviders
  <2>2. HandlersInv'
    BY <1>2 DEF PickProvider, flowVars, HandlersInv, Handlers
  <2>3. WaitingInv'
    BY <1>2 DEF PickProvider, flowVars, LoginTypeOK, WaitingInv
  <2>4. OnlyOwnCode'
    BY <1>2, LoginAssumption DEF PickProvider, flowVars, LoginTypeOK, HandlersInv, Handlers, WaitingInv, OnlyOwnCode, NotSent
  <2> QED
    BY <2>1, <2>2, <2>3, <2>4
<1>3. CASE PickMethod
  <2>1. LoginTypeOK'
    <3>1. CASE UNCHANGED flowVars
      BY <1>3, <3>1 DEF PickMethod, flowVars, LoginTypeOK
    <3>2. CASE /\ screen' = "oauth" /\ flow' = "waiting" /\ taken' = 0 /\ result' = <<>> /\ ending' = "none"
               /\ handler' = [k \in Callbacks |-> NotSent]
      BY <1>3, <3>2 DEF PickMethod, LoginTypeOK
    <3> QED
      BY <1>3, <3>1, <3>2 DEF PickMethod
  <2>2. HandlersInv'
    <3>1. CASE UNCHANGED flowVars
      BY <3>1 DEF flowVars, HandlersInv
    <3>2. CASE result' = <<>> /\ handler' = [k \in Callbacks |-> NotSent]
      BY <3>2 DEF HandlersInv, Handlers
    <3> QED
      BY <1>3, <3>1, <3>2 DEF PickMethod
  <2>3. WaitingInv'
    BY <1>3 DEF PickMethod, flowVars, LoginTypeOK, WaitingInv
  <2>4. OnlyOwnCode'
    BY <1>3, LoginAssumption DEF PickMethod, flowVars, LoginTypeOK, HandlersInv, Handlers, WaitingInv, OnlyOwnCode, NotSent
  <2> QED
    BY <2>1, <2>2, <2>3, <2>4
<1>4. CASE Escape
  <2>1. LoginTypeOK'
    BY <1>4 DEF Escape, flowVars, LoginTypeOK, HandlersInv, LoginProviders
  <2>2. HandlersInv'
    BY <1>4 DEF Escape, flowVars, HandlersInv, Handlers
  <2>3. WaitingInv'
    BY <1>4 DEF Escape, flowVars, LoginTypeOK, WaitingInv
  <2>4. OnlyOwnCode'
    BY <1>4, LoginAssumption DEF Escape, flowVars, LoginTypeOK, HandlersInv, Handlers, WaitingInv, OnlyOwnCode, NotSent
  <2> QED
    BY <2>1, <2>2, <2>3, <2>4
<1>5. CASE EnterKey
  <2>1. LoginTypeOK'
    BY <1>5 DEF EnterKey, flowVars, LoginTypeOK, HandlersInv, LoginProviders
  <2>2. HandlersInv'
    BY <1>5 DEF EnterKey, flowVars, HandlersInv, Handlers
  <2>3. WaitingInv'
    BY <1>5 DEF EnterKey, flowVars, LoginTypeOK, WaitingInv
  <2>4. OnlyOwnCode'
    BY <1>5, LoginAssumption DEF EnterKey, flowVars, LoginTypeOK, HandlersInv, Handlers, WaitingInv, OnlyOwnCode, NotSent
  <2> QED
    BY <2>1, <2>2, <2>3, <2>4
<1>6. CASE CtrlC
  <2>1. LoginTypeOK'
    BY <1>6 DEF CtrlC, flowVars, LoginTypeOK, HandlersInv, LoginProviders
  <2>2. HandlersInv'
    BY <1>6 DEF CtrlC, flowVars, HandlersInv, Handlers
  <2>3. WaitingInv'
    BY <1>6 DEF CtrlC, flowVars, LoginTypeOK, WaitingInv
  <2>4. OnlyOwnCode'
    BY <1>6, LoginAssumption DEF CtrlC, flowVars, LoginTypeOK, HandlersInv, Handlers, WaitingInv, OnlyOwnCode, NotSent
  <2> QED
    BY <2>1, <2>2, <2>3, <2>4
<1>7. CASE TakeResult
  <2>1. LoginTypeOK'
    BY <1>7 DEF TakeResult, LoginTypeOK, HandlersInv, LoginProviders
  <2>2. HandlersInv'
    BY <1>7 DEF TakeResult, HandlersInv, Handlers
  <2>3. WaitingInv'
    BY <1>7 DEF TakeResult, LoginTypeOK, WaitingInv
  <2>4. OnlyOwnCode'
    BY <1>7, LoginAssumption DEF TakeResult, LoginTypeOK, HandlersInv, Handlers, WaitingInv, OnlyOwnCode, NotSent
  <2> QED
    BY <2>1, <2>2, <2>3, <2>4
<1>8. CASE FlowTimeout
  <2>1. LoginTypeOK'
    BY <1>8 DEF FlowTimeout, LoginTypeOK, HandlersInv, LoginProviders
  <2>2. HandlersInv'
    BY <1>8 DEF FlowTimeout, HandlersInv, Handlers
  <2>3. WaitingInv'
    BY <1>8 DEF FlowTimeout, LoginTypeOK, WaitingInv
  <2>4. OnlyOwnCode'
    BY <1>8, LoginAssumption DEF FlowTimeout, LoginTypeOK, HandlersInv, Handlers, WaitingInv, OnlyOwnCode, NotSent
  <2> QED
    BY <2>1, <2>2, <2>3, <2>4
<1>9. CASE ExchangeCode
  <2>1. LoginTypeOK'
    BY <1>9 DEF ExchangeCode, LoginTypeOK, HandlersInv, LoginProviders
  <2>2. HandlersInv'
    BY <1>9 DEF ExchangeCode, HandlersInv, Handlers
  <2>3. WaitingInv'
    BY <1>9 DEF ExchangeCode, LoginTypeOK, WaitingInv
  <2>4. OnlyOwnCode'
    BY <1>9, LoginAssumption DEF ExchangeCode, LoginTypeOK, HandlersInv, Handlers, WaitingInv, OnlyOwnCode, NotSent
  <2> QED
    BY <2>1, <2>2, <2>3, <2>4
<1>10. CASE Shutdown
  <2>1. LoginTypeOK'
    BY <1>10 DEF Shutdown, LoginTypeOK, HandlersInv, LoginProviders
  <2>2. HandlersInv'
    BY <1>10 DEF Shutdown, HandlersInv, Handlers
  <2>3. WaitingInv'
    BY <1>10 DEF Shutdown, LoginTypeOK, WaitingInv
  <2>4. OnlyOwnCode'
    BY <1>10, LoginAssumption DEF Shutdown, LoginTypeOK, HandlersInv, Handlers, WaitingInv, OnlyOwnCode, NotSent
  <2> QED
    BY <2>1, <2>2, <2>3, <2>4
<1>11. ASSUME NEW k \in Callbacks, CallbackArrives(k) PROVE LoginInv'
  <2>1. LoginTypeOK'
    BY <1>11 DEF CallbackArrives, LoginTypeOK, HandlersInv, LoginProviders
  <2>2. HandlersInv'
    BY <1>11 DEF CallbackArrives, HandlersInv, Handlers
  <2>3. WaitingInv'
    BY <1>11 DEF CallbackArrives, LoginTypeOK, WaitingInv
  <2>4. OnlyOwnCode'
    BY <1>11, LoginAssumption DEF CallbackArrives, LoginTypeOK, HandlersInv, Handlers, WaitingInv, OnlyOwnCode, NotSent
  <2> QED
    BY <2>1, <2>2, <2>3, <2>4
<1>12. ASSUME NEW k \in Callbacks, HandlerSends(k) PROVE LoginInv'
  <2>0. /\ handler[k] \in [brought : Brought, at : {"sending", "done"}]
        /\ handler' = [handler EXCEPT ![k] = [handler[k] EXCEPT !.at = "done"]] /\ result' = <<k>>
        /\ UNCHANGED <<screen, pick, flow, taken, ending, config>>
    BY <1>12 DEF HandlerSends, HandlersInv, Handlers, NotSent
  <2>a. PICK one \in [brought : Brought, at : {"sending", "done"}] : handler' = [handler EXCEPT ![k] = one]
    BY <2>0
  <2>b. \A j \in Callbacks : handler'[j] = handler[j] \/ handler'[j] \in [brought : Brought, at : {"sending", "done"}]
    BY <2>a DEF HandlersInv
  <2>1. LoginTypeOK'
    BY <2>0, <2>b DEF LoginTypeOK
  <2>2. HandlersInv'
    BY <2>0, <2>a DEF HandlersInv, Handlers
  <2>3. WaitingInv'
    BY <1>12 DEF HandlerSends, LoginTypeOK, WaitingInv
  <2>4. OnlyOwnCode'
    BY <1>12, LoginAssumption DEF HandlerSends, LoginTypeOK, HandlersInv, Handlers, WaitingInv, OnlyOwnCode, NotSent
  <2> QED
    BY <2>1, <2>2, <2>3, <2>4
<1> QED
  BY <1>1, <1>2, <1>3, <1>4, <1>5, <1>6, <1>7, <1>8, <1>9, <1>10, <1>11, <1>12 DEF LoginNext

-----------------------------------------------------------------------------
(* The stream of an answer. An end that is not the end the server meant puts *)
(* an error behind whatever is in the channel: until the turn has met it,    *)
(* the error is on its way.                                                  *)
Kinds == {"data", "finish", "error", "garbage", "[DONE]", "keepalive"}
StreamEvents == {"data", "stop", "error"}
RequestSet == [at : {"trying", "backoff", "open", "error"}, fault : Faults \cup {"none", "cancelled"}, retryable : BOOLEAN]
Has(s, e) == \E i \in 1..Len(s) : s[i] = e

StreamTypes ==
  /\ wire \in Seq(Kinds) /\ chan \in Seq(StreamEvents) /\ toSend \in Seq(StreamEvents)
  /\ finished \in BOOLEAN /\ leaving \in BOOLEAN /\ saw \in {"nothing", "finish", "[DONE]"}
BackoffInv == request.at = "backoff" => attempt < MaxAttempts
SaidInv ==
  /\ \A i \in 1..Len(wire) : wire[i] \in {"finish", "[DONE]"} => finished
  /\ saw # "nothing" => finished
StageInv ==
  /\ request.at # "open" => reader = "none"
  /\ leaving => reader \in {"send", "done"}
  /\ reader = "done" => toSend = <<>> /\ (leaving \/ ctx = "cancelled")
  /\ turn = "committed" => reader = "done" /\ chan = <<>>
Ended == (upstream = "eof" \/ saw = "[DONE]") /\ (dialect = "chat" => finished)
OnItsWay == leaving /\ ctx = "live" /\ turn # "failed" => Has(chan, "error") \/ Has(toSend, "error") \/ Ended
ReaderInv == ReaderTypeOK /\ StreamTypes /\ BackoffInv /\ SaidInv /\ StageInv /\ OnItsWay

LEMMA HasAppend ==
  ASSUME NEW S, NEW s \in Seq(S), NEW x \in S, NEW e
  PROVE  Has(Append(s, x), e) <=> Has(s, e) \/ x = e
<1>1. /\ Len(Append(s, x)) = Len(s) + 1 /\ Append(s, x)[Len(s) + 1] = x
      /\ \A i \in 1..Len(s) : Append(s, x)[i] = s[i]
  OBVIOUS
<1>2. Len(s) \in Nat
  OBVIOUS
<1> QED
  BY <1>1, <1>2 DEF Has

LEMMA HasTail ==
  ASSUME NEW S, NEW s \in Seq(S), s # <<>>, NEW e
  PROVE  Has(s, e) <=> Head(s) = e \/ Has(Tail(s), e)
<1>1. Len(s) \in Nat \ {0} /\ Len(Tail(s)) = Len(s) - 1 /\ Head(s) = s[1]
  OBVIOUS
<1>2. \A i \in 1..(Len(s) - 1) : Tail(s)[i] = s[i + 1]
  OBVIOUS
<1>3. ASSUME Has(s, e) PROVE Head(s) = e \/ Has(Tail(s), e)
  <2>1. PICK i \in 1..Len(s) : s[i] = e
    BY <1>3 DEF Has
  <2>2. CASE i = 1
    BY <1>1, <2>1, <2>2
  <2>3. CASE i # 1
    <3>1. i - 1 \in 1..Len(Tail(s)) /\ Tail(s)[i - 1] = e
      BY <1>1, <1>2, <2>1, <2>3
    <3> QED
      BY <3>1 DEF Has
  <2> QED
    BY <2>2, <2>3
<1>4. ASSUME Head(s) = e \/ Has(Tail(s), e) PROVE Has(s, e)
  BY <1>1, <1>2, <1>4 DEF Has
<1> QED
  BY <1>3, <1>4

LEMMA HasEvents == Has(<<"error">>, "error") /\ ~Has(<<>>, "error")
  BY DEF Has

LEMMA ReaderInitInv == ReaderInit => ReaderInv
<1> SUFFICES ASSUME ReaderInit PROVE ReaderInv
  OBVIOUS
<1>1. ReaderTypeOK
  <2>1. NoRequest \in [at : {"trying", "backoff", "open", "error"}, fault : Faults \cup {"none", "cancelled"}, retryable : BOOLEAN]
    BY DEF NoRequest
  <2>2. 1 \in 1..MaxAttempts /\ 0 \in 0..MaxLines /\ Len(<<>>) <= ChanCapacity
    BY StreamAssumption
  <2> QED
    BY <2>1, <2>2 DEF ReaderInit, ReaderTypeOK
<1>2. StreamTypes
  <2>1. <<>> \in Seq(Kinds) /\ <<>> \in Seq(StreamEvents)
    OBVIOUS
  <2>2. wire \in Seq(Kinds) /\ chan \in Seq(StreamEvents) /\ toSend \in Seq(StreamEvents)
    BY <2>1 DEF ReaderInit
  <2>3. finished \in BOOLEAN /\ leaving \in BOOLEAN
    BY Zenon DEF ReaderInit
  <2> QED
    BY <2>2, <2>3 DEF ReaderInit, StreamTypes
<1>3. BackoffInv /\ SaidInv /\ StageInv /\ OnItsWay
  BY DEF ReaderInit, BackoffInv, SaidInv, StageInv, OnItsWay, NoRequest
<1> QED
  BY <1>1, <1>2, <1>3 DEF ReaderInv

LEMMA ReaderRests == ReaderInv /\ UNCHANGED readerVars => ReaderInv'
<1> SUFFICES ASSUME ReaderInv, UNCHANGED readerVars PROVE ReaderInv'
  OBVIOUS
<1>1. ReaderTypeOK' /\ StreamTypes'
  BY DEF ReaderInv, ReaderTypeOK, StreamTypes, readerVars
<1>2. BackoffInv' /\ SaidInv' /\ StageInv' /\ OnItsWay'
  BY DEF ReaderInv, BackoffInv, SaidInv, StageInv, OnItsWay, Has, Ended, readerVars
<1> QED
  BY <1>1, <1>2 DEF ReaderInv

(* A line of a body becomes events; when it is the last, it was [DONE] or    *)
(* the event is an error.                                                    *)
LEMMA LinesMake ==
  ASSUME StreamTypes, ReadsLine
  PROVE  /\ reader = "read" /\ reader' = "send" /\ toSend' \in Seq(StreamEvents) /\ leaving' \in BOOLEAN
         /\ leaving' => Has(toSend', "error") \/ Head(wire) = "[DONE]"
<1>1. Head(wire) \in Kinds
  BY DEF StreamTypes, ReadsLine
<1>2. \E events \in {<<"data">>, <<"stop">>, <<"error">>, <<>>}, leaves \in BOOLEAN :
        Goes(events, leaves) /\ (leaves => events = <<"error">> \/ Head(wire) = "[DONE]")
  BY <1>1 DEF ReadsLine, Kinds, AnthropicLine, BedrockEvent, ChatLine, ResponsesLine
<1>3. PICK events \in {<<"data">>, <<"stop">>, <<"error">>, <<>>}, leaves \in BOOLEAN :
        Goes(events, leaves) /\ (leaves => events = <<"error">> \/ Head(wire) = "[DONE]")
  BY <1>2
<1>4. {<<"data">>, <<"stop">>, <<"error">>, <<>>} \subseteq Seq(StreamEvents)
  BY DEF StreamEvents
<1> QED
  BY <1>3, <1>4, HasEvents DEF Goes, ReadsLine

LEMMA EndsMake ==
  ASSUME SaidInv, ReadsEnd
  PROVE  /\ reader = "read" /\ reader' = "send" /\ toSend' \in Seq(StreamEvents) /\ leaving' = TRUE
         /\ Has(toSend', "error") \/ (upstream = "eof" /\ (dialect = "chat" => finished))
<1>1. {<<"stop">>, <<"error">>, <<>>} \subseteq Seq(StreamEvents)
  BY DEF StreamEvents
<1>2. CASE upstream = "eof" /\ Goes(AtEnd, TRUE)
  <2>1. AtEnd \in {<<"stop">>, <<"error">>, <<>>} /\ (dialect = "chat" => AtEnd = <<"error">> \/ finished)
    BY DEF AtEnd, SaidInv, Native
  <2> QED
    BY <1>1, <1>2, <2>1, HasEvents DEF Goes, ReadsEnd
<1>3. CASE Goes(OnBroken, TRUE)
  BY <1>1, <1>3, HasEvents DEF Goes, ReadsEnd, OnBroken
<1> QED
  BY <1>2, <1>3 DEF ReadsEnd

LEMMA ReaderStep == ReaderInv /\ ReaderNext => ReaderInv'
<1> SUFFICES ASSUME ReaderInv, ReaderNext PROVE ReaderInv'
  OBVIOUS
<1> USE DEF ReaderInv
<1>1. CASE AsksModel
  <2>1. ReaderTypeOK'
    BY <1>1, StreamAssumption DEF AsksModel, streamVars, ReaderTypeOK, StreamTypes, BackoffInv, NoRequest, Faults
  <2>2. StreamTypes'
    BY <1>1 DEF AsksModel, streamVars, StreamTypes, Kinds, StreamEvents
  <2>3. BackoffInv' /\ SaidInv'
    BY <1>1 DEF AsksModel, streamVars, ReaderTypeOK, StreamTypes, BackoffInv, SaidInv, NoRequest
  <2>4. StageInv'
    BY <1>1 DEF AsksModel, streamVars, StreamTypes, StageInv, NoRequest
  <2>5. OnItsWay'
    BY <1>1 DEF AsksModel, streamVars, StreamTypes, SaidInv, StageInv, OnItsWay, Ended, Has
  <2> QED
    BY <2>1, <2>2, <2>3, <2>4, <2>5
<1>2. CASE AttemptFails
  <2>a. /\ request' \in RequestSet /\ turn' \in {turn, "failed"}
        /\ request'.at = "error" \/ (request'.at = "backoff" /\ attempt < MaxAttempts)
    <3>1. PICK fault \in Faults :
            IF Retries(fault)
            THEN request' = [request EXCEPT !.at = "backoff", !.fault = fault] /\ UNCHANGED turn
            ELSE request' = [at |-> "error", fault |-> fault, retryable |-> Retryable(fault)] /\ turn' = "failed"
      BY <1>2 DEF AttemptFails
    <3>2. CASE Retries(fault)
      <4>1. request \in RequestSet /\ attempt < MaxAttempts
        BY <3>2 DEF Retries, ReaderTypeOK, RequestSet
      <4> QED
        BY <3>1, <3>2, <4>1 DEF RequestSet
    <3>3. CASE ~Retries(fault)
      <4>1. Retryable(fault) \in BOOLEAN
        <5>1. CASE dialect = "anthropic"
          BY <5>1 DEF Retryable
        <5>2. CASE dialect = "bedrock"
          BY <5>2 DEF Retryable, MapAWSError
        <5>3. CASE dialect \notin {"anthropic", "bedrock"}
          <6>1. CASE fault \in {"busy", "conflict"}
            BY <5>3, <6>1 DEF Retryable
          <6>2. CASE fault \notin {"busy", "conflict"}
            <7>1. Retryable(fault) = FALSE
              BY <5>3, <6>2 DEF Retryable
            <7> QED
              BY <7>1
          <6> QED
            BY <6>1, <6>2
        <5> QED
          BY <5>1, <5>2, <5>3
      <4> QED
        BY <3>1, <3>3, <4>1 DEF RequestSet
    <3> QED
      BY <3>2, <3>3
  <2>b. request.at = "trying" /\ UNCHANGED <<dialect, attempt, streamVars, ctx>>
    BY <1>2 DEF AttemptFails
  <2>1. ReaderTypeOK'
    BY <2>a, <2>b DEF streamVars, ReaderTypeOK, RequestSet
  <2>2. StreamTypes'
    BY <1>2 DEF AttemptFails, streamVars, StreamTypes, Kinds, StreamEvents
  <2>3. BackoffInv' /\ SaidInv'
    BY <2>a, <2>b DEF streamVars, BackoffInv, SaidInv
  <2>4. StageInv'
    BY <2>a, <2>b DEF streamVars, StageInv
  <2>5. OnItsWay'
    BY <2>a, <2>b DEF streamVars, OnItsWay, Ended, Has
  <2> QED
    BY <2>1, <2>2, <2>3, <2>4, <2>5
<1>3. CASE BackoffEnds
  <2>1. ReaderTypeOK'
    <3>1. CASE attempt' = attempt + 1 /\ request' = NoRequest /\ UNCHANGED turn
      <4>1. attempt' \in 1..MaxAttempts
        BY <1>3, <3>1, StreamAssumption DEF BackoffEnds, BackoffInv, ReaderTypeOK
      <4>2. request' \in RequestSet
        BY <3>1 DEF NoRequest, RequestSet
      <4> QED
        BY <1>3, <3>1, <4>1, <4>2 DEF BackoffEnds, streamVars, ReaderTypeOK, RequestSet
    <3>2. CASE request' = [request EXCEPT !.at = "error", !.fault = "cancelled"] /\ turn' = "failed" /\ UNCHANGED attempt
      <4>1. request' \in RequestSet
        BY <3>2 DEF ReaderTypeOK, RequestSet
      <4> QED
        BY <1>3, <3>2, <4>1 DEF BackoffEnds, streamVars, ReaderTypeOK, RequestSet
    <3> QED
      BY <1>3, <3>1, <3>2 DEF BackoffEnds
  <2>2. StreamTypes'
    BY <1>3 DEF BackoffEnds, streamVars, StreamTypes, Kinds, StreamEvents
  <2>3. BackoffInv' /\ SaidInv'
    BY <1>3 DEF BackoffEnds, streamVars, ReaderTypeOK, StreamTypes, BackoffInv, SaidInv, NoRequest
  <2>4. StageInv'
    BY <1>3 DEF BackoffEnds, streamVars, StreamTypes, StageInv, NoRequest
  <2>5. OnItsWay'
    BY <1>3 DEF BackoffEnds, streamVars, StreamTypes, SaidInv, StageInv, OnItsWay, Ended, Has
  <2> QED
    BY <2>1, <2>2, <2>3, <2>4, <2>5
<1>4. CASE Opens
  <2>1. ReaderTypeOK'
    BY <1>4, StreamAssumption DEF Opens, ReaderTypeOK, StreamTypes, BackoffInv, NoRequest, Faults
  <2>2. StreamTypes'
    <3>0. "data" \in StreamEvents /\ <<>> \in Seq(StreamEvents)
      BY DEF StreamEvents
    <3>1. toSend' \in Seq(StreamEvents)
      BY <1>4, <3>0 DEF Opens
    <3> QED
      BY <1>4, <3>1 DEF Opens, StreamTypes
  <2>3. BackoffInv' /\ SaidInv'
    BY <1>4 DEF Opens, ReaderTypeOK, StreamTypes, BackoffInv, SaidInv, NoRequest
  <2>4. StageInv'
    BY <1>4 DEF Opens, StreamTypes, StageInv, NoRequest
  <2>5. OnItsWay'
    BY <1>4 DEF Opens, StreamTypes, SaidInv, StageInv, OnItsWay, Ended, Has
  <2> QED
    BY <2>1, <2>2, <2>3, <2>4, <2>5
<1>5. CASE ServerSends
  <2>1. ReaderTypeOK'
    BY <1>5, StreamAssumption DEF ServerSends, ReaderTypeOK, StreamTypes, BackoffInv, NoRequest, Faults
  <2>2. StreamTypes'
    BY <1>5 DEF ServerSends, StreamTypes, Kinds, StreamEvents
  <2>3. BackoffInv' /\ SaidInv'
    <3>1. PICK piece \in Kinds : wire' = Append(wire, piece) /\ finished' = (finished \/ piece \in {"finish", "[DONE]"})
      BY <1>5 DEF ServerSends, Kinds
    <3>2. \A i \in 1..Len(wire') : (i \in 1..Len(wire) /\ wire'[i] = wire[i]) \/ wire'[i] = piece
      BY <3>1 DEF StreamTypes
    <3> QED
      BY <1>5, <3>1, <3>2 DEF ServerSends, StreamTypes, BackoffInv, SaidInv
  <2>4. StageInv'
    BY <1>5 DEF ServerSends, StreamTypes, StageInv, NoRequest
  <2>5. OnItsWay'
    BY <1>5 DEF ServerSends, StreamTypes, SaidInv, StageInv, OnItsWay, Ended, Has
  <2> QED
    BY <2>1, <2>2, <2>3, <2>4, <2>5
<1>6. CASE ServerLeaves
  <2>1. ReaderTypeOK'
    BY <1>6, StreamAssumption DEF ServerLeaves, ReaderTypeOK, StreamTypes, BackoffInv, NoRequest, Faults
  <2>2. StreamTypes'
    BY <1>6 DEF ServerLeaves, StreamTypes, Kinds, StreamEvents
  <2>3. BackoffInv' /\ SaidInv'
    BY <1>6 DEF ServerLeaves, ReaderTypeOK, StreamTypes, BackoffInv, SaidInv, NoRequest
  <2>4. StageInv'
    BY <1>6 DEF ServerLeaves, StreamTypes, StageInv, NoRequest
  <2>5. OnItsWay'
    BY <1>6 DEF ServerLeaves, StreamTypes, SaidInv, StageInv, OnItsWay, Ended, Has
  <2> QED
    BY <2>1, <2>2, <2>3, <2>4, <2>5
<1>7. CASE ReadsLine
  <2>1. ReaderTypeOK'
    BY <1>7, LinesMake, StreamAssumption DEF ReadsLine, ReaderTypeOK, StreamTypes, BackoffInv, NoRequest, Faults
  <2>2. StreamTypes'
    BY <1>7, LinesMake DEF ReadsLine, StreamTypes, Kinds, StreamEvents
  <2>3. BackoffInv' /\ SaidInv'
    <3>1. /\ wire # <<>> /\ wire' = Tail(wire) /\ saw' = IF Head(wire) \in {"finish", "[DONE]"} THEN Head(wire) ELSE saw
          /\ UNCHANGED <<attempt, request, finished>>
      BY <1>7 DEF ReadsLine
    <3>2. /\ Head(wire) = wire[1] /\ 1 \in 1..Len(wire)
          /\ \A i \in 1..Len(wire') : wire'[i] = wire[i + 1] /\ i + 1 \in 1..Len(wire)
      BY <3>1 DEF StreamTypes
    <3> QED
      BY <3>1, <3>2 DEF BackoffInv, SaidInv
  <2>4. StageInv'
    BY <1>7, LinesMake DEF ReadsLine, StreamTypes, StageInv, NoRequest
  <2>5. OnItsWay'
    <3>1. /\ leaving' => Has(toSend', "error") \/ Head(wire) = "[DONE]"
          /\ wire # <<>> /\ (Head(wire) = "[DONE]" => saw' = "[DONE]")
          /\ UNCHANGED <<dialect, finished, upstream>>
      BY <1>7, LinesMake DEF ReadsLine
    <3>2. Head(wire) = "[DONE]" => finished
      BY <3>1 DEF StreamTypes, SaidInv
    <3> QED
      BY <3>1, <3>2 DEF OnItsWay, Ended
  <2> QED
    BY <2>1, <2>2, <2>3, <2>4, <2>5
<1>8. CASE ReadsEnd
  <2>1. ReaderTypeOK'
    <3>1. reader' = "send" /\ UNCHANGED <<dialect, attempt, request, upstream, lines, wire, chan, watchdog, ctx, turn>>
      BY <1>8, EndsMake DEF ReadsEnd
    <3> QED
      BY <3>1 DEF ReaderTypeOK
  <2>2. StreamTypes'
    BY <1>8, EndsMake DEF ReadsEnd, StreamTypes, Kinds, StreamEvents
  <2>3. BackoffInv' /\ SaidInv'
    BY <1>8 DEF ReadsEnd, ReaderTypeOK, StreamTypes, BackoffInv, SaidInv, NoRequest
  <2>4. StageInv'
    BY <1>8, EndsMake DEF ReadsEnd, StreamTypes, StageInv, NoRequest
  <2>5. OnItsWay'
    BY <1>8, EndsMake DEF ReadsEnd, StreamTypes, SaidInv, StageInv, OnItsWay, Ended, Has
  <2> QED
    BY <2>1, <2>2, <2>3, <2>4, <2>5
<1>9. CASE Sends
  <2>a. UNCHANGED <<dialect, attempt, request, upstream, lines, wire, finished, leaving, saw, ctx, turn>> /\ reader = "send"
    BY <1>9 DEF Sends
  <2>b. BackoffInv' /\ SaidInv'
    BY <2>a DEF BackoffInv, SaidInv
  <2>1. CASE /\ toSend # <<>> /\ Len(chan) < ChanCapacity
             /\ chan' = Append(chan, Head(toSend)) /\ toSend' = Tail(toSend) /\ UNCHANGED <<reader, watchdog>>
    <3>1. /\ chan \in Seq(StreamEvents) /\ Head(toSend) \in StreamEvents /\ toSend' \in Seq(StreamEvents)
          /\ chan' \in Seq(StreamEvents) /\ Len(chan') <= ChanCapacity
      BY <2>1, StreamAssumption DEF StreamTypes
    <3>2. ReaderTypeOK' /\ StreamTypes' /\ StageInv'
      BY <2>a, <2>1, <3>1 DEF ReaderTypeOK, StreamTypes, StageInv
    <3>3. Has(chan', "error") <=> Has(chan, "error") \/ Head(toSend) = "error"
      BY <2>1, <3>1, HasAppend
    <3>4. Has(toSend, "error") <=> Head(toSend) = "error" \/ Has(toSend', "error")
      BY <2>1, HasTail DEF StreamTypes
    <3>5. OnItsWay'
      BY <2>a, <3>3, <3>4 DEF OnItsWay, Ended
    <3> QED
      BY <2>b, <3>2, <3>5
  <2>2. CASE toSend # <<>> /\ GivesUp /\ reader' = "done" /\ toSend' = <<>> /\ watchdog' = "off" /\ UNCHANGED chan
    <3>1. ReaderTypeOK' /\ StreamTypes' /\ StageInv'
      BY <2>a, <2>2 DEF GivesUp, ReaderTypeOK, StreamTypes, StageInv
    <3>2. OnItsWay'
      BY <2>a, <2>2 DEF GivesUp, OnItsWay
    <3> QED
      BY <2>b, <3>1, <3>2
  <2>3. CASE /\ toSend = <<>> /\ UNCHANGED <<chan, toSend>>
             /\ IF leaving THEN reader' = "done" /\ watchdog' = "off" ELSE reader' = "read" /\ UNCHANGED watchdog
    <3>1. ReaderTypeOK' /\ StreamTypes' /\ StageInv'
      BY <2>a, <2>3 DEF ReaderTypeOK, StreamTypes, StageInv
    <3>2. OnItsWay'
      BY <2>a, <2>3 DEF OnItsWay, Ended, Has
    <3> QED
      BY <2>b, <3>1, <3>2
  <2> QED
    BY <1>9, <2>1, <2>2, <2>3 DEF Sends
<1>10. CASE WatchdogFires
  <2>1. ReaderTypeOK'
    BY <1>10, StreamAssumption DEF WatchdogFires, ReaderTypeOK, StreamTypes, BackoffInv, NoRequest, Faults
  <2>2. StreamTypes'
    BY <1>10 DEF WatchdogFires, StreamTypes, Kinds, StreamEvents
  <2>3. BackoffInv' /\ SaidInv'
    BY <1>10 DEF WatchdogFires, ReaderTypeOK, StreamTypes, BackoffInv, SaidInv, NoRequest
  <2>4. StageInv'
    BY <1>10 DEF WatchdogFires, StreamTypes, StageInv, NoRequest
  <2>5. OnItsWay'
    BY <1>10 DEF WatchdogFires, StreamTypes, SaidInv, StageInv, OnItsWay, Ended, Has
  <2> QED
    BY <2>1, <2>2, <2>3, <2>4, <2>5
<1>11. CASE Cancelled
  <2>1. ReaderTypeOK'
    BY <1>11, StreamAssumption DEF Cancelled, streamVars, ReaderTypeOK, StreamTypes, BackoffInv, NoRequest, Faults
  <2>2. StreamTypes'
    BY <1>11 DEF Cancelled, streamVars, StreamTypes, Kinds, StreamEvents
  <2>3. BackoffInv' /\ SaidInv'
    BY <1>11 DEF Cancelled, streamVars, ReaderTypeOK, StreamTypes, BackoffInv, SaidInv, NoRequest
  <2>4. StageInv'
    BY <1>11 DEF Cancelled, streamVars, StreamTypes, StageInv, NoRequest
  <2>5. OnItsWay'
    BY <1>11 DEF Cancelled, streamVars, StreamTypes, SaidInv, StageInv, OnItsWay, Ended, Has
  <2> QED
    BY <2>1, <2>2, <2>3, <2>4, <2>5
<1>12. CASE TurnTakes
  <2>1. ReaderTypeOK'
    BY <1>12, HasTail, StreamAssumption DEF TurnTakes, ReaderTypeOK, StreamTypes, BackoffInv, NoRequest, Faults
  <2>2. StreamTypes'
    BY <1>12, HasTail DEF TurnTakes, StreamTypes, Kinds, StreamEvents
  <2>3. BackoffInv' /\ SaidInv'
    BY <1>12 DEF TurnTakes, ReaderTypeOK, StreamTypes, BackoffInv, SaidInv, NoRequest
  <2>4. StageInv'
    BY <1>12, HasTail DEF TurnTakes, StreamTypes, StageInv, NoRequest
  <2>5. OnItsWay'
    <3>1. /\ chan # <<>> /\ chan' = Tail(chan) /\ (Head(chan) = "error" => turn' = "failed")
          /\ UNCHANGED <<dialect, upstream, finished, saw, leaving, ctx, toSend>> /\ turn = "reading"
      BY <1>12 DEF TurnTakes
    <3>2. Has(chan, "error") <=> Head(chan) = "error" \/ Has(chan', "error")
      BY <3>1, HasTail DEF StreamTypes
    <3> QED
      BY <3>1, <3>2 DEF OnItsWay, Ended
  <2> QED
    BY <2>1, <2>2, <2>3, <2>4, <2>5
<1>13. CASE TurnCommits
  <2>1. ReaderTypeOK'
    BY <1>13, StreamAssumption DEF TurnCommits, streamVars, ReaderTypeOK, StreamTypes, BackoffInv, NoRequest, Faults
  <2>2. StreamTypes'
    BY <1>13 DEF TurnCommits, streamVars, StreamTypes, Kinds, StreamEvents
  <2>3. BackoffInv' /\ SaidInv'
    BY <1>13 DEF TurnCommits, streamVars, ReaderTypeOK, StreamTypes, BackoffInv, SaidInv, NoRequest
  <2>4. StageInv'
    BY <1>13 DEF TurnCommits, streamVars, StreamTypes, StageInv, NoRequest
  <2>5. OnItsWay'
    BY <1>13 DEF TurnCommits, streamVars, StreamTypes, SaidInv, StageInv, OnItsWay, Ended, Has
  <2> QED
    BY <2>1, <2>2, <2>3, <2>4, <2>5
<1>14. CASE KeepsAlive
  <2>1. wire' = <<"keepalive">> /\ wire' \in Seq(Kinds) /\ Len(wire') = 1 /\ wire'[1] = "keepalive"
    BY <1>14 DEF KeepsAlive, Kinds
  <2>2. UNCHANGED <<dialect, attempt, request, upstream, lines, finished, reader, toSend, leaving, saw, chan, watchdog, ctx, turn>>
    BY <1>14 DEF KeepsAlive
  <2>3. ReaderTypeOK'
    <3>1. lines \in Nat
      BY StreamAssumption DEF ReaderTypeOK
    <3> QED
      BY <2>1, <2>2, <3>1 DEF ReaderTypeOK
  <2>4. StreamTypes'
    BY <2>1, <2>2 DEF StreamTypes
  <2>5. BackoffInv' /\ SaidInv'
    BY <2>1, <2>2 DEF BackoffInv, SaidInv
  <2>6. StageInv' /\ OnItsWay'
    BY <2>2 DEF StageInv, OnItsWay, Ended, Has
  <2> QED
    BY <2>3, <2>4, <2>5, <2>6
<1> QED
  BY <1>1, <1>2, <1>3, <1>4, <1>5, <1>6, <1>7, <1>8, <1>9, <1>10, <1>11, <1>12, <1>13, <1>14 DEF ReaderNext

(* What was cut off, failed or stalled is not committed.                     *)
LEMMA NothingCutOff == ReaderInv => StreamIsWhole
<1> SUFFICES ASSUME ReaderInv, turn = "committed", ctx = "live" PROVE Ended
  BY DEF StreamIsWhole, NothingCutOffIsCommitted, FailuresAreHeard, Ended
<1>1. reader = "done" /\ chan = <<>> /\ toSend = <<>> /\ leaving
  BY DEF ReaderInv, StageInv, StreamTypes
<1> QED
  BY <1>1, HasEvents DEF ReaderInv, OnItsWay

-----------------------------------------------------------------------------
(* Telemetry. What was given stands in one row: what is settled, the batch   *)
(* in hand, the buffer.                                                      *)
Settled == Len(records) - Len(buffer) - Len(flusher.batch)
TelemetryTypes ==
  /\ sink \in {"http", "jsonl"} /\ sequence \in Nat
  /\ records \in Seq(Nat) /\ buffer \in Seq(Nat) /\ arrived \in Seq(Nat)
  /\ recorders \in [Recorders -> [at : {"idle", "give", "number"}, seq : Nat]]
  /\ flusher \in [at : {"select", "post", "wait", "done"}, batch : Seq(Nat), attempt : 0..ExportAttempts, last : BOOLEAN]
  /\ reported \subseteq 1..Len(records) /\ lost \in Nat /\ due \in Nat
  /\ startCtx \in BOOLEAN /\ stopReq \in BOOLEAN
BatchInv ==
  /\ flusher.at \in {"select", "done"} => flusher.batch = <<>> /\ ~flusher.last
  /\ flusher.at = "wait" => flusher.attempt < ExportAttempts
  /\ sink = "jsonl" => buffer = <<>> /\ flusher.at = "select"
RowInv ==
  /\ Len(buffer) + Len(flusher.batch) <= Len(records)
  /\ \A k \in 1..Len(flusher.batch) : flusher.batch[k] = Settled + k
  /\ \A k \in 1..Len(buffer) : buffer[k] = Settled + Len(flusher.batch) + k
SettledInv == sink = "http" => \A i \in 1..Settled : i \in reported \/ \E k \in 1..Len(arrived) : arrived[k] = i
LateInv ==
  /\ stopReq \/ startCtx => due <= Len(records)
  /\ flusher.last \/ flusher.at = "done" => (stopReq \/ startCtx) /\ \A k \in 1..Len(buffer) : buffer[k] > due
(* How often a number occurs in a sequence.                                  *)
Occurs(s, n) == {k \in 1..Len(s) : s[k] = n}
Copies(s, n) == Cardinality(Occurs(s, n))
CopiesInv ==
  /\ \A k \in 1..Len(arrived) : arrived[k] \in 1..(Len(records) - Len(buffer))
  /\ \A i \in Nat : Copies(arrived, i) <= 1 + lost
  /\ \A k \in 1..Len(flusher.batch) : Copies(arrived, flusher.batch[k]) <= lost
InOrder ==
  sink = "http" => \A k \in 1..Len(arrived) : \A i \in 1..(arrived[k] - 1) :
    i \in reported \/ \E j \in 1..k : arrived[j] = i
Holds(r, n) == recorders[r].at = "give" /\ recorders[r].seq = n
NumbersInv ==
  /\ \A i \in 1..Len(records) : records[i] <= sequence
  /\ \A r \in Recorders, n \in Nat \ {0} : Holds(r, n) => n <= sequence
  /\ \A i, j \in 1..Len(records) : records[i] > 0 /\ records[i] = records[j] => i = j
  /\ \A i \in 1..Len(records), r \in Recorders, n \in Nat \ {0} : records[i] = n => ~Holds(r, n)
  /\ \A q, r \in Recorders, n \in Nat \ {0} : Holds(q, n) /\ Holds(r, n) => q = r
  /\ \A n \in 1..sequence : (\E i \in 1..Len(records) : records[i] = n) \/ \E r \in Recorders : Holds(r, n)
RowsInv == BatchInv /\ RowInv /\ SettledInv /\ LateInv
TelemetryInv == TelemetryTypes /\ RowsInv /\ CopiesInv /\ InOrder /\ NumbersInv

LEMMA CopiesAre ==
  ASSUME NEW s \in Seq(Nat), NEW n
  PROVE  IsFiniteSet(Occurs(s, n)) /\ Copies(s, n) \in Nat
<1>1. IsFiniteSet(1..Len(s)) /\ Occurs(s, n) \subseteq 1..Len(s)
  <2>1. Len(s) \in Nat /\ 1 \in Int
    OBVIOUS
  <2>2. IsFiniteSet(1..Len(s))
    BY <2>1, FS_Interval
  <2> QED
    BY <2>2 DEF Occurs
<1>2. IsFiniteSet(Occurs(s, n))
  BY <1>1, FS_Subset
<1> QED
  BY <1>2, FS_CardinalityType DEF Copies

LEMMA NoCopies ==
  ASSUME NEW s, NEW n, \A k \in 1..Len(s) : s[k] # n
  PROVE  Copies(s, n) = 0
<1>1. Occurs(s, n) = {}
  BY DEF Occurs
<1> QED
  BY <1>1, FS_EmptySet DEF Copies

LEMMA ConcatFields ==
  ASSUME NEW s \in Seq(Nat), NEW t \in Seq(Nat), NEW k \in 1..Len(s \o t)
  PROVE  \/ k \in 1..Len(s) /\ (s \o t)[k] = s[k]
         \/ k - Len(s) \in 1..Len(t) /\ k = Len(s) + (k - Len(s)) /\ (s \o t)[k] = t[k - Len(s)]
<1>1. Len(s) \in Nat /\ Len(t) \in Nat /\ Len(s \o t) = Len(s) + Len(t)
  OBVIOUS
<1>2. CASE k <= Len(s)
  BY <1>1, <1>2
<1>3. CASE k > Len(s)
  BY <1>1, <1>3
<1> QED
  BY <1>1, <1>2, <1>3

(* What a batch adds to the copies of a number.                              *)
LEMMA CopiesConcat ==
  ASSUME NEW s \in Seq(Nat), NEW t \in Seq(Nat), NEW n, \A k \in 1..Len(t) : t[k] # n
  PROVE  Copies(s \o t, n) = Copies(s, n)
<1>1. Len(s) \in Nat /\ Len(t) \in Nat /\ Len(s \o t) = Len(s) + Len(t) /\ \A k \in 1..Len(s) : (s \o t)[k] = s[k]
  OBVIOUS
<1>2. Occurs(s \o t, n) = Occurs(s, n)
  <2>1. ASSUME NEW k \in Occurs(s, n) PROVE k \in Occurs(s \o t, n)
    BY <1>1 DEF Occurs
  <2>2. ASSUME NEW k \in Occurs(s \o t, n) PROVE k \in Occurs(s, n)
    <3>1. k \in 1..Len(s \o t) /\ (s \o t)[k] = n
      BY DEF Occurs
    <3> QED
      BY <3>1, ConcatFields DEF Occurs
  <2> QED
    BY <2>1, <2>2
<1> QED
  BY <1>2 DEF Copies

LEMMA CopiesOnce ==
  ASSUME NEW s \in Seq(Nat), NEW t \in Seq(Nat), NEW n, NEW j, \A k \in 1..Len(t) : t[k] = n => k = j
  PROVE  Copies(s \o t, n) <= Copies(s, n) + 1
<1> DEFINE more == Occurs(s, n) \cup {Len(s) + j}
<1>1. Occurs(s \o t, n) \subseteq more
  <2> SUFFICES ASSUME NEW k \in Occurs(s \o t, n), k \notin Occurs(s, n) PROVE k = Len(s) + j
    OBVIOUS
  <2>1. k \in 1..Len(s \o t) /\ (s \o t)[k] = n
    BY DEF Occurs
  <2>2. k - Len(s) \in 1..Len(t) /\ k = Len(s) + (k - Len(s)) /\ t[k - Len(s)] = n
    BY <2>1, ConcatFields DEF Occurs
  <2> QED
    BY <2>2
<1>2. IsFiniteSet(Occurs(s, n)) /\ Copies(s, n) \in Nat
  BY CopiesAre
<1>3. IsFiniteSet(more) /\ (Cardinality(more) = Copies(s, n) \/ Cardinality(more) = Copies(s, n) + 1)
  BY <1>2, FS_AddElement DEF Copies
<1>4. Copies(s \o t, n) <= Cardinality(more)
  BY <1>1, <1>3, FS_Subset DEF Copies
<1>5. Copies(s \o t, n) \in Nat
  <2>1. s \o t \in Seq(Nat)
    OBVIOUS
  <2> QED
    BY <2>1, CopiesAre
<1> HIDE DEF more
<1> QED
  BY <1>2, <1>3, <1>4, <1>5

LEMMA TelemetryInitInv == TelemetryInit => TelemetryInv
<1> SUFFICES ASSUME TelemetryInit PROVE TelemetryInv
  OBVIOUS
<1>1. TelemetryTypes
  <2>1. NoBatch \in [at : {"select", "post", "wait", "done"}, batch : Seq(Nat), attempt : 0..ExportAttempts, last : BOOLEAN]
    BY TelemetryAssumption DEF NoBatch
  <2>2. stopReq \in BOOLEAN /\ startCtx \in BOOLEAN
    BY Zenon DEF TelemetryInit
  <2>3. /\ sink \in {"http", "jsonl"} /\ sequence \in Nat /\ records \in Seq(Nat) /\ buffer \in Seq(Nat) /\ arrived \in Seq(Nat)
        /\ recorders \in [Recorders -> [at : {"idle", "give", "number"}, seq : Nat]]
        /\ reported \subseteq 1..Len(records) /\ lost \in Nat /\ due \in Nat
    BY DEF TelemetryInit
  <2> QED
    BY <2>1, <2>2, <2>3 DEF TelemetryInit, TelemetryTypes
<1>2. RowsInv
  BY TelemetryAssumption DEF TelemetryInit, RowsInv, BatchInv, RowInv, SettledInv, LateInv, Settled, NoBatch
<1>3. CopiesInv
  <2>1. arrived = <<>> /\ flusher.batch = <<>> /\ lost = 0
    BY DEF TelemetryInit, NoBatch
  <2>2. \A n : Copies(arrived, n) = 0
    BY <2>1, NoCopies
  <2> QED
    BY <2>1, <2>2 DEF CopiesInv
<1>4. InOrder /\ NumbersInv
  BY DEF TelemetryInit, InOrder, NumbersInv, Holds
<1> QED
  BY <1>1, <1>2, <1>3, <1>4 DEF TelemetryInv

LEMMA RowsRest == TelemetryInv /\ UNCHANGED <<sink, records, buffer, arrived, flusher, reported, lost, stopReq, startCtx, due>> =>
  RowsInv' /\ CopiesInv' /\ InOrder'
<1> SUFFICES ASSUME TelemetryInv, UNCHANGED <<sink, records, buffer, arrived, flusher, reported, lost, stopReq, startCtx, due>>
             PROVE  RowsInv' /\ CopiesInv' /\ InOrder'
  OBVIOUS
<1>1. RowInv'
  BY DEF TelemetryInv, RowsInv, RowInv, Settled
<1>2. BatchInv' /\ SettledInv' /\ LateInv'
  BY DEF TelemetryInv, RowsInv, BatchInv, SettledInv, LateInv, Settled
<1>3. CopiesInv' /\ InOrder'
  BY DEF TelemetryInv, CopiesInv, InOrder
<1> QED
  BY <1>1, <1>2, <1>3 DEF RowsInv
LEMMA NumbersRest == TelemetryInv /\ UNCHANGED <<records, recorders, sequence>> => NumbersInv'
  BY DEF TelemetryInv, NumbersInv, Holds

LEMMA TelemetryRests == TelemetryInv /\ UNCHANGED telemetryVars => TelemetryInv'
<1> SUFFICES ASSUME TelemetryInv, UNCHANGED telemetryVars PROVE TelemetryInv'
  OBVIOUS
<1>1. TelemetryTypes'
  BY DEF TelemetryInv, TelemetryTypes, telemetryVars
<1> QED
  BY <1>1, RowsRest, NumbersRest DEF TelemetryInv, telemetryVars

(* A recorder begins, or takes its number.                                   *)
LEMMA RecorderStep ==
  ASSUME TelemetryInv, NEW r \in Recorders, RecordHTTPRequest(r) \/ TakeNumber(r)
  PROVE  TelemetryInv'
<1>1. RowsInv' /\ CopiesInv' /\ InOrder'
  BY RowsRest DEF RecordHTTPRequest, TakeNumber
<1>2. CASE RecordHTTPRequest(r)
  <2>1. TelemetryTypes'
    BY <1>2 DEF TelemetryInv, TelemetryTypes, RecordHTTPRequest
  <2>2. \A q \in Recorders, n \in Nat \ {0} : Holds(q, n)' <=> Holds(q, n)
    BY <1>2 DEF TelemetryInv, TelemetryTypes, RecordHTTPRequest, Holds
  <2>3. UNCHANGED <<records, sequence>>
    BY <1>2 DEF RecordHTTPRequest
  <2>4. NumbersInv'
    <3>1. \A n \in 1..sequence : n \in Nat \ {0}
      BY DEF TelemetryInv, TelemetryTypes
    <3> QED
      BY <2>2, <2>3, <3>1 DEF TelemetryInv, NumbersInv
  <2> QED
    BY <1>1, <2>1, <2>4 DEF TelemetryInv
<1>3. CASE TakeNumber(r)
  <2>1. TelemetryTypes'
    BY <1>3 DEF TelemetryInv, TelemetryTypes, TakeNumber
  <2>2. \A q \in Recorders, n \in Nat \ {0} : Holds(q, n)' <=> IF q = r THEN n = sequence + 1 ELSE Holds(q, n)
    BY <1>3 DEF TelemetryInv, TelemetryTypes, TakeNumber, Holds
  <2>3. \A n \in Nat : ~Holds(r, n)
    BY <1>3 DEF TakeNumber, Holds
  <2>4. NumbersInv'
    <3>1. records' = records /\ sequence' = sequence + 1 /\ sequence \in Nat
      BY <1>3 DEF TakeNumber, TelemetryInv, TelemetryTypes
    <3>2. \A i \in 1..Len(records) : records[i] <= sequence /\ records[i] \in Nat
      BY DEF TelemetryInv, TelemetryTypes, NumbersInv
    <3>3. \A i \in 1..Len(records') : records'[i] <= sequence'
      BY <3>1, <3>2
    <3>4. \A q \in Recorders, n \in Nat \ {0} : Holds(q, n)' => n <= sequence'
      BY <2>2, <3>1 DEF TelemetryInv, NumbersInv
    <3>5. \A i \in 1..Len(records'), q \in Recorders, n \in Nat \ {0} : records'[i] = n => ~Holds(q, n)'
      BY <2>2, <3>1, <3>2 DEF TelemetryInv, NumbersInv
    <3>6. \A p, q \in Recorders, n \in Nat \ {0} : Holds(p, n)' /\ Holds(q, n)' => p = q
      <4> SUFFICES ASSUME NEW p \in Recorders, NEW q \in Recorders, NEW n \in Nat \ {0}, Holds(p, n)', Holds(q, n)' PROVE p = q
        OBVIOUS
      <4>1. CASE n = sequence + 1
        <5>1. ~Holds(p, n) /\ ~Holds(q, n)
          BY <3>1, <4>1 DEF TelemetryInv, NumbersInv
        <5> QED
          BY <2>2, <5>1
      <4>2. CASE n # sequence + 1
        BY <2>2, <4>2 DEF TelemetryInv, NumbersInv
      <4> QED
        BY <4>1, <4>2
    <3>7. ASSUME NEW n \in 1..sequence' PROVE (\E i \in 1..Len(records') : records'[i] = n) \/ \E q \in Recorders : Holds(q, n)'
      <4>1. CASE n = sequence + 1
        BY <2>2, <3>1, <4>1
      <4>2. CASE n # sequence + 1
        <5>1. n \in 1..sequence /\ n \in Nat \ {0}
          BY <3>1, <4>2
        <5>2. CASE \E i \in 1..Len(records) : records[i] = n
          BY <3>1, <5>2
        <5>3. ASSUME NEW q \in Recorders, Holds(q, n) PROVE Holds(q, n)'
          BY <2>2, <2>3, <4>2, <5>1, <5>3
        <5> QED
          BY <5>1, <5>2, <5>3 DEF TelemetryInv, NumbersInv
      <4> QED
        BY <4>1, <4>2
    <3> QED
      BY <3>1, <3>3, <3>4, <3>5, <3>6, <3>7 DEF TelemetryInv, NumbersInv
  <2> QED
    BY <1>1, <2>1, <2>4 DEF TelemetryInv
<1> QED
  BY <1>2, <1>3

(* A record is given: the row grows at its end.                              *)
LEMMA GivenStep ==
  ASSUME TelemetryInv, NEW r \in Recorders, RecordEvent(r)
  PROVE  TelemetryInv'
<1>1. /\ records' = Append(records, recorders[r].seq) /\ recorders[r].seq \in Nat
      /\ Len(records') = Len(records) + 1 /\ Len(records) \in Nat
      /\ records'[Len(records) + 1] = recorders[r].seq
      /\ \A i \in 1..Len(records) : records'[i] = records[i]
  BY DEF TelemetryInv, TelemetryTypes, RecordEvent
<1>2. NumbersInv'
  <2>1. \A q \in Recorders, n \in Nat \ {0} : Holds(q, n)' <=> q # r /\ Holds(q, n)
    BY DEF TelemetryInv, TelemetryTypes, RecordEvent, Holds
  <2>2. Holds(r, recorders[r].seq)
    BY DEF RecordEvent, Holds
  <2>3. \A q \in Recorders : recorders'[q].at = "give" => recorders[q].at = "give" /\ recorders'[q].seq = recorders[q].seq
    BY DEF TelemetryInv, TelemetryTypes, RecordEvent
  <2>4. sequence' = sequence
    BY DEF RecordEvent
  <2>5. \A i, j \in 1..Len(records') : records'[i] > 0 /\ records'[i] = records'[j] => i = j
    <3>1. PICK n \in Nat, m \in Nat : n = Len(records) /\ m = recorders[r].seq
      BY <1>1
    <3>2. /\ \A i \in 1..n : records'[i] = records[i] /\ records[i] \in Nat
          /\ records'[n + 1] = m /\ Len(records') = n + 1
      BY <1>1, <3>1 DEF TelemetryInv, TelemetryTypes
    <3>3. \A i, j \in 1..n : records[i] > 0 /\ records[i] = records[j] => i = j
      BY <3>1 DEF TelemetryInv, NumbersInv
    <3>4. \A i \in 1..n : m > 0 => records[i] # m
      BY <2>2, <3>1 DEF TelemetryInv, NumbersInv
    <3>5. \A i \in 1..(n + 1) : i \in 1..n \/ i = n + 1
      OBVIOUS
    <3> QED
      BY <3>1, <3>2, <3>3, <3>4, <3>5
  <2>6. \A i \in 1..Len(records'), q \in Recorders, n \in Nat \ {0} : records'[i] = n => ~Holds(q, n)'
    <3> SUFFICES ASSUME NEW i \in 1..Len(records'), NEW q \in Recorders, NEW n \in Nat \ {0}, records'[i] = n, Holds(q, n)'
                 PROVE  FALSE
      OBVIOUS
    <3>1. q # r /\ Holds(q, n)
      BY <2>1
    <3>2. CASE i \in 1..Len(records)
      BY <1>1, <3>1, <3>2 DEF TelemetryInv, NumbersInv
    <3>3. CASE i = Len(records) + 1
      BY <1>1, <2>2, <3>1, <3>3 DEF TelemetryInv, NumbersInv
    <3> QED
      BY <1>1, <3>2, <3>3
  <2>7. \A n \in 1..sequence : (\E i \in 1..Len(records') : records'[i] = n) \/ \E q \in Recorders : Holds(q, n)'
    <3> SUFFICES ASSUME NEW n \in 1..sequence
                 PROVE  (\E i \in 1..Len(records') : records'[i] = n) \/ \E q \in Recorders : Holds(q, n)'
      OBVIOUS
    <3>0. n \in Nat \ {0}
      BY DEF TelemetryInv, TelemetryTypes
    <3>1. CASE \E i \in 1..Len(records) : records[i] = n
      BY <1>1, <3>1
    <3>2. CASE Holds(r, n)
      BY <1>1, <3>2 DEF Holds
    <3>3. ASSUME NEW q \in Recorders, Holds(q, n), q # r PROVE \E p \in Recorders : Holds(p, n)'
      BY <2>1, <3>0, <3>3
    <3> QED
      BY <3>1, <3>2, <3>3 DEF TelemetryInv, NumbersInv
  <2>8. \A i \in 1..Len(records') : records'[i] <= sequence
    <3> SUFFICES ASSUME NEW i \in 1..Len(records') PROVE records'[i] <= sequence
      OBVIOUS
    <3>0. sequence \in Nat
      BY DEF TelemetryInv, TelemetryTypes
    <3>1. CASE i \in 1..Len(records)
      BY <1>1, <3>1 DEF TelemetryInv, NumbersInv
    <3>2. CASE i = Len(records) + 1
      <4>1. recorders[r].seq # 0 => recorders[r].seq <= sequence
        BY <1>1, <2>2 DEF TelemetryInv, NumbersInv
      <4> QED
        BY <1>1, <3>0, <3>2, <4>1
    <3> QED
      BY <1>1, <3>1, <3>2
  <2>9. /\ \A q \in Recorders, n \in Nat \ {0} : Holds(q, n)' => n <= sequence
        /\ \A p, q \in Recorders, n \in Nat \ {0} : Holds(p, n)' /\ Holds(q, n)' => p = q
    BY <2>1 DEF TelemetryInv, NumbersInv
  <2> QED
    BY <2>4, <2>5, <2>6, <2>7, <2>8, <2>9 DEF NumbersInv
<1>3. CASE sink = "jsonl"
  <2>1. /\ UNCHANGED <<sink, buffer, flusher, reported, lost, stopReq, startCtx, due>>
        /\ arrived' \in {Append(arrived, Len(records')), arrived}
        /\ buffer = <<>> /\ flusher.batch = <<>>
    BY <1>3 DEF TelemetryInv, RowsInv, BatchInv, RecordEvent, RecordErr
  <2>2. TelemetryTypes'
    <3>0. records \in Seq(Nat) /\ arrived \in Seq(Nat) /\ reported \subseteq 1..Len(records)
      BY DEF TelemetryInv, TelemetryTypes
    <3>1. /\ records' \in Seq(Nat) /\ arrived' \in Seq(Nat) /\ reported' \subseteq 1..Len(records')
      <4>1. records' \in Seq(Nat) /\ Len(records') \in Nat
        BY <1>1, <3>0
      <4>2. arrived' \in Seq(Nat)
        <5>1. arrived' = Append(arrived, Len(records')) \/ arrived' = arrived
          BY <2>1
        <5>2. PICK e \in Nat : e = Len(records')
          BY <4>1
        <5>3. Append(arrived, e) \in Seq(Nat)
          BY <3>0
        <5> QED
          BY <3>0, <5>1, <5>2, <5>3
      <4>3. reported' \subseteq 1..Len(records')
        BY <1>1, <2>1, <3>0
      <4> QED
        BY <4>1, <4>2, <4>3
    <3>2. recorders' \in [Recorders -> [at : {"idle", "give", "number"}, seq : Nat]] /\ sequence' = sequence
      BY DEF TelemetryInv, TelemetryTypes, RecordEvent
    <3> QED
      BY <2>1, <3>1, <3>2 DEF TelemetryInv, TelemetryTypes
  <2>3. RowsInv' /\ InOrder'
    <3>1. flusher'.batch = <<>> /\ buffer' = <<>> /\ ~flusher.last /\ sink' = "jsonl" /\ flusher.at = "select" /\ flusher' = flusher
      BY <1>3, <2>1 DEF TelemetryInv, RowsInv, BatchInv
    <3>2. BatchInv' /\ SettledInv' /\ InOrder'
      BY <3>1 DEF BatchInv, SettledInv, InOrder
    <3>3. RowInv'
      <4>1. Len(flusher'.batch) = 0 /\ Len(buffer') = 0 /\ Len(records') \in Nat
        BY <1>1, <3>1
      <4> QED
        BY <4>1 DEF RowInv
    <3>4. LateInv'
      <4>1. stopReq \/ startCtx => due <= Len(records)
        BY DEF TelemetryInv, RowsInv, LateInv
      <4>2. due \in Nat /\ due' = due /\ stopReq' = stopReq /\ startCtx' = startCtx
        BY <2>1 DEF TelemetryInv, TelemetryTypes
      <4> QED
        BY <1>1, <3>1, <4>1, <4>2 DEF LateInv
    <3> QED
      BY <3>2, <3>3, <3>4 DEF RowsInv
  <2>4. CopiesInv'
    <3>1. CASE arrived' = arrived
      <4>1. /\ \A k \in 1..Len(arrived) : arrived[k] \in 1..(Len(records) - Len(buffer))
            /\ \A i \in Nat : Copies(arrived, i) <= 1 + lost
        BY DEF TelemetryInv, CopiesInv
      <4>2. Len(buffer) = 0 /\ Len(buffer') = 0 /\ flusher'.batch = <<>> /\ lost' = lost
        BY <2>1
      <4>3. \A k \in 1..Len(arrived') : arrived'[k] \in 1..(Len(records') - Len(buffer'))
        BY <1>1, <3>1, <4>1, <4>2
      <4> QED
        BY <3>1, <4>1, <4>2, <4>3 DEF CopiesInv
    <3>2. CASE arrived' = Append(arrived, Len(records'))
      <4>1. PICK one : one = <<Len(records')>>
        OBVIOUS
      <4>2. one \in Seq(Nat) /\ Len(one) = 1 /\ one[1] = Len(records') /\ arrived \in Seq(Nat) /\ lost \in Nat
        BY <1>1, <4>1 DEF TelemetryInv, TelemetryTypes
      <4>3. arrived' = arrived \o one
        BY <3>2, <4>1, <4>2
      <4>4. ASSUME NEW n \in Nat PROVE Copies(arrived', n) <= 1 + lost
        <5>1. CASE n # Len(records')
          <6>1. Copies(arrived', n) = Copies(arrived, n)
            <7>1. \A k \in 1..Len(one) : one[k] # n
              BY <4>2, <5>1
            <7>2. Copies(arrived \o one, n) = Copies(arrived, n)
              BY <4>2, <7>1, CopiesConcat
            <7> QED
              BY <4>3, <7>2
          <6> QED
            BY <6>1 DEF TelemetryInv, CopiesInv
        <5>2. CASE n = Len(records')
          <6>1. Copies(arrived, n) = 0
            <7>1. \A k \in 1..Len(arrived) : arrived[k] # n
              BY <1>1, <2>1, <5>2 DEF TelemetryInv, CopiesInv
            <7> QED
              BY <7>1, NoCopies
          <6>2. Copies(arrived \o one, n) <= Copies(arrived, n) + 1
            <7>1. \A k \in 1..Len(one) : one[k] = n => k = 1
              BY <4>2
            <7> QED
              BY <4>2, <7>1, CopiesOnce
          <6>3. Copies(arrived \o one, n) \in Nat
            <7>1. arrived \o one \in Seq(Nat)
              BY <4>2
            <7> QED
              BY <7>1, CopiesAre
          <6> QED
            BY <4>2, <4>3, <6>1, <6>2, <6>3
        <5> QED
          BY <5>1, <5>2
      <4>5. \A k \in 1..Len(arrived') : arrived'[k] \in 1..(Len(records') - Len(buffer'))
        <5> SUFFICES ASSUME NEW k \in 1..Len(arrived') PROVE arrived'[k] \in 1..Len(records')
          BY <1>1, <2>1
        <5>1. CASE k \in 1..Len(arrived) /\ arrived'[k] = arrived[k]
          BY <1>1, <2>1, <5>1 DEF TelemetryInv, CopiesInv
        <5>2. CASE arrived'[k] = Len(records')
          BY <1>1, <5>2
        <5> QED
          BY <4>2, <3>2, <5>1, <5>2
      <4> QED
        BY <2>1, <4>4, <4>5 DEF CopiesInv
    <3> QED
      BY <2>1, <3>1, <3>2
  <2> QED
    BY <1>2, <2>2, <2>3, <2>4 DEF TelemetryInv
<1>4. CASE sink = "http"
  <2>1. /\ UNCHANGED <<sink, arrived, flusher, reported, lost, stopReq, startCtx, due>>
        /\ buffer' = Append(buffer, Len(records'))
    BY <1>4 DEF RecordEvent, RecordBuffered
  <2>2. /\ buffer \in Seq(Nat) /\ Len(buffer') = Len(buffer) + 1 /\ buffer'[Len(buffer) + 1] = Len(records) + 1
        /\ \A k \in 1..Len(buffer) : buffer'[k] = buffer[k]
    BY <1>1, <2>1 DEF TelemetryInv, TelemetryTypes
  <2>3. TelemetryTypes'
    BY <1>1, <2>1, <2>2 DEF TelemetryInv, TelemetryTypes, RecordEvent
  <2>4. Settled' = Settled /\ Len(flusher.batch) \in Nat /\ Len(buffer) \in Nat
    BY <1>1, <2>1, <2>2 DEF Settled, TelemetryInv, TelemetryTypes
  <2>5. RowInv'
    <3>1. /\ Len(buffer) + Len(flusher.batch) <= Len(records)
          /\ Settled + Len(flusher.batch) + Len(buffer) = Len(records)
      BY <1>1, <2>4 DEF TelemetryInv, RowsInv, RowInv, Settled
    <3>2. Len(buffer') + Len(flusher'.batch) <= Len(records')
      <4>1. flusher'.batch = flusher.batch
        BY <2>1
      <4>2. PICK n \in Nat : n = Len(flusher.batch)
        BY <2>4
      <4>3. Len(flusher'.batch) = n
        BY <4>1, <4>2
      <4>4. Len(records) \in Nat /\ Len(records') = Len(records) + 1 /\ Len(buffer) + n <= Len(records)
        BY <1>1, <3>1, <4>2
      <4>5. Len(buffer') + n <= Len(records')
        BY <2>2, <2>4, <4>4
      <4> QED
        BY <4>3, <4>5
    <3>3. \A k \in 1..Len(flusher'.batch) : flusher'.batch[k] = Settled' + k
      BY <2>1, <2>4 DEF TelemetryInv, RowsInv, RowInv
    <3>4. ASSUME NEW k \in 1..Len(buffer') PROVE buffer'[k] = Settled' + Len(flusher'.batch) + k
      <4>1. CASE k \in 1..Len(buffer)
        BY <2>1, <2>2, <2>4, <4>1 DEF TelemetryInv, RowsInv, RowInv
      <4>2. CASE k = Len(buffer) + 1
        <5>1. Settled \in Int
          BY <1>1, <2>4 DEF Settled
        <5>2. flusher'.batch = flusher.batch /\ buffer'[k] = Len(records) + 1
          BY <2>1, <2>2, <4>2
        <5>3. PICK n \in Nat : n = Len(flusher.batch)
          BY <2>4
        <5>4. Settled + n + Len(buffer) = Len(records)
          BY <3>1, <5>3
        <5>5. Settled + n + k = Len(records) + 1
          BY <2>4, <4>2, <5>1, <5>4
        <5>6. Settled' = Settled /\ Len(flusher'.batch) = n
          BY <2>4, <5>2, <5>3
        <5> QED
          BY <5>2, <5>5, <5>6
      <4> QED
        BY <2>2, <2>4, <4>1, <4>2
    <3> QED
      BY <3>2, <3>3, <3>4 DEF RowInv
  <2>6. BatchInv' /\ SettledInv'
    BY <1>4, <2>1, <2>4 DEF TelemetryInv, RowsInv, BatchInv, SettledInv
  <2>7. LateInv'
    <3>1. due \in Nat /\ due' = due /\ stopReq' = stopReq /\ startCtx' = startCtx /\ flusher' = flusher
      BY <2>1 DEF TelemetryInv, TelemetryTypes
    <3>2. /\ stopReq \/ startCtx => due <= Len(records)
          /\ flusher.last \/ flusher.at = "done" => (stopReq \/ startCtx) /\ \A k \in 1..Len(buffer) : buffer[k] > due
      BY DEF TelemetryInv, RowsInv, LateInv
    <3>3. stopReq' \/ startCtx' => due' <= Len(records')
      BY <1>1, <3>1, <3>2
    <3>4. ASSUME flusher.last \/ flusher.at = "done", NEW k \in 1..Len(buffer') PROVE buffer'[k] > due
      <4>1. CASE k \in 1..Len(buffer)
        BY <2>2, <3>2, <3>4, <4>1
      <4>2. CASE k = Len(buffer) + 1
        BY <1>1, <2>2, <3>1, <3>2, <3>4, <4>2
      <4>3. Len(buffer) \in Nat
        BY <2>2
      <4> QED
        BY <2>2, <4>1, <4>2, <4>3
    <3> QED
      BY <3>1, <3>2, <3>3, <3>4 DEF LateInv
  <2>8. CopiesInv' /\ InOrder'
    BY <1>1, <2>1, <2>2 DEF TelemetryInv, TelemetryTypes, CopiesInv, InOrder
  <2> QED
    BY <1>2, <2>3, <2>5, <2>6, <2>7, <2>8 DEF TelemetryInv, RowsInv
<1> QED
  BY <1>3, <1>4 DEF TelemetryInv, TelemetryTypes

(* The flusher takes the buffer for its batch.                               *)
LEMMA FlushStep ==
  ASSUME TelemetryInv, NEW last \in BOOLEAN, Flush(last), sink = "http", flusher.at = "select",
         last => stopReq \/ startCtx,
         UNCHANGED <<sink, recorders, sequence, records, stopReq, startCtx, arrived, reported, lost, due>>
  PROVE  TelemetryInv'
<1>1. /\ buffer' = <<>> /\ flusher.batch = <<>> /\ buffer \in Seq(Nat)
      /\ flusher' = IF buffer = <<>> THEN [NoBatch EXCEPT !.at = IF last THEN "done" ELSE "select"]
                    ELSE [at |-> "post", batch |-> buffer, attempt |-> 1, last |-> last]
  BY DEF TelemetryInv, TelemetryTypes, RowsInv, BatchInv, Flush
<1>2. /\ flusher'.batch = buffer /\ flusher'.at \in {"select", "done", "post"} /\ flusher'.last \in BOOLEAN
      /\ flusher'.at \in {"select", "done"} => flusher'.batch = <<>> /\ ~flusher'.last
      /\ flusher'.last \/ flusher'.at = "done" => last
  BY <1>1 DEF NoBatch
<1>3. TelemetryTypes'
  <2>1. flusher' \in [at : {"select", "post", "wait", "done"}, batch : Seq(Nat), attempt : 0..ExportAttempts, last : BOOLEAN]
    <3>1. NoBatch.batch = <<>> /\ 0 \in 0..ExportAttempts /\ 1 \in 0..ExportAttempts
      BY TelemetryAssumption DEF NoBatch
    <3>2. CASE buffer = <<>>
      <4>1. PICK at \in {"select", "done"} : flusher' = [NoBatch EXCEPT !.at = at]
        BY <1>1, <3>2
      <4>2. flusher' = [at |-> at, batch |-> <<>>, attempt |-> 0, last |-> FALSE]
        BY <4>1 DEF NoBatch
      <4> QED
        BY <3>1, <4>2
    <3>3. CASE buffer # <<>>
      BY <1>1, <3>1, <3>3
    <3> QED
      BY <3>2, <3>3
  <2> QED
    BY <1>1, <2>1 DEF TelemetryInv, TelemetryTypes
<1>4. /\ Settled' = Settled /\ Len(buffer) \in Nat /\ Len(buffer') = 0 /\ Len(records) \in Nat
      /\ Len(flusher.batch) = 0 /\ Settled = Len(records) - Len(buffer)
  BY <1>1, <1>2 DEF Settled, TelemetryInv, TelemetryTypes
<1>5. RowsInv'
  <2>1. RowInv'
    BY <1>1, <1>2, <1>4 DEF TelemetryInv, RowsInv, RowInv
  <2>2. BatchInv' /\ SettledInv' /\ LateInv'
    BY <1>1, <1>2, <1>4 DEF TelemetryInv, RowsInv, BatchInv, SettledInv, LateInv
  <2> QED
    BY <2>1, <2>2 DEF RowsInv
<1>6. CopiesInv'
  <2>1. ASSUME NEW k \in 1..Len(buffer) PROVE Copies(arrived, buffer[k]) <= lost
    <3>1. buffer[k] = Settled + k /\ \A j \in 1..Len(arrived) : arrived[j] <= Settled
      BY <1>4 DEF TelemetryInv, RowsInv, RowInv, CopiesInv
    <3>2. Settled \in Nat /\ k \in Nat \ {0} /\ \A j \in 1..Len(arrived) : arrived[j] \in Nat
      <4>1. Len(buffer) + Len(flusher.batch) <= Len(records)
        BY DEF TelemetryInv, RowsInv, RowInv
      <4>2. Settled \in Nat /\ k \in Nat \ {0}
        BY <1>4, <4>1
      <4>3. \A j \in 1..Len(arrived) : arrived[j] \in Nat
        BY DEF TelemetryInv, TelemetryTypes
      <4> QED
        BY <4>2, <4>3
    <3>3. \A j \in 1..Len(arrived) : arrived[j] # buffer[k]
      BY <3>1, <3>2
    <3>4. Copies(arrived, buffer[k]) = 0
      BY <3>3, NoCopies
    <3> QED
      BY <3>4 DEF TelemetryInv, TelemetryTypes
  <2>2. \A k \in 1..Len(arrived) : arrived[k] \in 1..Len(records)
    BY <1>4 DEF TelemetryInv, CopiesInv
  <2> QED
    BY <1>2, <1>4, <2>1, <2>2 DEF TelemetryInv, CopiesInv
<1>7. InOrder' /\ NumbersInv'
  BY NumbersRest DEF TelemetryInv, InOrder
<1> QED
  BY <1>3, <1>5, <1>6, <1>7 DEF TelemetryInv

(* Where the batch in hand and the buffer stand in the row of what was given. *)
LEMMA RowsAre ==
  ASSUME TelemetryInv, NEW batch, batch = flusher.batch
  PROVE  /\ batch \in Seq(Nat) /\ buffer \in Seq(Nat) /\ arrived \in Seq(Nat) /\ records \in Seq(Nat) /\ lost \in Nat
         /\ Settled \in Nat /\ Settled + Len(batch) = Len(records) - Len(buffer)
         /\ Settled + Len(batch) + Len(buffer) = Len(records)
         /\ \A k \in 1..Len(batch) : batch[k] = Settled + k
         /\ \A k \in 1..Len(buffer) : buffer[k] = Settled + Len(batch) + k
<1>1. /\ batch \in Seq(Nat) /\ buffer \in Seq(Nat) /\ arrived \in Seq(Nat) /\ records \in Seq(Nat) /\ lost \in Nat
  BY DEF TelemetryInv, TelemetryTypes
<1>2. PICK a \in Nat, b \in Nat, c \in Nat : a = Len(records) /\ b = Len(buffer) /\ c = Len(batch)
  BY <1>1
<1>3. Settled = a - b - c /\ b + c <= a
  BY <1>2 DEF Settled, TelemetryInv, RowsInv, RowInv
<1>4. \A k \in 1..Len(batch) : batch[k] = Settled + k
  BY DEF TelemetryInv, RowsInv, RowInv
<1>5. \A k \in 1..Len(buffer) : buffer[k] = Settled + Len(batch) + k
  BY DEF TelemetryInv, RowsInv, RowInv
<1>6. Settled \in Nat /\ Settled + c = a - b /\ Settled + c + b = a
  BY <1>2, <1>3
<1> QED
  BY <1>1, <1>2, <1>4, <1>5, <1>6

(* What the collector holds when it takes the batch: no record more than     *)
(* once more than before, and none ahead of an earlier one.                  *)
Delivers(new, batch) ==
  /\ new \in Seq(Nat)
  /\ \A k \in 1..Len(new) : new[k] \in 1..(Len(records) - Len(buffer))
  /\ \A k \in 1..Len(arrived) : k \in 1..Len(new) /\ new[k] = arrived[k]
  /\ \A k \in 1..Len(batch) : \E j \in 1..Len(new) : new[j] = batch[k]
  /\ \A n \in Nat : Copies(new, n) <= 1 + lost
  /\ \A k \in 1..Len(new) : \A i \in 1..(new[k] - 1) : i \in reported \/ \E j \in 1..k : new[j] = i

LEMMA Delivered ==
  ASSUME TelemetryInv, sink = "http", NEW new, new = arrived \o flusher.batch
  PROVE  Delivers(new, flusher.batch)
<1>1. PICK batch : batch = flusher.batch
  OBVIOUS
<1>2. /\ arrived \in Seq(Nat) /\ batch \in Seq(Nat) /\ new = arrived \o batch /\ lost \in Nat
      /\ Len(arrived) \in Nat /\ Len(batch) \in Nat /\ Len(records) \in Nat /\ Len(buffer) \in Nat
  BY <1>1 DEF TelemetryInv, TelemetryTypes
<1>3. /\ new \in Seq(Nat) /\ Len(new) = Len(arrived) + Len(batch)
      /\ \A k \in 1..Len(arrived) : new[k] = arrived[k]
      /\ \A k \in (Len(arrived) + 1)..(Len(arrived) + Len(batch)) : new[k] = batch[k - Len(arrived)]
  BY <1>2
<1>4. /\ Settled \in Nat /\ Settled + Len(batch) = Len(records) - Len(buffer)
      /\ \A k \in 1..Len(batch) : batch[k] = Settled + k
  BY <1>1, RowsAre
<1>5. \A k \in 1..Len(batch) : new[Len(arrived) + k] = Settled + k
  <2> SUFFICES ASSUME NEW k \in 1..Len(batch) PROVE new[Len(arrived) + k] = Settled + k
    OBVIOUS
  <2>1. Len(arrived) + k \in (Len(arrived) + 1)..(Len(arrived) + Len(batch)) /\ (Len(arrived) + k) - Len(arrived) = k
    BY <1>2
  <2> QED
    BY <1>3, <1>4, <2>1
<1>6. ASSUME NEW k \in 1..Len(new), k \notin 1..Len(arrived)
      PROVE  \E m \in 1..Len(batch) : k = Len(arrived) + m /\ new[k] = Settled + m
  <2>1. k - Len(arrived) \in 1..Len(batch) /\ k = Len(arrived) + (k - Len(arrived))
    BY <1>2, <1>3, <1>6
  <2> QED
    BY <1>5, <2>1
<1>7. \A k \in 1..Len(new) : new[k] \in 1..(Len(records) - Len(buffer))
  <2> SUFFICES ASSUME NEW k \in 1..Len(new) PROVE new[k] \in 1..(Len(records) - Len(buffer))
    OBVIOUS
  <2>1. CASE k \in 1..Len(arrived)
    BY <1>3, <2>1 DEF TelemetryInv, CopiesInv
  <2>2. CASE k \notin 1..Len(arrived)
    <3>1. PICK m \in 1..Len(batch) : new[k] = Settled + m
      BY <1>6, <2>2
    <3>2. Settled + m \in 1..(Len(records) - Len(buffer))
      BY <1>2, <1>4
    <3> QED
      BY <3>1, <3>2
  <2> QED
    BY <2>1, <2>2
<1>8. \A k \in 1..Len(batch) : \E j \in 1..Len(new) : new[j] = batch[k]
  <2> SUFFICES ASSUME NEW k \in 1..Len(batch) PROVE Len(arrived) + k \in 1..Len(new) /\ new[Len(arrived) + k] = batch[k]
    OBVIOUS
  <2> QED
    BY <1>2, <1>3, <1>4, <1>5
<1>9. ASSUME NEW n \in Nat PROVE Copies(new, n) <= 1 + lost
  <2>1. CASE \A k \in 1..Len(batch) : batch[k] # n
    <3>1. Copies(new, n) = Copies(arrived, n)
      BY <1>2, <2>1, CopiesConcat
    <3> QED
      BY <3>1 DEF TelemetryInv, CopiesInv
  <2>2. ASSUME NEW j \in 1..Len(batch), batch[j] = n PROVE Copies(new, n) <= 1 + lost
    <3>1. \A k \in 1..Len(batch) : batch[k] = n => k = j
      <4>1. \A k \in 1..Len(batch) : k \in Nat
        BY <1>2
      <4> QED
        BY <1>4, <2>2, <4>1
    <3>3. Copies(new, n) <= Copies(arrived, n) + 1
      BY <1>2, <3>1, CopiesOnce
    <3>4. Copies(arrived, n) <= lost
      BY <1>1, <2>2 DEF TelemetryInv, CopiesInv
    <3>5. Copies(arrived, n) \in Nat /\ Copies(new, n) \in Nat
      BY <1>2, <1>3, CopiesAre
    <3> QED
      BY <1>2, <3>3, <3>4, <3>5
  <2> QED
    BY <2>1, <2>2
<1>10. ASSUME NEW k \in 1..Len(new), NEW i \in 1..(new[k] - 1), i \notin reported PROVE \E j \in 1..k : new[j] = i
  <2>1. CASE k \in 1..Len(arrived)
    <3>1. PICK j \in 1..k : arrived[j] = i
      BY <1>3, <1>10, <2>1 DEF TelemetryInv, InOrder
    <3>2. j \in 1..Len(arrived)
      BY <1>2, <2>1
    <3> QED
      BY <1>3, <3>1, <3>2
  <2>2. CASE k \notin 1..Len(arrived)
    <3>1. PICK m \in 1..Len(batch) : k = Len(arrived) + m /\ new[k] = Settled + m
      BY <1>6, <2>2
    <3>2. i \in Nat /\ 1 <= i /\ i < Settled + m
      <4>1. Settled + m \in Nat /\ i \in 1..((Settled + m) - 1)
        BY <1>4, <3>1
      <4> QED
        BY <4>1
    <3>3. CASE i <= Settled
      <4>1. i \in 1..Settled
        BY <1>4, <3>2, <3>3
      <4>2. PICK j \in 1..Len(arrived) : arrived[j] = i
        BY <1>10, <4>1 DEF TelemetryInv, RowsInv, SettledInv
      <4>3. j \in 1..k /\ new[j] = i
        BY <1>2, <1>3, <3>1, <4>2
      <4> QED
        BY <4>3
    <3>4. CASE i > Settled
      <4>1. i - Settled \in 1..Len(batch) /\ i - Settled < m
        BY <1>2, <1>4, <3>1, <3>2, <3>4
      <4>2. new[Len(arrived) + (i - Settled)] = Settled + (i - Settled)
        BY <1>5, <4>1
      <4>3. Len(arrived) + (i - Settled) \in 1..k /\ Settled + (i - Settled) = i
        BY <1>2, <1>4, <3>1, <3>2, <4>1
      <4> QED
        BY <4>2, <4>3
    <3> QED
      BY <1>4, <3>2, <3>3, <3>4
  <2> QED
    BY <2>1, <2>2
<1>11. \A k \in 1..Len(arrived) : k \in 1..Len(new)
  BY <1>2, <1>3
<1> QED
  BY <1>1, <1>3, <1>7, <1>8, <1>9, <1>10, <1>11 DEF Delivers

(* A batch at the collector or between two attempts: it is settled when it   *)
(* was taken or reported, and may be taken again when the answer was lost.   *)
BatchSettles ==
  /\ flusher' = Finished
  /\ arrived' = arrived \o flusher.batch \/ reported' = reported \cup ToSet(flusher.batch)
BatchStays ==
  /\ flusher' \in [at : {"post", "wait"}, batch : {flusher.batch}, attempt : 0..ExportAttempts, last : {flusher.last}]
  /\ flusher'.at = "wait" => flusher'.attempt < ExportAttempts
  /\ arrived' = arrived \/ lost' = lost + 1
BatchMayArrive ==
  /\ arrived' = arrived \/ arrived' = arrived \o flusher.batch
  /\ reported' = reported \/ reported' = reported \cup ToSet(flusher.batch)
  /\ lost' \in {lost, lost + 1}

LEMMA ToSetAre == ASSUME NEW s \in Seq(Nat) PROVE ToSet(s) = {s[k] : k \in 1..Len(s)}
  BY DEF ToSet

LEMMA PostStep ==
  ASSUME TelemetryInv, flusher.at \in {"post", "wait"}, UNCHANGED Rest, BatchMayArrive, BatchSettles \/ BatchStays
  PROVE  TelemetryInv'
<1>0. sink = "http" /\ lost \in Nat /\ lost' \in Nat /\ lost' >= lost
  BY DEF TelemetryInv, TelemetryTypes, RowsInv, BatchInv, BatchMayArrive
<1>1. /\ sink' = sink /\ recorders' = recorders /\ sequence' = sequence /\ records' = records /\ buffer' = buffer
      /\ stopReq' = stopReq /\ startCtx' = startCtx /\ due' = due
  BY DEF Rest
<1>2. PICK new : new = arrived \o flusher.batch
  OBVIOUS
<1>3. /\ new \in Seq(Nat)
      /\ \A k \in 1..Len(new) : new[k] \in 1..(Len(records) - Len(buffer))
      /\ \A k \in 1..Len(arrived) : k \in 1..Len(new) /\ new[k] = arrived[k]
      /\ \A k \in 1..Len(flusher.batch) : \E j \in 1..Len(new) : new[j] = flusher.batch[k]
      /\ \A n \in Nat : Copies(new, n) <= 1 + lost
      /\ \A k \in 1..Len(new) : \A i \in 1..(new[k] - 1) : i \in reported \/ \E j \in 1..k : new[j] = i
  <2>1. Delivers(new, flusher.batch)
    BY <1>0, <1>2, Delivered
  <2> QED
    BY <2>1 DEF Delivers
<1>4. /\ reported \subseteq reported' /\ arrived' \in Seq(Nat)
      /\ \A n \in Nat : (\E k \in 1..Len(arrived) : arrived[k] = n) => \E k \in 1..Len(arrived') : arrived'[k] = n
  <2>1. reported \subseteq reported'
    BY DEF BatchMayArrive
  <2>2. arrived' = arrived \/ arrived' = new
    BY <1>2 DEF BatchMayArrive
  <2>3. arrived \in Seq(Nat)
    BY DEF TelemetryInv, TelemetryTypes
  <2> QED
    BY <1>3, <2>1, <2>2, <2>3
<1>5. /\ flusher.batch \in Seq(Nat) /\ Len(flusher.batch) \in Nat /\ Len(records) \in Nat /\ Len(buffer) \in Nat
      /\ Settled \in Nat /\ Settled + Len(flusher.batch) = Len(records) - Len(buffer)
      /\ \A k \in 1..Len(flusher.batch) : flusher.batch[k] = Settled + k /\ flusher.batch[k] \in 1..Len(records)
  <2>1. \A t : t = flusher.batch =>
          /\ t \in Seq(Nat) /\ buffer \in Seq(Nat) /\ records \in Seq(Nat)
          /\ Settled \in Nat /\ Settled + Len(t) = Len(records) - Len(buffer)
          /\ \A k \in 1..Len(t) : t[k] = Settled + k
    BY RowsAre, Zenon
  <2>2. PICK t : t = flusher.batch
    OBVIOUS
  <2>3. /\ t \in Seq(Nat) /\ buffer \in Seq(Nat) /\ records \in Seq(Nat)
        /\ Settled \in Nat /\ Settled + Len(t) = Len(records) - Len(buffer)
        /\ \A k \in 1..Len(t) : t[k] = Settled + k
    BY <2>1, <2>2, Zenon
  <2>4. PICK a \in Nat, b \in Nat, c \in Nat : a = Len(records) /\ b = Len(buffer) /\ c = Len(t)
    BY <2>3
  <2>5. \A k \in 1..Len(t) : t[k] \in 1..Len(records)
    <3>1. Settled + c <= a
      BY <2>3, <2>4
    <3>2. \A k \in 1..c : Settled + k \in 1..a
      BY <2>3, <3>1
    <3> QED
      BY <2>3, <2>4, <3>2
  <2>6. Len(t) \in Nat /\ Len(records) \in Nat /\ Len(buffer) \in Nat
    BY <2>4
  <2> QED
    BY <2>2, <2>3, <2>5, <2>6
<1>6. ToSet(flusher.batch) = {flusher.batch[k] : k \in 1..Len(flusher.batch)}
  BY <1>5, ToSetAre
<1>7. reported' \subseteq 1..Len(records')
  <2>1. ToSet(flusher.batch) \subseteq 1..Len(records) /\ reported \subseteq 1..Len(records)
    <3>1. \A k \in 1..Len(flusher.batch) : flusher.batch[k] \in 1..Len(records)
      BY <1>5
    <3>2. ToSet(flusher.batch) \subseteq 1..Len(records)
      BY <1>6, <3>1, Zenon
    <3>3. reported \subseteq 1..Len(records)
      BY DEF TelemetryInv, TelemetryTypes
    <3> QED
      BY <3>2, <3>3
  <2> QED
    BY <1>1, <2>1 DEF BatchMayArrive
<1>8. InOrder'
  <2>1. CASE arrived' = arrived
    BY <1>1, <1>4, <2>1 DEF TelemetryInv, InOrder
  <2>2. CASE arrived' = new
    BY <1>3, <1>4, <2>2 DEF InOrder
  <2> QED
    BY <1>2, <2>1, <2>2 DEF BatchMayArrive
<1>9. /\ \A k \in 1..Len(arrived') : arrived'[k] \in 1..(Len(records') - Len(buffer'))
      /\ \A n \in Nat : Copies(arrived', n) <= 1 + lost /\ Copies(arrived', n) \in Nat
  <2>1. \A n \in Nat : Copies(arrived', n) <= 1 + lost
    BY <1>2, <1>3 DEF TelemetryInv, CopiesInv, BatchMayArrive
  <2>2. \A n \in Nat : Copies(arrived', n) \in Nat
    BY <1>4, CopiesAre
  <2> QED
    BY <1>1, <1>2, <1>3, <2>1, <2>2 DEF TelemetryInv, CopiesInv, BatchMayArrive
<1>11. NumbersInv'
  BY <1>1, NumbersRest
<1>12. CASE BatchSettles
  <2>1. /\ flusher'.batch = <<>> /\ flusher'.at = (IF flusher.last THEN "done" ELSE "select") /\ flusher'.last = FALSE
        /\ flusher' \in [at : {"select", "post", "wait", "done"}, batch : Seq(Nat), attempt : 0..ExportAttempts, last : BOOLEAN]
    <3>1. PICK at \in {"select", "done"} : at = (IF flusher.last THEN "done" ELSE "select")
      OBVIOUS
    <3>2. flusher' = [at |-> at, batch |-> <<>>, attempt |-> 0, last |-> FALSE]
      BY <1>12, <3>1 DEF BatchSettles, Finished, NoBatch
    <3>3. 0 \in 0..ExportAttempts
      BY TelemetryAssumption
    <3> QED
      BY <3>1, <3>2, <3>3
  <2>2. TelemetryTypes'
    BY <1>0, <1>1, <1>4, <1>7, <2>1 DEF TelemetryInv, TelemetryTypes
  <2>3. Settled' = Settled + Len(flusher.batch) /\ Len(flusher'.batch) = 0
    <3>1. Len(flusher'.batch) = 0
      BY <2>1
    <3>2. Settled' = Len(records) - Len(buffer) - 0
      BY <1>1, <3>1 DEF Settled
    <3>3. Len(records) - Len(buffer) - 0 = Len(records) - Len(buffer)
      BY <1>5
    <3> QED
      BY <1>5, <3>1, <3>2, <3>3
  <2>4. SettledInv'
    <3> SUFFICES ASSUME NEW i \in 1..Settled', i \notin reported' PROVE \E k \in 1..Len(arrived') : arrived'[k] = i
      BY DEF SettledInv
    <3>1. CASE i \in 1..Settled
      BY <1>0, <1>4, <3>1 DEF TelemetryInv, RowsInv, SettledInv
    <3>2. CASE i \notin 1..Settled
      <4>1. PICK k \in 1..Len(flusher.batch) : flusher.batch[k] = i
        <5>1. PICK n \in Nat : n = Len(flusher.batch)
          BY <1>5
        <5>2. i \in 1..(Settled + n)
          BY <2>3, <5>1
        <5>3. i - Settled \in 1..n /\ Settled + (i - Settled) = i
          BY <1>5, <3>2, <5>2
        <5>4. i - Settled \in 1..Len(flusher.batch) /\ flusher.batch[i - Settled] = i
          BY <1>5, <5>1, <5>3
        <5> QED
          BY <5>4
      <4>2. i \in ToSet(flusher.batch)
        BY <1>6, <4>1
      <4>3. arrived' = new
        BY <1>2, <1>12, <4>2 DEF BatchSettles
      <4>4. \E j \in 1..Len(new) : new[j] = i
        BY <1>3, <4>1
      <4> QED
        BY <4>3, <4>4
    <3> QED
      BY <3>1, <3>2
  <2>5. RowInv'
    BY <1>1, <1>5, <2>1, <2>3 DEF TelemetryInv, RowsInv, RowInv
  <2>6. BatchInv' /\ LateInv'
    BY <1>0, <1>1, <2>1 DEF TelemetryInv, TelemetryTypes, RowsInv, BatchInv, LateInv
  <2>7. CopiesInv'
    BY <1>0, <1>9, <2>1 DEF CopiesInv
  <2> QED
    BY <1>8, <1>11, <2>2, <2>4, <2>5, <2>6, <2>7 DEF TelemetryInv, RowsInv
<1>13. CASE BatchStays
  <2>1. flusher'.batch = flusher.batch /\ flusher'.last = flusher.last /\ flusher'.at \in {"post", "wait"}
    BY <1>13 DEF BatchStays
  <2>2. flusher' \in [at : {"select", "post", "wait", "done"}, batch : Seq(Nat), attempt : 0..ExportAttempts, last : BOOLEAN]
    BY <1>5, <1>13 DEF TelemetryInv, TelemetryTypes, BatchStays
  <2>3. TelemetryTypes'
    BY <1>0, <1>1, <1>4, <1>7, <2>2 DEF TelemetryInv, TelemetryTypes
  <2>4. Settled' = Settled
    BY <1>1, <2>1 DEF Settled
  <2>5. RowInv'
    BY <1>1, <2>1, <2>4 DEF TelemetryInv, RowsInv, RowInv
  <2>6. SettledInv'
    <3> SUFFICES ASSUME NEW i \in 1..Settled', i \notin reported' PROVE \E k \in 1..Len(arrived') : arrived'[k] = i
      BY DEF SettledInv
    <3>1. i \in Nat /\ i \notin reported /\ i \in 1..Settled
      BY <1>4, <1>5, <2>4
    <3>2. \E k \in 1..Len(arrived) : arrived[k] = i
      BY <1>0, <3>1 DEF TelemetryInv, RowsInv, SettledInv
    <3> QED
      BY <1>4, <3>1, <3>2
  <2>7. BatchInv' /\ LateInv'
    BY <1>0, <1>1, <1>13, <2>1 DEF TelemetryInv, TelemetryTypes, RowsInv, BatchInv, LateInv, BatchStays
  <2>8. \A k \in 1..Len(flusher.batch) : Copies(arrived', flusher.batch[k]) <= lost'
    <3> SUFFICES ASSUME NEW k \in 1..Len(flusher.batch) PROVE Copies(arrived', flusher.batch[k]) <= lost'
      OBVIOUS
    <3>1. flusher.batch[k] \in Nat
      BY <1>5
    <3>2. CASE lost' = lost + 1
      <4>1. Copies(arrived', flusher.batch[k]) <= 1 + lost
        BY <1>9, <3>1
      <4> QED
        BY <1>0, <3>2, <4>1
    <3>3. CASE arrived' = arrived
      <4>1. Copies(arrived, flusher.batch[k]) <= lost /\ Copies(arrived, flusher.batch[k]) \in Nat
        BY <1>9, <3>1, <3>3 DEF TelemetryInv, CopiesInv
      <4> QED
        BY <1>0, <3>3, <4>1
    <3> QED
      BY <1>13, <3>2, <3>3 DEF BatchStays
  <2>9. CopiesInv'
    BY <1>0, <1>9, <1>1, <2>1, <2>8 DEF CopiesInv
  <2> QED
    BY <1>8, <1>11, <2>3, <2>5, <2>6, <2>7, <2>9 DEF TelemetryInv, RowsInv
<1> QED
  BY <1>12, <1>13

(* Stop and the end of the context of Start.                                 *)
LEMMA StopStep ==
  ASSUME TelemetryInv, Stop \/ StopReturns \/ StartContextEnds
  PROVE  TelemetryInv'
<1>1. /\ UNCHANGED <<sink, recorders, sequence, records, buffer, flusher, arrived, reported, lost>>
      /\ stopReq' \in BOOLEAN /\ startCtx' \in BOOLEAN
      /\ due' = due \/ due' = AskedFor
      /\ stopReq => stopReq' 
      /\ startCtx => startCtx'
      /\ (stopReq' \/ startCtx') => (stopReq \/ startCtx) \/ due' = AskedFor
  <2>1. stopReq \in BOOLEAN /\ startCtx \in BOOLEAN
    BY DEF TelemetryInv, TelemetryTypes
  <2>2. CASE Stop
    BY <2>1, <2>2, Zenon DEF Stop
  <2>3. CASE StopReturns
    BY <2>1, <2>3, Zenon DEF StopReturns
  <2>4. CASE StartContextEnds
    BY <2>1, <2>4, Zenon DEF StartContextEnds
  <2> QED
    BY <2>2, <2>3, <2>4
<1>2. AskedFor \in Nat /\ (stopReq \/ startCtx => AskedFor = due) /\ (~(stopReq \/ startCtx) => AskedFor = Len(records))
  BY DEF AskedFor, TelemetryInv, TelemetryTypes
<1>3. TelemetryTypes'
  BY <1>1, <1>2 DEF TelemetryInv, TelemetryTypes
<1>4. LateInv'
  BY <1>1, <1>2 DEF TelemetryInv, TelemetryTypes, RowsInv, LateInv
<1>5. BatchInv' /\ RowInv' /\ SettledInv'
  BY <1>1 DEF TelemetryInv, RowsInv, BatchInv, RowInv, SettledInv, Settled
<1>6. CopiesInv' /\ InOrder'
  BY <1>1 DEF TelemetryInv, CopiesInv, InOrder
<1>7. NumbersInv'
  BY <1>1, NumbersRest
<1> QED
  BY <1>3, <1>4, <1>5, <1>6, <1>7 DEF TelemetryInv, RowsInv

LEMMA TelemetryStep == TelemetryInv /\ TelemetryNext => TelemetryInv'
<1> SUFFICES ASSUME TelemetryInv, TelemetryNext PROVE TelemetryInv'
  OBVIOUS
<1>1. ASSUME NEW r \in Recorders, RecordHTTPRequest(r) \/ RecordEvent(r) \/ TakeNumber(r) PROVE TelemetryInv'
  BY <1>1, RecorderStep, GivenStep
<1>2. CASE FlushInTime
  <2>1. Flush(FALSE) /\ sink = "http" /\ flusher.at = "select"
        /\ UNCHANGED <<sink, recorders, sequence, records, stopReq, startCtx, arrived, reported, lost, due>>
    BY <1>2 DEF FlushInTime
  <2> QED
    BY <2>1, FlushStep
<1>3. CASE FlushLast
  <2>1. Flush(TRUE) /\ sink = "http" /\ flusher.at = "select" /\ (stopReq \/ startCtx)
        /\ UNCHANGED <<sink, recorders, sequence, records, stopReq, startCtx, arrived, reported, lost, due>>
    BY <1>3 DEF FlushLast
  <2> QED
    BY <2>1, FlushStep
<1>4. CASE Accepted
  <2>1. BatchMayArrive /\ BatchSettles /\ flusher.at = "post" /\ UNCHANGED Rest
    BY <1>4 DEF Accepted, BatchMayArrive, BatchSettles
  <2> QED
    BY <2>1, PostStep
<1>5. CASE Rejected
  <2>1. BatchMayArrive /\ BatchSettles /\ flusher.at = "post" /\ UNCHANGED Rest
    BY <1>5 DEF Rejected, BatchMayArrive, BatchSettles
  <2> QED
    BY <2>1, PostStep
<1>6. flusher \in [at : {"select", "post", "wait", "done"}, batch : Seq(Nat), attempt : 0..ExportAttempts, last : BOOLEAN]
  BY DEF TelemetryInv, TelemetryTypes
<1>7. CASE NotAnswered
  <2>1. /\ flusher.at = "post" /\ UNCHANGED Rest /\ lost' \in {lost, lost + 1}
        /\ (arrived' = arrived /\ lost' = lost) \/ (arrived' = arrived \o flusher.batch /\ lost' = lost + 1)
    BY <1>7 DEF NotAnswered
  <2>2. CASE flusher.attempt = ExportAttempts
    <3>1. flusher' = Finished /\ reported' = reported \cup ToSet(flusher.batch)
      BY <1>7, <2>2 DEF NotAnswered, TryAgain
    <3>2. BatchMayArrive /\ BatchSettles
      BY <2>1, <3>1 DEF BatchMayArrive, BatchSettles
    <3> QED
      BY <2>1, <3>2, PostStep
  <2>3. CASE flusher.attempt # ExportAttempts
    <3>1. flusher' = [flusher EXCEPT !.at = "wait"] /\ reported' = reported
      BY <1>7, <2>3 DEF NotAnswered, TryAgain
    <3>2. /\ flusher' \in [at : {"post", "wait"}, batch : {flusher.batch}, attempt : 0..ExportAttempts, last : {flusher.last}]
          /\ flusher'.at = "wait" /\ flusher'.attempt < ExportAttempts
      <4>1. flusher' = [at |-> "wait", batch |-> flusher.batch, attempt |-> flusher.attempt, last |-> flusher.last]
        BY <1>6, <3>1
      <4>2. flusher.attempt \in 0..ExportAttempts /\ flusher.attempt < ExportAttempts
        BY <1>6, <2>3, TelemetryAssumption
      <4> QED
        BY <4>1, <4>2
    <3>3. BatchMayArrive /\ BatchStays
      BY <2>1, <3>1, <3>2 DEF BatchMayArrive, BatchStays
    <3> QED
      BY <2>1, <3>3, PostStep
  <2> QED
    BY <2>2, <2>3
<1>8. CASE DelayPasses
  <2>1. flusher.at = "wait" /\ flusher.attempt < ExportAttempts /\ UNCHANGED Rest /\ lost' = lost /\ arrived' = arrived
    BY <1>8 DEF DelayPasses, TelemetryInv, RowsInv, BatchInv
  <2>2. CASE flusher' = [flusher EXCEPT !.at = "post", !.attempt = @ + 1] /\ reported' = reported
    <3>1. /\ flusher' \in [at : {"post", "wait"}, batch : {flusher.batch}, attempt : 0..ExportAttempts, last : {flusher.last}]
          /\ flusher'.at = "post"
      <4>1. PICK n \in 0..ExportAttempts : n = flusher.attempt + 1
        BY <1>6, <2>1, TelemetryAssumption
      <4>2. flusher' = [at |-> "post", batch |-> flusher.batch, attempt |-> n, last |-> flusher.last]
        BY <1>6, <2>2, <4>1
      <4> QED
        BY <4>2
    <3>2. BatchMayArrive /\ BatchStays
      BY <2>1, <2>2, <3>1 DEF BatchMayArrive, BatchStays
    <3> QED
      BY <2>1, <3>2, PostStep
  <2>3. CASE flusher' = Finished /\ reported' = reported \cup ToSet(flusher.batch)
    <3>1. BatchMayArrive /\ BatchSettles
      BY <2>1, <2>3 DEF BatchMayArrive, BatchSettles
    <3> QED
      BY <2>1, <3>1, PostStep
  <2> QED
    BY <1>8, <2>2, <2>3 DEF DelayPasses
<1> QED
  BY <1>1, <1>2, <1>3, <1>4, <1>5, <1>7, <1>8, StopStep DEF TelemetryNext

(* What was given is settled, at hand or in the buffer.                      *)
LEMMA RecordsAreAccounted == TelemetryInv => TelemetryTypeOK /\ Drained /\ ArrivesInOrder /\ NumbersAreUnique
<1> SUFFICES ASSUME TelemetryInv PROVE TelemetryTypeOK /\ Drained /\ ArrivesInOrder /\ NumbersAreUnique
  OBVIOUS
<1>1. /\ buffer \in Seq(Nat) /\ arrived \in Seq(Nat) /\ flusher.batch \in Seq(Nat)
      /\ Len(buffer) \in Nat /\ Len(flusher.batch) \in Nat /\ Len(records) \in Nat
      /\ Settled \in Nat /\ Settled + Len(flusher.batch) + Len(buffer) = Len(records)
  BY DEF TelemetryInv, TelemetryTypes, RowsInv, RowInv, Settled
<1>2. /\ ToSet(buffer) = {buffer[k] : k \in 1..Len(buffer)} /\ ToSet(arrived) = {arrived[k] : k \in 1..Len(arrived)}
      /\ ToSet(flusher.batch) = {flusher.batch[k] : k \in 1..Len(flusher.batch)}
  BY <1>1 DEF ToSet
<1>3. /\ \A k \in 1..Len(buffer) : buffer[k] = Settled + Len(flusher.batch) + k
      /\ \A k \in 1..Len(flusher.batch) : flusher.batch[k] = Settled + k
  BY DEF TelemetryInv, RowsInv, RowInv
<1>4. TelemetryTypeOK
  <2>1. ToSet(buffer) \subseteq 1..Len(records)
    <3>1. PICK a \in Nat, b \in Nat, c \in Nat : a = Settled /\ b = Len(flusher.batch) /\ c = Len(buffer)
      BY <1>1
    <3>2. a + b + c = Len(records) /\ \A k \in 1..c : buffer[k] = a + b + k
      BY <1>1, <1>3, <3>1
    <3>3. \A k \in 1..c : a + b + k \in 1..(a + b + c)
      OBVIOUS
    <3>4. \A k \in 1..Len(buffer) : buffer[k] \in 1..Len(records)
      BY <3>1, <3>2, <3>3
    <3> QED
      BY <1>2, <3>4, Zenon
  <2>2. ToSet(arrived) \subseteq 1..Len(records)
    BY <1>1, <1>2 DEF TelemetryInv, CopiesInv
  <2>3. reported \subseteq 1..Len(records) /\ flusher.at \in {"select", "post", "wait", "done"} /\ flusher.attempt \in 0..ExportAttempts
    BY DEF TelemetryInv, TelemetryTypes
  <2> QED
    BY <2>1, <2>2, <2>3 DEF TelemetryTypeOK
<1>5. Drained
  <2> SUFFICES ASSUME sink = "http", NEW i \in 1..Len(records)
               PROVE  \/ i \in ToSet(arrived) \cup reported \cup ToSet(flusher.batch)
                      \/ i \in ToSet(buffer) /\ (flusher.at = "done" => i > due)
    BY DEF Drained
  <2>1. PICK hand, rest : hand = flusher.batch /\ rest = buffer
    OBVIOUS
  <2>2. /\ Settled \in Nat /\ Len(hand) \in Nat /\ Len(rest) \in Nat /\ Settled + Len(hand) + Len(rest) = Len(records)
        /\ \A k \in 1..Len(hand) : hand[k] = Settled + k
        /\ \A k \in 1..Len(rest) : rest[k] = Settled + Len(hand) + k
    <3>1. hand = flusher.batch /\ rest = buffer /\ hand \in Seq(Nat) /\ rest \in Seq(Nat)
      BY <1>1, <2>1
    <3>2. /\ Settled \in Nat /\ Settled + Len(hand) + Len(buffer) = Len(records)
          /\ \A k \in 1..Len(hand) : hand[k] = Settled + k
          /\ \A k \in 1..Len(buffer) : buffer[k] = Settled + Len(hand) + k
      BY <3>1, RowsAre
    <3>3. Len(hand) \in Nat /\ Len(rest) \in Nat
      BY <3>1
    <3> QED
      BY <3>1, <3>2, <3>3
  <2>3. CASE i \in 1..Settled
    <3>1. i \in reported \/ \E k \in 1..Len(arrived) : arrived[k] = i
      BY <2>3 DEF TelemetryInv, RowsInv, SettledInv
    <3> QED
      BY <1>2, <3>1
  <2>4. CASE i - Settled \in 1..Len(hand)
    <3>1. hand[i - Settled] = i
      BY <2>2, <2>4
    <3> QED
      BY <1>2, <2>1, <2>4, <3>1
  <2>5. CASE i - (Settled + Len(hand)) \in 1..Len(rest)
    <3>1. PICK k : k = i - (Settled + Len(hand))
      OBVIOUS
    <3>2. k \in 1..Len(rest) /\ rest[k] = i
      BY <2>2, <2>5, <3>1
    <3>3. i \in ToSet(buffer)
      BY <1>2, <2>1, <3>2
    <3>4. flusher.at = "done" => i > due
      BY <2>1, <3>2 DEF TelemetryInv, RowsInv, LateInv
    <3> QED
      BY <3>3, <3>4
  <2>6. i \in 1..Settled \/ i - Settled \in 1..Len(hand) \/ i - (Settled + Len(hand)) \in 1..Len(rest)
    <3>1. PICK a \in Nat, b \in Nat : a = Len(hand) /\ b = Len(rest)
      BY <2>2
    <3>2. i \in 1..(Settled + a + b)
      BY <2>2, <3>1
    <3>3. i \in 1..Settled \/ i - Settled \in 1..a \/ i - (Settled + a) \in 1..b
      BY <2>2, <3>2
    <3> QED
      BY <3>1, <3>3
  <2> QED
    BY <2>3, <2>4, <2>5, <2>6
<1>6. ArrivesInOrder
  <2>1. \A i : Cardinality(Arrivals(i)) = Copies(arrived, i)
    BY DEF Arrivals, Copies, Occurs
  <2>2. \A i \in 1..Len(records) : i \in Nat
    BY <1>1
  <2> QED
    BY <2>1, <2>2 DEF ArrivesInOrder, TelemetryInv, CopiesInv, InOrder
<1>7. NumbersAreUnique
  <2>1. \A i \in 1..Len(records) : records[i] \in Nat
    BY DEF TelemetryInv, TelemetryTypes
  <2>2. sequence \in Nat /\ \A r \in Recorders : recorders[r].seq \in Nat
    BY DEF TelemetryInv, TelemetryTypes
  <2> DEFINE numbered == {i \in 1..Len(records) : records[i] > 0}
             underway == {recorders[r].seq : r \in {q \in Recorders : recorders[q].at = "give"}} \ {0}
  <2>3. \A i, j \in numbered : records[i] = records[j] => i = j
    BY DEF TelemetryInv, NumbersInv
  <2>4. {records[i] : i \in numbered} \cap underway = {}
    <3> SUFFICES ASSUME NEW i \in numbered, NEW r \in Recorders, recorders[r].at = "give", recorders[r].seq = records[i]
                 PROVE  FALSE
      OBVIOUS
    <3>1. PICK n \in Nat \ {0} : records[i] = n /\ Holds(r, n)
      BY <2>1 DEF Holds
    <3> QED
      BY <3>1 DEF TelemetryInv, NumbersInv
  <2>5. {records[i] : i \in numbered} \cup underway = 1..sequence
    <3>1. {records[i] : i \in numbered} \subseteq 1..sequence
      BY <2>1, <2>2 DEF TelemetryInv, NumbersInv
    <3>2. underway \subseteq 1..sequence
      <4> SUFFICES ASSUME NEW r \in Recorders, recorders[r].at = "give", recorders[r].seq # 0
                   PROVE  recorders[r].seq \in 1..sequence
        OBVIOUS
      <4>1. PICK n \in Nat \ {0} : recorders[r].seq = n /\ Holds(r, n)
        BY <2>2 DEF Holds
      <4>2. n <= sequence
        BY <4>1 DEF TelemetryInv, NumbersInv
      <4> QED
        BY <2>2, <4>1, <4>2
    <3>3. ASSUME NEW n \in 1..sequence PROVE n \in {records[i] : i \in numbered} \cup underway
      <4>1. CASE \E i \in 1..Len(records) : records[i] = n
        BY <4>1
      <4>2. CASE \E r \in Recorders : Holds(r, n)
        BY <4>2 DEF Holds
      <4> QED
        BY <4>1, <4>2 DEF TelemetryInv, NumbersInv
    <3> QED
      BY <3>1, <3>2, <3>3
  <2> QED
    BY <2>3, <2>4, <2>5 DEF NumbersAreUnique
<1> QED
  BY <1>4, <1>5, <1>6, <1>7

-----------------------------------------------------------------------------
(* The parts beside each other.                                              *)
TransportsInv == LockedInv /\ HttpInv /\ LspInv /\ ReaderInv /\ LoginInv /\ TelemetryInv

LEMMA LockedRests == LockedInv /\ UNCHANGED vars => LockedInv'
  BY LockedStep DEF vars

LEMMA TransportsInitInv == TransportsInit => TransportsInv
  BY LockedInit, HttpInitInv, LspInitInv, ReaderInitInv, LoginInitInv, TelemetryInitInv DEF TransportsInit, TransportsInv

LEMMA TransportsStep == TransportsInv /\ [TransportsNext]_transportVars => TransportsInv'
<1> SUFFICES ASSUME TransportsInv, [TransportsNext]_transportVars PROVE TransportsInv'
  OBVIOUS
<1>1. LockedInv /\ HttpInv /\ LspInv /\ ReaderInv /\ LoginInv /\ TelemetryInv
  BY DEF TransportsInv
<1>2. LockedInv'
  BY <1>1, LockedRests, LockedStep DEF TransportsNext, transportVars
<1>3. HttpInv'
  BY <1>1, HttpRests, HttpStep DEF TransportsNext, transportVars
<1>4. LspInv'
  BY <1>1, LspRests, LspStep DEF TransportsNext, transportVars
<1>5. ReaderInv'
  BY <1>1, ReaderRests, ReaderStep DEF TransportsNext, transportVars
<1>6. LoginInv'
  BY <1>1, LoginRests, LoginStep DEF TransportsNext, transportVars
<1>7. TelemetryInv'
  BY <1>1, TelemetryRests, TelemetryStep DEF TransportsNext, transportVars
<1> QED
  BY <1>2, <1>3, <1>4, <1>5, <1>6, <1>7 DEF TransportsInv

(* What arrives belongs to whom it is given: the answer to a post, the frame *)
(* to a request, the code to a login; and what was stopped is down           *)
(* (internal/mcp, internal/lsp, internal/auth).                              *)
THEOREM AnswersAlwaysBelong == TransportsSpec => []AnswersBelong
<1> DEFINE PartInv == part \in {"locked", "http", "lsp", "stream", "login", "telemetry"} /\ TransportsInv
<1>1. TransportsInit => PartInv
  BY TransportsInitInv DEF TransportsInit
<1>2. PartInv /\ [TransportsNext]_transportVars => PartInv'
  <2> SUFFICES ASSUME PartInv, [TransportsNext]_transportVars PROVE PartInv'
    OBVIOUS
  <2>1. part' = part
    BY DEF TransportsNext, transportVars
  <2> QED
    BY <2>1, TransportsStep
<1>3. PartInv => AnswersBelong
  <2> SUFFICES ASSUME PartInv PROVE AnswersBelong
    OBVIOUS
  <2>1. /\ TypeOK /\ HttpTypeOK /\ LspTypeOK /\ ReaderTypeOK /\ LoginTypeOK /\ TelemetryTypeOK
    BY RecordsAreAccounted DEF TransportsInv, LockedInv, HttpInv, LspInv, ReaderInv, LoginInv
  <2>2. TransportsTypeOK
    BY <2>1 DEF TransportsTypeOK
  <2>3. PostedOnceWithItsHeader
    BY DEF TransportsInv, HttpInv, PostedInv, HeaderInv, PostedOnceWithItsHeader
  <2>4. AnswersAreTheirs /\ ShutdownEndsTheServer /\ OnlyOwnCode
    BY DEF TransportsInv, LspInv, TheirsInv, AnswersAreTheirs, LoginInv
  <2> QED
    BY <2>2, <2>3, <2>4 DEF AnswersBelong
<1> HIDE DEF PartInv
<1> QED
  BY <1>1, <1>2, <1>3, PTL DEF TransportsSpec

(* A turn commits the whole of what was sent: a response that was cut off, a *)
(* read that failed or stalled, is not committed unless the user cancelled   *)
(* (client.go:247-301, openaiwire/stream.go:184-191, responses.go:748-751).  *)
THEOREM StreamsAreWhole == TransportsSpec => []StreamIsWhole
<1>1. TransportsInv => StreamIsWhole
  BY NothingCutOff DEF TransportsInv
<1> QED
  BY <1>1, TransportsInitInv, TransportsStep, PTL DEF TransportsSpec

(* What was recorded before the exporter is stopped has arrived or is        *)
(* reported as lost, in order, once per lost answer more than once, and      *)
(* under a number of its own (internal/apikit, internal/apikit/telemetry).   *)
THEOREM EventsStayAccounted == TransportsSpec => []EventsAreAccounted
<1>1. TransportsInv => EventsAreAccounted
  BY RecordsAreAccounted DEF TransportsInv, EventsAreAccounted
<1> QED
  BY <1>1, TransportsInitInv, TransportsStep, PTL DEF TransportsSpec

=============================================================================
