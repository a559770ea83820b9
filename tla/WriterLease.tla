---------------------------- MODULE WriterLease ----------------------------
(***************************************************************************)
(* The control channel of a session host: clients on other processes send  *)
(* one request per connection, give up after five seconds, and write to    *)
(* the serial port under a lease of thirty seconds.  The handler suspends  *)
(* once, to authorize; what it does after that is one step.  Writes run    *)
(* one after the other in a promise chain.                                 *)
(***************************************************************************)
EXTENDS Naturals, Sequences

CONSTANTS
  Client,     \* processes that send or attach a console, once each
  Writes      \* how many chunks each of them writes

ASSUME WritesAssumption == Writes \in [Client -> Nat]

VARIABLES
  client,   \* what each client waits for, the lease it was given, its chunks
  outcome,  \* what each client knows of its chunks
  inbox,    \* requests the server has read and not yet authorized
  replies,  \* answers on their way
  lease,    \* the lease in force, 0 for none
  granted,  \* leases given so far
  chain,    \* writes waiting for the transport
  wire,     \* writes that reached the device, complete or in part
  server    \* "open", "closing" (control closed) or "closed" (port closed)

leaseVars == <<client, outcome, inbox, replies, lease, granted, chain, wire, server>>

Chunk == UNION {1 .. Writes[c] : c \in Client}

LeaseInit ==
  /\ client = [c \in Client |-> [at |-> "idle", lease |-> 0, chunk |-> 0]]
  /\ outcome = [c \in Client |-> [n \in Chunk |-> "none"]]
  /\ inbox = {} /\ replies = {}
  /\ lease = 0 /\ granted = 0
  /\ chain = <<>> /\ wire = <<>>
  /\ server = "open"

-----------------------------------------------------------------------------
(* The clients: SerialSessionLauncher.write and attachSerialSessionConsole *)

\* Sends a request and waits for its answer.
Request(c, kind, n) ==
  /\ client' = [client EXCEPT ![c].at = kind, ![c].chunk = n]
  /\ inbox' = IF server = "open"
       THEN inbox \cup {[from |-> c, kind |-> kind, lease |-> client[c].lease, chunk |-> n]}
       ELSE inbox

AskLease(c) ==
  /\ client[c].at = "idle" /\ Request(c, "acquire", 0)
  /\ UNCHANGED <<outcome, replies, lease, granted, chain, wire, server>>

\* The console goes on with the next chunk whatever became of the last one.
SendChunk(c) ==
  /\ client[c].at = "ready" /\ client[c].chunk < Writes[c]
  /\ Request(c, "write", client[c].chunk + 1)
  /\ outcome' = [outcome EXCEPT ![c][client[c].chunk + 1] = "sent"]
  /\ UNCHANGED <<replies, lease, granted, chain, wire, server>>

\* finally: the lease is released whether the write was answered or not.
Leave(c) ==
  /\ client[c].at = "ready"
  /\ Request(c, "release", client[c].chunk)
  /\ UNCHANGED <<outcome, replies, lease, granted, chain, wire, server>>

Settle(c, known) ==
  outcome' = IF client[c].at = "write" THEN [outcome EXCEPT ![c][client[c].chunk] = known]
                                       ELSE outcome
After(c, given) ==
  client' = [client EXCEPT ![c].lease = IF client[c].at = "acquire" THEN given ELSE client[c].lease,
                           ![c].at = IF client[c].at = "release" \/ (client[c].at = "acquire" /\ given = 0)
                                       THEN "done" ELSE "ready"]

Receive(c) == \E r \in replies :
  /\ r.to = c /\ client[c].at = r.kind /\ client[c].chunk = r.chunk
  /\ Settle(c, r.answer) /\ After(c, r.lease)
  /\ replies' = replies \ {r}
  /\ UNCHANGED <<inbox, lease, granted, chain, wire, server>>

\* Five seconds, or a socket the server destroyed.  The request stays where it is.
GivesUp(c) ==
  /\ client[c].at \in {"acquire", "write", "release"}
  /\ Settle(c, "lost") /\ After(c, 0)
  /\ UNCHANGED <<inbox, replies, lease, granted, chain, wire, server>>

-----------------------------------------------------------------------------
(* The server in the host.                                                 *)

Waits(q) == client[q.from].at = q.kind /\ client[q.from].chunk = q.chunk
Reply(q, answer, id) ==
  replies' = IF Waits(q) /\ server = "open"
    THEN replies \cup {[to |-> q.from, kind |-> q.kind, chunk |-> q.chunk,
                        answer |-> answer, lease |-> id]}
    ELSE replies

\* Mutant: any holder of a lease that was ever given may write.
OnceGiven(q) == q.lease # 0 /\ q.lease <= granted

\* requireWriterLease(): the request names the lease in force.
InForce(q) == lease # 0 /\ q.lease = lease

HandleAcquire(q) ==
  /\ q.kind = "acquire"
  /\ IF lease = 0
       THEN lease' = granted + 1 /\ granted' = granted + 1 /\ Reply(q, "ok", granted + 1)
       ELSE UNCHANGED <<lease, granted>> /\ Reply(q, "refused", 0)
  /\ UNCHANGED chain

HandleRelease(q) ==
  /\ q.kind = "release"
  /\ IF InForce(q) THEN lease' = 0 /\ Reply(q, "ok", 0)
                   ELSE UNCHANGED lease /\ Reply(q, "refused", 0)
  /\ UNCHANGED <<granted, chain>>

\* Mutant: the writes do not wait for one another.
WriteUnchained(q) ==
  /\ q.kind = "write"
  /\ IF InForce(q) THEN chain' = <<q>> \o chain /\ UNCHANGED replies
                   ELSE UNCHANGED chain /\ Reply(q, "refused", 0)
  /\ UNCHANGED <<lease, granted>>

\* A write that still owns the lease joins the chain and awaits its turn.
HandleWrite(q) ==
  /\ q.kind = "write"
  /\ IF InForce(q) THEN chain' = Append(chain, q) /\ UNCHANGED replies
                   ELSE UNCHANGED chain /\ Reply(q, "refused", 0)
  /\ UNCHANGED <<lease, granted>>

Handle == \E q \in inbox :
  /\ HandleAcquire(q) \/ HandleRelease(q) \/ HandleWrite(q)
  /\ inbox' = inbox \ {q}
  /\ UNCHANGED <<client, outcome, wire, server>>

\* transport.write of the head; it may fail before or after the bytes went out.
\* The chain goes on after a failure (previous.catch).
WriteHead ==
  /\ chain # <<>>
  /\ chain' = Tail(chain)
  /\ \/ /\ server # "closed" /\ wire' = Append(wire, Head(chain))
        /\ Reply(Head(chain), "ok", 0) \/ Reply(Head(chain), "failed", 0)
     \/ wire' = wire /\ Reply(Head(chain), "failed", 0)
  /\ UNCHANGED <<client, outcome, inbox, lease, granted, server>>

\* Thirty seconds after the last request of its owner, or later when the owner
\* renews it: the model lets a lease end at any moment, so that a renewal has no
\* effect left to model.
Expire ==
  /\ lease # 0 /\ lease' = 0
  /\ UNCHANGED <<client, outcome, inbox, replies, granted, chain, wire, server>>

\* control.close destroys the sockets and the lease is dropped; handlers that
\* wait for their authorization, and the chain, go on.
CloseControl ==
  /\ server = "open" /\ server' = "closing"
  /\ replies' = {} /\ lease' = 0
  /\ UNCHANGED <<client, outcome, inbox, granted, chain, wire>>

CloseTransport ==
  /\ server = "closing" /\ server' = "closed"
  /\ UNCHANGED <<client, outcome, inbox, replies, lease, granted, chain, wire>>

LeaseNext ==
  \/ \E c \in Client : AskLease(c) \/ SendChunk(c) \/ Leave(c) \/ Receive(c) \/ GivesUp(c)
  \/ Handle \/ WriteHead \/ Expire \/ CloseControl \/ CloseTransport

LeaseSpec == LeaseInit /\ [][LeaseNext]_leaseVars

-----------------------------------------------------------------------------
Message == [from : Client, kind : {"acquire", "write", "release"}, lease : Nat, chunk : Nat]
Answer == [to : Client, kind : {"acquire", "write", "release"}, chunk : Nat,
           answer : {"ok", "refused", "failed"}, lease : Nat]

Console == [at : {"idle", "acquire", "ready", "write", "release", "done"}, lease : Nat, chunk : Nat]

LeaseTypeOK ==
  /\ client \in [Client -> Console]
  /\ outcome \in [Client -> [Chunk -> {"none", "sent", "ok", "refused", "failed", "lost"}]]
  /\ inbox \subseteq Message /\ replies \subseteq Answer
  /\ lease \in Nat /\ granted \in Nat
  /\ chain \in Seq(Message) /\ wire \in Seq(Message)
  /\ server \in {"open", "closing", "closed"}

\* Every pair of writes on the wire, in their order.
Before(i, j) == i \in DOMAIN wire /\ j \in DOMAIN wire /\ i < j

(* One writer at a time: although a lease can run out, or be released,     *)
(* while its writes still wait, what the next lease writes comes after all *)
(* of them (session-host.ts:241-262), and nothing is written twice.        *)
LeaseOrder ==
  \A i, j \in DOMAIN wire :
    Before(i, j) => wire[i].lease <= wire[j].lease /\ wire[i] # wire[j]

(* What a client was told is true: an acknowledged chunk is on the wire,   *)
(* before every later chunk of that client, and a refused chunk is not and *)
(* will never be.  Of a lost or failed one the client knows nothing.       *)
OnWire(c, n) == \E i \in DOMAIN wire : wire[i].from = c /\ wire[i].chunk = n
AnswersTrue ==
  \A c \in Client, n \in Chunk :
    /\ outcome[c][n] = "ok" =>
         /\ OnWire(c, n)
         /\ \A i, j \in DOMAIN wire :
              Before(i, j) /\ wire[j].from = c /\ wire[i].from = c => ~(wire[j].chunk = n /\ wire[i].chunk > n)
    /\ outcome[c][n] = "refused" =>
         ~OnWire(c, n) /\ \A i \in DOMAIN chain : ~(chain[i].from = c /\ chain[i].chunk = n)

(* What the console and `session send` rely on (session-control.ts, serial-session-launcher.ts): *)
(* one writer at a time, and answers that are true.                        *)
WriterSafe == LeaseOrder /\ AnswersTrue
=============================================================================
