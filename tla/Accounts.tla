------------------------------ MODULE Accounts ------------------------------
(***************************************************************************)
(* Accounts at the gateway (routes_auth.py, sessions.py, models.py): a     *)
(* registration commits a row to PostgreSQL and appends CreateAccount to   *)
(* the stream, and withdraws the row when the append is refused; the       *)
(* ledger turns the record into the account's row, whose foreign key is    *)
(* the user's.  Sessions live in Redis and name users.                     *)
(*                                                                         *)
(* The stream holds the user ids of the CreateAccount records, on both     *)
(* sides of the engine, which passes them through in order.                *)
(***************************************************************************)
EXTENDS Integers, Sequences, SequencesExt

CONSTANTS Calls,      \* POST /auth/register
          NameOf,     \* the user name each call asks for
          Designated, \* bots.designated_market_maker_accounts
          Cookies,    \* session ids, drawn afresh by secrets.token_urlsafe
          MaxFaults   \* faults of Redis, the gateway and the ledger

VARIABLES
    \* PostgreSQL
    users,      \* rows of users: id -> name
    accounts,   \* user ids with a row in accounts
    nextId,     \* the sequence behind users.id
    \* the gateway
    pc, uid,    \* of each call
    told,       \* its answer, with the sequence number in a 201
    queue,      \* appends waiting for the producer
    batch,      \* appends Redis has executed, not answered: [call, seq]
    halted,
    makers,     \* RiskState.market_makers
    \* Redis
    stream,     \* user ids of the CreateAccount records
    session,    \* cookie -> user id, Unused or Ended
    \* the ledger
    applied,    \* records of the stream folded in memory
    owed,       \* _needs_full_flush
    \* history and bounds
    lost,       \* ids appended whose caller was told the append had failed
    faults

postgres  == <<users, accounts, nextId>>
calls     == <<pc, uid, told>>
producer  == <<queue, batch, halted, stream, lost>>
vars == <<postgres, calls, producer, makers, applied, owed, session, faults>>

Unused == 0
Ended == -1

Taken(name) == \E id \in DOMAIN users : users[id] = name

Init ==
    /\ users = <<>> /\ accounts = {} /\ nextId = 1
    /\ pc = [c \in Calls |-> "new"] /\ uid = [c \in Calls |-> 0]
    /\ told = [c \in Calls |-> [code |-> "none", seq |-> 0]]
    /\ queue = <<>> /\ batch = <<>> /\ halted = FALSE /\ stream = <<>> /\ lost = {}
    /\ makers = {}
    /\ applied = 0 /\ owed = FALSE
    /\ session = [k \in Cookies |-> Unused]
    /\ faults = 0

Fault == faults < MaxFaults /\ faults' = faults + 1

Goes(cs, next) == pc' = [c \in Calls |-> IF c \in cs THEN next ELSE pc[c]]

\* The calls cs end, with an answer or, when the process died, without one.
Ends(cs, code) ==
    /\ Goes(cs, "done")
    /\ told' = [c \in Calls |-> IF c \in cs THEN [code |-> code, seq |-> 0] ELSE told[c]]

-----------------------------------------------------------------------------
(* POST /auth/register: every await ends an action. *)

Lookup(c) ==
    /\ pc[c] = "new"
    /\ IF Taken(NameOf[c]) THEN Ends({c}, "conflict")
       ELSE Goes({c}, "saving") /\ UNCHANGED told
    /\ UNCHANGED <<postgres, uid, producer, makers, applied, owed, session, faults>>

\* Of two calls that both found the name free, users.username is unique: the
\* second commit fails, and the id it drew is gone.
Insert(c) ==
    /\ pc[c] = "saving"
    /\ nextId' = nextId + 1
    /\ IF Taken(NameOf[c]) THEN Ends({c}, "error") /\ UNCHANGED <<users, uid>>
       ELSE /\ users' = [id \in DOMAIN users \union {nextId} |->
                           IF id = nextId THEN NameOf[c] ELSE users[id]]
            /\ uid' = [uid EXCEPT ![c] = nextId]
            /\ Goes({c}, "saved") /\ UNCHANGED told
    /\ UNCHANGED <<accounts, producer, makers, applied, owed, session, faults>>

\* A designated account gets its privilege; StreamProducer.append is refused at
\* once while halted.
Enqueue(c) ==
    /\ pc[c] = "saved"
    /\ makers' = makers \union (IF NameOf[c] \in Designated THEN {uid[c]} ELSE {})
    /\ IF halted THEN Goes({c}, "withdrawing") /\ UNCHANGED queue
       ELSE Goes({c}, "waiting") /\ queue' = queue \o <<c>>
    /\ UNCHANGED <<postgres, uid, told, batch, halted, stream, lost, applied, owed, session,
                   faults>>

\* Fault: the caller is told to try again, and the row stays.
WithdrawNothing(c) ==
    /\ pc[c] = "withdrawing" /\ Ends({c}, "halted")
    /\ UNCHANGED <<postgres, uid, producer, makers, applied, owed, session, faults>>

\* except ExchangeHalted: the row is deleted, unless the ledger has given it an
\* account, whose reference makes the deletion fail.
Withdraw(c) ==
    /\ pc[c] = "withdrawing"
    /\ IF uid[c] \in accounts THEN Ends({c}, "error") /\ UNCHANGED users
       ELSE /\ Ends({c}, "halted")
            /\ users' = [id \in DOMAIN users \ {uid[c]} |-> users[id]]
    /\ UNCHANGED <<accounts, nextId, uid, producer, makers, applied, owed, session, faults>>

-----------------------------------------------------------------------------
(* The producer: one pipeline of everything queued, executed, then answered. *)

Waiting == ToSet(queue)
InFlight == {b.call : b \in ToSet(batch)}
UidsOf(cs) == [i \in DOMAIN cs |-> uid[cs[i]]]

Flush ==
    /\ queue # <<>> /\ batch = <<>>
    /\ stream' = stream \o UidsOf(queue)
    /\ batch' = [i \in DOMAIN queue |-> [call |-> queue[i], seq |-> Len(stream) + i]]
    /\ queue' = <<>>
    /\ UNCHANGED <<postgres, calls, halted, lost, makers, applied, owed, session, faults>>

Flushed ==
    /\ batch # <<>>
    /\ told' = [c \in Calls |->
                  IF c \in InFlight
                  THEN [code |-> "created", seq |-> (CHOOSE b \in ToSet(batch) : b.call = c).seq]
                  ELSE told[c]]
    /\ Goes(InFlight, "done")
    /\ batch' = <<>>
    /\ UNCHANGED <<postgres, uid, queue, halted, stream, lost, makers, applied, owed, session, faults>>

\* Fault: the callers are failed, and their appends sent with the next pipeline.
FlushBreaksKeepingQueue(n) ==
    /\ queue # <<>> /\ batch = <<>> /\ Fault
    /\ halted' = TRUE
    /\ Goes(Waiting, "withdrawing")
    /\ UNCHANGED <<postgres, uid, told, queue, batch, stream, lost, makers, applied, owed, session>>

\* Fault: only the call that woke the producer is failed.
FlushBreaksForFirst(n) ==
    /\ queue # <<>> /\ batch = <<>> /\ Fault
    /\ halted' = TRUE /\ queue' = <<>>
    /\ Goes({Head(queue)}, "withdrawing")
    /\ UNCHANGED <<postgres, uid, told, batch, stream, lost, makers, applied, owed, session>>

\* The connection breaks after Redis has executed the first n commands.
FlushBreaks(n) ==
    /\ queue # <<>> /\ batch = <<>> /\ Fault
    /\ stream' = stream \o UidsOf(SubSeq(queue, 1, n))
    /\ lost' = lost \union {uid[queue[i]] : i \in 1..n}
    /\ halted' = TRUE /\ queue' = <<>>
    /\ Goes(Waiting, "withdrawing")
    /\ UNCHANGED <<postgres, uid, told, batch, makers, applied, owed, session>>

ReplyLost ==
    /\ batch # <<>> /\ Fault
    /\ lost' = lost \union {uid[c] : c \in InFlight}
    /\ halted' = TRUE /\ batch' = <<>>
    /\ Goes(InFlight, "withdrawing")
    /\ UNCHANGED <<postgres, uid, told, queue, stream, makers, applied, owed, session>>

\* Redis refuses the commands: no halt, and no handler withdraws the rows.
FlushRefused ==
    /\ queue # <<>> /\ batch = <<>> /\ Fault
    /\ queue' = <<>>
    /\ Ends(Waiting, "error")
    /\ UNCHANGED <<postgres, uid, batch, halted, stream, lost, makers, applied, owed, session>>

\* watch_health
WatchHalt ==
    /\ halted /\ halted' = FALSE
    /\ UNCHANGED <<postgres, calls, queue, batch, stream, lost, makers, applied, owed, session, faults>>

\* The process is killed: its calls end without an answer, its queue is gone.
\* RiskState.from_db finds the privileged accounts again by their names.
Restart ==
    /\ Fault
    /\ Ends({c \in Calls : pc[c] \notin {"new", "done"}}, "none")
    /\ queue' = <<>> /\ batch' = <<>> /\ halted' = FALSE
    /\ makers' = {id \in DOMAIN users : users[id] \in Designated}
    /\ UNCHANGED <<postgres, uid, stream, lost, applied, owed, session>>

-----------------------------------------------------------------------------
(* The ledger: fold a batch, then write the accounts it touched, or all of  *)
(* them, in one transaction, which fails when one names no user.            *)

Project(from, to) ==
    LET touched == ToSet(SubSeq(stream, from + 1, to))
    IN  /\ applied' = to
        /\ IF touched \subseteq DOMAIN users
           THEN accounts' = accounts \union touched /\ owed' = FALSE
           ELSE owed' = TRUE /\ UNCHANGED accounts

ReadAndFlush ==
    /\ \E to \in applied + 1 .. Len(stream) : Project(IF owed THEN 0 ELSE applied, to)
    /\ UNCHANGED <<users, nextId, calls, producer, makers, session, faults>>

\* recover(): replay everything and rewrite the read model in full.
RestartLedger ==
    /\ Fault
    /\ Project(0, Len(stream))
    /\ UNCHANGED <<users, nextId, calls, producer, makers, session>>

-----------------------------------------------------------------------------
(* Sessions. *)

SignedIn(k) == session[k] > 0   \* current_user_id

Login(k) ==
    /\ session[k] = Unused
    /\ \E id \in DOMAIN users : session' = [session EXCEPT ![k] = id]
    /\ UNCHANGED <<postgres, calls, producer, makers, applied, owed, faults>>

\* Logged out, or its time to live is over.
EndSession(k) ==
    /\ SignedIn(k)
    /\ session' = [session EXCEPT ![k] = Ended]
    /\ UNCHANGED <<postgres, calls, producer, makers, applied, owed, faults>>

-----------------------------------------------------------------------------
Next ==
    \/ \E c \in Calls : Lookup(c) \/ Insert(c) \/ Enqueue(c) \/ Withdraw(c)
    \/ Flush \/ Flushed \/ ReplyLost \/ FlushRefused
    \/ \E n \in 0..Len(queue) : FlushBreaks(n)
    \/ WatchHalt \/ Restart \/ ReadAndFlush \/ RestartLedger
    \/ \E k \in Cookies : Login(k) \/ EndSession(k)

Spec == Init /\ [][Next]_vars

\* The event loop runs every call and the producer, docker-compose.yml the
\* ledger.  Clients, faults, the clock and the watchdog are left unfair.
Fairness ==
    /\ \A c \in Calls : WF_vars(Insert(c) \/ Enqueue(c) \/ Withdraw(c))
    /\ WF_vars(Flush \/ Flushed)
    /\ WF_vars(ReadAndFlush)

FairSpec == Spec /\ Fairness

-----------------------------------------------------------------------------
On(id) == \E i \in DOMAIN stream : stream[i] = id

(***************************************************************************)
(* What a call was told is what it left behind: 201, one user of that name *)
(* and its record at the number in the answer; 409, nothing; 503, no user. *)
(* And a user nobody withdrew gets an account, unless the process died or  *)
(* Redis refused the record in between (register, routes_auth.py:113-135). *)
(* The privilege to sell short is the designated accounts', before and     *)
(* after a restart, whoever registers (routes_auth.py:93-99).              *)
(***************************************************************************)
RegistrationIsWhole ==
    /\ \A c \in Calls : pc[c] = "done" =>
        CASE told[c].code = "created"  -> /\ uid[c] \in DOMAIN users /\ users[uid[c]] = NameOf[c]
                                          /\ {i \in DOMAIN stream : stream[i] = uid[c]} = {told[c].seq}
          [] told[c].code = "conflict" -> uid[c] = 0
          [] told[c].code = "halted"   -> /\ uid[c] \notin DOMAIN users
                                          /\ On(uid[c]) => uid[c] \in lost
          [] told[c].code = "error"    -> uid[c] \in DOMAIN users =>
                                              On(uid[c]) = (uid[c] \in lost)
          [] told[c].code = "none"     -> TRUE
    /\ \A c \in Calls : pc[c] = "done" /\ uid[c] \in DOMAIN users =>
          (uid[c] \in makers <=> NameOf[c] \in Designated)

(***************************************************************************)
(* Every account on the stream is one PostgreSQL can take, so that the     *)
(* read model can be rebuilt from the stream: its user is there whatever   *)
(* the call met.  models.py:3-5 and consumer.py:254-259 rely on it.        *)
(***************************************************************************)
EveryAccountHasItsUser == ToSet(stream) \subseteq DOMAIN users

\* It holds but for a user withdrawn because the reply to its append was lost.
AccountsHaveTheirUsers ==
    /\ ToSet(stream) \ lost \subseteq DOMAIN users
    /\ owed => lost \ DOMAIN users # {}
    /\ \A k \in Cookies : SignedIn(k) /\ session[k] \notin DOMAIN users =>
          \E c \in Calls : uid[c] = session[k] /\ told[c].code = "halted"

(***************************************************************************)
(* A registration ends, and one that was told 201 gets its account, if no  *)
(* reply of the producer was ever lost.                                    *)
(***************************************************************************)
GrantsLand ==
    \A c \in Calls :
        /\ pc[c] # "new" ~> pc[c] = "done"
        /\ told[c].code = "created" ~> uid[c] \in accounts \/ lost # {}
=============================================================================
