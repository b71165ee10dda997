-------------------------------- MODULE OAuth --------------------------------
(***************************************************************************)
(* DotMDOAuthProvider: clients, pairing codes and tokens in one JSON file. *)
(* Every operation of the provider reads the file, changes the state in    *)
(* memory and replaces the file with a copy written beside it.  Within a   *)
(* process an operation runs without a pause, as nothing it awaits ever    *)
(* blocks; the command that creates a pairing code is a process of its own *)
(* and shares the file, and the name of the copy, with the server.         *)
(***************************************************************************)
EXTENDS Integers, FiniteSets, TLC, FiniteSetsExt, Functions

CONSTANTS
    Clients,        \* client ids, each registered once
    PairingCodes,   \* codes that the command may create
    AuthCodes,      \* authorization codes, access and refresh tokens, new ones
    Tokens,         \* each time
    MaxFailed,      \* _PAIRING_MAX_FAILED_ATTEMPTS
    Concurrent,     \* may the command run in the middle of a request
    MaxCrashes

\* The ids are random strings: none is drawn twice, for whatever use.
ASSUME OAuthAssumption ==
    /\ MaxFailed \in Nat \ {0} /\ MaxCrashes \in Nat /\ Concurrent \in BOOLEAN
    /\ AuthCodes \cap Tokens = {} /\ PairingCodes \cap (AuthCodes \cup Tokens) = {}

VARIABLES
    file,       \* oauth_state.json
    tmp,        \* oauth_state.tmp
    mem,        \* process -> its state in memory
    job,        \* process -> where it is in a write of the file, and what is next
    late,       \* what is past its expiry
    fresh,      \* ids not yet given out
    told,       \* codes and tokens handed to somebody (history)
    paired,     \* pairing code -> clients it activated (history)
    redeemed,   \* authorization code or refresh token -> times it was redeemed (history)
    crashes

vars == <<file, tmp, mem, job, late, fresh, told, paired, redeemed, crashes>>
history == <<told, paired, redeemed>>

Processes == {"server", "command"}
None == "none"
New == [clients |-> {}, pending |-> <<>>, codes |-> {}, auth |-> <<>>, access |-> <<>>, refresh |-> <<>>,
        kind |-> "whole"]
Torn   == [New EXCEPT !.kind = "torn"]      \* a file that holds a part of its text
Absent == [New EXCEPT !.kind = "absent"]
Read(f, otherwise) == IF f.kind = "whole" THEN f ELSE otherwise
Without(f, S) == Restrict(f, DOMAIN f \ S)
With(f, x, y) == [z \in DOMAIN f \cup {x} |-> IF z = x THEN y ELSE f[z]]
Quiet == [pc |-> "idle", then |-> None, tell |-> {}]

Init ==
    /\ file = Absent /\ tmp = Absent
    /\ mem = [p \in Processes |-> New] /\ job = [p \in Processes |-> Quiet]
    /\ late = {} /\ fresh = Clients \cup PairingCodes \cup AuthCodes \cup Tokens
    /\ told = {} /\ paired = [k \in PairingCodes |-> {}]
    /\ redeemed = [t \in AuthCodes \cup Tokens |-> 0]
    /\ crashes = 0

----------------------------------------------------------------------------
Cached(p) == mem[p]
\* _reload_locked: a file that cannot be parsed leaves the state as it was.
Loaded(p) == Read(file, mem[p])

\* _flush: the copy is opened, which empties it, filled and renamed.
Flush(p, st, then, tell) ==
    /\ mem' = [mem EXCEPT ![p] = st]
    /\ job' = [job EXCEPT ![p] = [pc |-> "open", then |-> then, tell |-> tell]]
Answer(p, st) ==
    /\ mem' = [mem EXCEPT ![p] = st]
    /\ job' = [job EXCEPT ![p] = Quiet]
Ready(p) == job[p].pc = "idle" /\ (Concurrent \/ \A q \in Processes : job[q].pc = "idle")

OpenInPlace(p) ==
    /\ job[p].pc = "open" /\ file' = Torn
    /\ job' = [job EXCEPT ![p].pc = "fill"]
    /\ UNCHANGED <<tmp, mem, late, fresh, history, crashes>>
OpenTmp(p) ==
    /\ job[p].pc = "open" /\ tmp' = Torn
    /\ job' = [job EXCEPT ![p].pc = "fill"]
    /\ UNCHANGED <<file, mem, late, fresh, history, crashes>>

\* Without a file of that name any more, what is written has none.
FillTmp(p) ==
    /\ job[p].pc = "fill" /\ tmp' = IF tmp = Absent THEN Absent ELSE mem[p]
    /\ job' = [job EXCEPT ![p].pc = "replace"]
    /\ UNCHANGED <<file, mem, late, fresh, history, crashes>>

\* The rename fails if the other process has renamed the copy already.
Replace(p) ==
    /\ job[p].pc = "replace" /\ tmp' = Absent
    /\ IF tmp = Absent THEN UNCHANGED <<file, told>>
                     ELSE file' = tmp /\ told' = told \cup job[p].tell
    /\ job' = [job EXCEPT ![p] = IF @.then = None \/ tmp = Absent THEN Quiet
                                 ELSE [@ EXCEPT !.pc = "authorize"]]
    /\ mem' = [mem EXCEPT !["command"] = IF p = "command" THEN New ELSE @]
    /\ UNCHANGED <<late, fresh, paired, redeemed, crashes>>

----------------------------------------------------------------------------
\* Entries past their expiry go before most operations.
PurgePending(st) == [st EXCEPT !.pending = Without(@, late)]
PurgeCodes(st)   == [st EXCEPT !.codes = @ \ late]

\* The command is a new process, which reads the file twice.
CreatePairingCode(k) ==
    LET st == Read(file, New)
    IN /\ Ready("command") /\ k \in fresh /\ fresh' = fresh \ {k}
       /\ Flush("command", [PurgeCodes(st) EXCEPT !.codes = @ \cup {k}], None, {k})
       /\ UNCHANGED <<file, tmp, late, history, crashes>>

Serve == Ready("server")
RegisterClient(c) ==
    /\ Serve /\ c \in fresh /\ fresh' = fresh \ {c}
    /\ Flush("server",
             [PurgePending(Loaded("server")) EXCEPT
                  !.pending = With(@, c, [failed |-> 0, recent |-> FALSE])],
             None, {c})
    /\ UNCHANGED <<file, tmp, late, history, crashes>>

\* A code is asked for, and what has expired goes.
ShowForm(c) ==
    LET st == Loaded("server")
    IN /\ Serve /\ c \in told /\ c \notin st.clients
       /\ IF PurgePending(st) # st
          THEN Flush("server", PurgePending(st), None, {}) ELSE Answer("server", st)
       /\ UNCHANGED <<file, tmp, late, fresh, history, crashes>>

\* A pairing code of eight letters; any that does not exist is alike.
ConsumeKeeping(st, k) == PurgeCodes(st)
Consume(st, k) == [PurgeCodes(st) EXCEPT !.codes = @ \ {k}]

\* A failed attempt counts, and the last one removes the client.
Failed(pending, c) ==
    IF pending[c].failed + 1 >= MaxFailed THEN Without(pending, {c})
    ELSE With(pending, c, [failed |-> pending[c].failed + 1, recent |-> TRUE])

ActivatePendingClient(c, k) ==
    LET st == PurgePending(Loaded("server"))
        paid == Consume(st, k)
    IN /\ Serve /\ c \in DOMAIN st.pending /\ c \notin st.clients /\ ~st.pending[c].recent
       /\ IF k \in PurgeCodes(st).codes
          THEN /\ Flush("server", [paid EXCEPT !.clients = @ \cup {c},
                                               !.pending = Without(@, {c})], c, {})
               /\ paired' = [paired EXCEPT ![k] = @ \cup {c}]
          ELSE /\ Flush("server",
                        [paid EXCEPT !.pending = Failed(@, c)], None, {})
               /\ UNCHANGED paired
       /\ UNCHANGED <<file, tmp, late, fresh, told, redeemed, crashes>>

\* An authorization code, after the activation or for an active client.
Authorize(c, a) ==
    /\ \/ job["server"].pc = "authorize" /\ job["server"].then = c
       \/ Serve /\ c \in Loaded("server").clients
    /\ a \in AuthCodes \cap fresh /\ fresh' = fresh \ {a}
    /\ Flush("server", [Loaded("server") EXCEPT !.auth = With(@, a, c)], None, {a})
    /\ UNCHANGED <<file, tmp, late, history, crashes>>

Issue(st, c, ts) == [st EXCEPT !.access = With(@, ts[1], c), !.refresh = With(@, ts[2], c)]
Pairs == {ts \in (Tokens \cap fresh) \X (Tokens \cap fresh) : ts[1] # ts[2]}

\* The token endpoint checks that the code is the client's and not expired.
ExchangeAuthorizationCode(a) == \E ts \in Pairs :
    LET st == Loaded("server")
    IN /\ Serve /\ a \in (DOMAIN st.auth \cap told) \ late /\ st.auth[a] \in st.clients
       /\ Flush("server", Issue([st EXCEPT !.auth = Without(@, {a})], st.auth[a], ts), None, Range(ts))
       /\ fresh' = fresh \ Range(ts)
       /\ redeemed' = [redeemed EXCEPT ![a] = @ + 1]
       /\ UNCHANGED <<file, tmp, late, told, paired, crashes>>

Rotated(st, t) == [st EXCEPT !.refresh = Without(@, {t})]
ExchangeRefreshToken(t) == \E ts \in Pairs :
    LET st == Loaded("server")
    IN /\ Serve /\ t \in DOMAIN st.refresh \cap told /\ st.refresh[t] \in st.clients
       /\ Flush("server", Issue(Rotated(st, t), st.refresh[t], ts), None, Range(ts))
       /\ fresh' = fresh \ Range(ts)
       /\ redeemed' = [redeemed EXCEPT ![t] = @ + 1]
       /\ UNCHANGED <<file, tmp, late, told, paired, crashes>>

RevokeToken(t) ==
    LET st == Loaded("server")
    IN /\ Serve /\ t \in Tokens \cap told
       /\ Flush("server", [st EXCEPT !.access = Without(@, {t}), !.refresh = Without(@, {t})], None, {})
       /\ told' = told \ {t}
       /\ UNCHANGED <<file, tmp, late, fresh, paired, redeemed, crashes>>

----------------------------------------------------------------------------
\* Time passes: an entry expires, and a second after the last attempt.
Expire ==
    /\ \E x \in told \ (late \cup Tokens) : late' = late \cup {x}
    /\ UNCHANGED <<file, tmp, mem, job, fresh, history, crashes>>
Second ==
    LET calm(st) == [st EXCEPT !.pending = [c \in DOMAIN @ |-> [@[c] EXCEPT !.recent = FALSE]]]
    IN /\ file.kind = "whole" /\ \A p \in Processes : job[p].pc = "idle"
       /\ file' = calm(file) /\ file' # file
       /\ mem' = [mem EXCEPT !["server"] = calm(@)]
       /\ UNCHANGED <<tmp, job, late, fresh, history, crashes>>

Restart ==
    /\ crashes < MaxCrashes /\ crashes' = crashes + 1
    /\ mem' = [mem EXCEPT !["server"] = Read(file, New)]
    /\ job' = [job EXCEPT !["server"] = Quiet]
    /\ UNCHANGED <<file, tmp, late, fresh, history>>

Next ==
    \/ \E p \in Processes : OpenTmp(p) \/ FillTmp(p) \/ Replace(p)
    \/ \E k \in PairingCodes : CreatePairingCode(k)
    \/ \E c \in Clients :
        \/ RegisterClient(c) \/ ShowForm(c)
        \/ \E k \in PairingCodes : ActivatePendingClient(c, k)
        \/ \E a \in AuthCodes : Authorize(c, a)
    \/ \E a \in AuthCodes : ExchangeAuthorizationCode(a)
    \/ \E t \in Tokens : ExchangeRefreshToken(t) \/ RevokeToken(t)
    \/ Expire \/ Second \/ Restart

Spec == Init /\ [][Next]_vars

----------------------------------------------------------------------------
Issued(st) == DOMAIN st.auth \cup DOMAIN st.access \cup DOMAIN st.refresh

\* The file and the copies in memory are states of the provider, or none.
TypeOK ==
    /\ \A st \in {file, tmp, mem["server"], mem["command"]} :
        /\ DOMAIN st = DOMAIN New
        /\ st.clients \subseteq Clients /\ st.codes \subseteq PairingCodes
        /\ DOMAIN st.auth \subseteq AuthCodes
        /\ DOMAIN st.access \cup DOMAIN st.refresh \subseteq Tokens
        /\ \A c \in DOMAIN st.pending : st.pending[c].failed < MaxFailed
    /\ \A p \in Processes : job[p].pc \in {"idle", "open", "fill", "replace", "authorize"}
    /\ crashes \in 0 .. MaxCrashes

\* Whoever can read the file reads a state in which a client is either active
\* or waits for its code, and codes and tokens belong to active clients.
FileConsistent ==
    /\ file # Torn
    /\ /\ file.clients \cap DOMAIN file.pending = {}
       /\ Range(file.auth) \cup Range(file.access) \cup Range(file.refresh) \subseteq file.clients

\* What was handed out and neither redeemed, revoked nor expired is in the
\* file: no crash in the middle of a write, and no other write, loses it.
HandedOutKept ==
    /\ told \cap PairingCodes # {} => file # Absent
    /\ (\A p \in Processes : job[p].pc = "idle") =>
        \A x \in told \ (Clients \cup late) :
            \/ x \in PairingCodes /\ paired[x] # {}
            \/ x \notin PairingCodes /\ redeemed[x] > 0
            \/ x \in file.codes \cup Issued(file)

\* A pairing code activates one client; an authorization code and a refresh
\* token are redeemed once, unless the server dies before it has answered.
RedeemedOnce ==
    /\ \A k \in PairingCodes : Cardinality(paired[k]) <= 1 + crashes
    /\ \A t \in DOMAIN redeemed : redeemed[t] <= 1 + crashes
=============================================================================
