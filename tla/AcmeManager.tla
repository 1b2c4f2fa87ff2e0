----------------------------- MODULE AcmeManager -----------------------------
(***************************************************************************)
(* AcmeManager (acme/manager.rs, acme/challenge.rs): the managed           *)
(* certificates, the domains that wait for their first certificate, the    *)
(* HTTP-01 challenge store, the channel of certificate events, and the two *)
(* tasks that obtain certificates: "startup" (run_startup_acquisition_after)*)
(* and "renewal" (the daily check).  The certificate authority and         *)
(* acme-lib are external: they are modelled by what the code does with     *)
(* their answers.  Certificates are for one domain each.                   *)
(***************************************************************************)
EXTENDS CertFiles

CONSTANTS
    Lifetime,     \* days a new certificate is valid
    Capacity,     \* events the broadcast channel keeps (100)
    MaxFailures   \* bound: failing calls of the authority and failing writes

ASSUME AcmeAssumption ==
    /\ Lifetime \in Nat /\ Capacity \in Nat \ {0}
    /\ MaxFailures \in Nat

VARIABLES
    phase,       \* "down", "loading", "starting", "built", "serving" (AutoSsl)
    managed,     \* AcmeManager.certificates: domain -> certificate
    pending,     \* pending_domains
    challenges,  \* tokens in the challenge store, named by their order
    events,      \* broadcast channel: domains of the events not yet received
    task,        \* what each of the two tasks is doing
    account,     \* account_dir: the last certificate downloaded per domain
    authorized,  \* external: domains whose validation the authority remembers
    orders,      \* external: orders placed so far
    failures     \* calls of the authority that failed so far

acmeVars == <<managed, pending, challenges, events, task, account, authorized,
              orders, failures>>

Tasks == {"startup", "renewal"}

\* back is where a task goes on when it is done with a domain, since the day
\* it went to sleep.
Asleep(now) == [pc |-> "sleep", back |-> "next", since |-> now, todo |-> {},
                dom |-> None, order |-> 0, cert |-> None]
Ended == [Asleep(0) EXCEPT !.pc = "ended"]

\* The challenge is answered by the VHost service (get_challenge_response).
Answered(token) == phase = "serving" /\ token \in challenges

Goto(t, pc) == task' = [task EXCEPT ![t].pc = pc]

\* load_existing_certificates: files that cannot be loaded are removed, the
\* .key of a .crt included.
LoadedFiles == {d \in Domains : FromFilesOk(d)}
RemoveInvalid ==
    files' = [d \in Domains |-> IF Invalid(d) THEN [key |-> None, crt |-> None]
                                ELSE files[d]]

\* AcmeManager::new, add_pending_domains with every auto-SSL domain, and
\* initialize: the certificates on disk are loaded and the daily task is spawned.
Initialize ==
    /\ RemoveInvalid
    /\ managed' = [d \in LoadedFiles |-> files[d].crt]
    /\ pending' = Domains
    /\ challenges' = {}
    /\ events' = <<>>
    /\ task' = [t \in Tasks |-> IF t = "renewal" THEN Asleep(day) ELSE Ended]

\* Mutant: the channel grows without bound.
Send_Unbounded(d) == Append(events, d)

\* send: before anybody has subscribed the event is lost; when the channel is
\* full the oldest one is overwritten: the receiver is told that it lagged,
\* logs it and goes on.
Send(d) ==
    IF phase = "loading" THEN events
    ELSE IF Len(events) = Capacity THEN Append(Tail(events), d) ELSE Append(events, d)

-----------------------------------------------------------------------------
(* Which domains a task works on.                                          *)

\* Startup, 5 s after the listeners were configured, whether or not they are up
\* by then: the pending domains are drained, and those that have a certificate,
\* fresh or not, are skipped.
StartupDrain ==
    /\ task["startup"].pc = "sleep"
    /\ task' = [task EXCEPT !["startup"] =
                   [@ EXCEPT !.pc = "next", !.todo = pending]]
    /\ pending' = {}
    /\ UNCHANGED <<day, files, phase, managed, challenges, events, account,
                   authorized, orders, failures>>

StartupNext ==
    /\ task["startup"].pc = "next"
    /\ \E d \in task["startup"].todo :
          task' = [task EXCEPT !["startup"] =
                      [@ EXCEPT !.todo = task["startup"].todo \ {d}, !.dom = d,
                                !.pc = IF d \in DOMAIN managed THEN "next" ELSE "order"]]
    /\ UNCHANGED <<day, files, phase, managed, pending, challenges, events, account,
                   authorized, orders, failures>>

StartupEnd ==
    /\ task["startup"].pc = "next"
    /\ task["startup"].todo = {}
    /\ task' = [task EXCEPT !["startup"] = Ended]
    /\ UNCHANGED <<day, files, phase, managed, pending, challenges, events, account,
                   authorized, orders, failures>>

\* The daily check, at midnight: pending domains without a fresh certificate ...
DailyDrain ==
    /\ task["renewal"].pc = "sleep"
    /\ day > task["renewal"].since
    /\ task' = [task EXCEPT !["renewal"] =
                   [@ EXCEPT !.pc = "next", !.todo = pending]]
    /\ pending' = {}
    /\ UNCHANGED <<day, files, phase, managed, challenges, events, account,
                   authorized, orders, failures>>

Fresh(d) == d \in DOMAIN managed /\ ~NeedsRenewal(managed[d])

\* ... get a manager of their own, which loads the directory again and may
\* find a certificate there ...
DailyNext ==
    /\ task["renewal"].pc = "next"
    /\ \E d \in task["renewal"].todo :
          LET cached == d \in LoadedFiles /\ ~NeedsRenewal(files[d].crt)
              pc == IF Fresh(d) THEN "next" ELSE IF cached THEN "install" ELSE "order"
          IN  /\ task' = [task EXCEPT !["renewal"] =
                             [@ EXCEPT !.todo = task["renewal"].todo \ {d}, !.dom = d,
                                       !.pc = pc]]
              /\ IF Fresh(d) THEN UNCHANGED files ELSE RemoveInvalid
    /\ UNCHANGED <<day, phase, managed, pending, challenges, events, account,
                   authorized, orders, failures>>

\* ... then the managed certificates under the threshold are renewed.
DailyRenew ==
    /\ task["renewal"].pc = "next"
    /\ task["renewal"].todo = {}
    /\ task' = [task EXCEPT !["renewal"] =
                   [@ EXCEPT !.pc = "renew", !.back = "renew",
                             !.todo = {d \in DOMAIN managed : NeedsRenewal(managed[d])}]]
    /\ UNCHANGED <<day, files, phase, managed, pending, challenges, events, account,
                   authorized, orders, failures>>

DailyRenewNext ==
    /\ task["renewal"].pc = "renew"
    /\ \E d \in task["renewal"].todo :
          task' = [task EXCEPT !["renewal"] =
                      [@ EXCEPT !.todo = task["renewal"].todo \ {d}, !.dom = d,
                                !.pc = "order"]]
    /\ UNCHANGED <<day, files, phase, managed, pending, challenges, events, account,
                   authorized, orders, failures>>

\* Then the task sleeps for 24 hours.
DailyEnd ==
    /\ task["renewal"].pc = "renew"
    /\ task["renewal"].todo = {}
    /\ task' = [task EXCEPT !["renewal"] = Asleep(day)]
    /\ UNCHANGED <<day, files, phase, managed, pending, challenges, events, account,
                   authorized, orders, failures>>

-----------------------------------------------------------------------------
(* obtain_certificate, for one domain.                                     *)

\* An error of the authority or of a file write: it is logged and the task
\* goes on with the next domain.  A write that fails leaves its file torn, a
\* validation that fails leaves its token in the store.
Fails(t) ==
    /\ task[t].pc \in {"order", "validate", "finalize", "key_open", "key_write", "download",
                       "crt_open", "crt_write"}
    /\ \/ /\ failures < MaxFailures
          /\ failures' = failures + 1
       \/ /\ task[t].pc = "validate" /\ ~Answered(task[t].order)
          /\ UNCHANGED failures
    /\ Goto(t, task[t].back)
    /\ UNCHANGED <<day, files, phase, managed, pending, challenges, events, account,
                   authorized, orders>>

\* A new order.  When the authority remembers an earlier validation,
\* confirm_validations succeeds at once, else the token is stored.
NewOrder(t) ==
    /\ task[t].pc = "order"
    /\ orders' = orders + 1
    /\ LET known == task[t].dom \in authorized
       IN  /\ task' = [task EXCEPT ![t].order = orders + 1,
                                   ![t].pc = IF known THEN "finalize" ELSE "validate"]
           /\ challenges' = IF known THEN challenges ELSE challenges \cup {orders + 1}
    /\ UNCHANGED <<day, files, phase, managed, pending, events, account, authorized,
                   failures>>

\* validate: the authority fetches the token, then it is removed.
Validate(t) ==
    /\ task[t].pc = "validate"
    /\ Answered(task[t].order)
    /\ authorized' = authorized \cup {task[t].dom}
    /\ challenges' = challenges \ {task[t].order}
    /\ Goto(t, "finalize")
    /\ UNCHANGED <<day, files, phase, managed, pending, events, account, orders,
                   failures>>

\* finalize_pkey with a new key.
Finalize(t) ==
    /\ task[t].pc = "finalize"
    /\ task' = [task EXCEPT ![t].pc = "key_open",
                   ![t].cert = Certificate(task[t].dom, task[t].order, day + Lifetime, {})]
    /\ UNCHANGED <<day, files, phase, managed, pending, challenges, events, account,
                   authorized, orders, failures>>

\* fs::write truncates a file, then writes it.
SetFile(t, file, value, pc) ==
    /\ files' = [files EXCEPT ![task[t].dom][file] = value]
    /\ Goto(t, pc)
    /\ UNCHANGED <<day, phase, managed, pending, challenges, events, account,
                   authorized, orders, failures>>

\* The key is saved before the certificate is downloaded.
KeyOpen(t) == task[t].pc = "key_open" /\ SetFile(t, "key", Torn, "key_write")
KeyWrite(t) == task[t].pc = "key_write" /\ SetFile(t, "key", task[t].order, "download")

\* download_and_save_cert puts leaf and issuer into one file of account_dir.
Download(t) ==
    /\ task[t].pc = "download"
    /\ account' = [account EXCEPT ![task[t].dom] = task[t].cert]
    /\ Goto(t, "crt_open")
    /\ UNCHANGED <<day, files, phase, managed, pending, challenges, events,
                   authorized, orders, failures>>

\* The "fullchain": X509::from_pem takes the first certificate of every file
\* of account_dir, the domain's own goes first.
FullChain(d) ==
    [account[d] EXCEPT !.rest = {e \in Domains \ {d} : account[e] # None}]

CrtOpen(t) == task[t].pc = "crt_open" /\ SetFile(t, "crt", Torn, "crt_write")
CrtWrite(t) ==
    /\ task[t].pc = "crt_write"
    /\ SetFile(t, "crt", FullChain(task[t].dom), "install")

\* The certificate is managed from now on, listeners are told.  What is
\* inserted is read from the files (or was found there by DailyNext).
Install(t) ==
    /\ task[t].pc = "install"
    /\ LET d == task[t].dom
       IN  /\ managed' = [e \in DOMAIN managed \cup {d} |->
                             IF e = d THEN files[d].crt ELSE managed[e]]
           /\ events' = Send(d)
    /\ Goto(t, task[t].back)
    /\ UNCHANGED <<day, files, phase, pending, challenges, account, authorized, orders,
                   failures>>

Obtain(t) ==
    \/ Fails(t) \/ NewOrder(t) \/ Validate(t) \/ Finalize(t) \/ KeyOpen(t) \/ KeyWrite(t)
    \/ Download(t) \/ CrtOpen(t) \/ CrtWrite(t) \/ Install(t)

Startup == StartupDrain \/ StartupNext \/ StartupEnd \/ Obtain("startup")

Daily ==
    \/ DailyDrain \/ DailyNext \/ DailyRenew \/ DailyRenewNext \/ DailyEnd
    \/ Obtain("renewal")

\* The states between two awaits at which the daily task can be cancelled.
AtAwait == task["renewal"].pc \in {"sleep", "next", "renew", "order", "install", "ended"}
=============================================================================
