---------------------------- MODULE AutoSslProofs ----------------------------
(***************************************************************************)
(* Proofs about AutoSsl: for any domains, clients, lifetimes and bounds,   *)
(* every acceptor in use has the key of its certificate, and no running    *)
(* process replaces a certificate by one that expires earlier.             *)
(***************************************************************************)
EXTENDS AutoSsl, TLAPS

-----------------------------------------------------------------------------
(* Init.                                                                   *)

\* The records that stand for nothing are well typed.
LEMMA NothingOK ==
    /\ \A n \in Nat : TaskOK(Asleep(n)) /\ ~Working(Asleep(n)) /\ TaskGood(Asleep(n))
    /\ TaskOK(Ended) /\ ~Working(Ended) /\ TaskGood(Ended)
    /\ Ended.pc = "ended"
    /\ Ended = [pc |-> "ended", back |-> "next", since |-> 0, todo |-> {},
                dom |-> None, order |-> 0, cert |-> None]
<1>1. Ended = [pc |-> "ended", back |-> "next", since |-> 0, todo |-> {},
               dom |-> None, order |-> 0, cert |-> None]
  BY DEF Ended, Asleep
<1>2. TaskOK(Ended) /\ ~Working(Ended) /\ TaskGood(Ended)
  BY <1>1 DEF TaskOK, TaskSet, TaskSteps, Working, TaskGood
<1>3. ASSUME NEW n \in Nat PROVE TaskOK(Asleep(n)) /\ ~Working(Asleep(n)) /\ TaskGood(Asleep(n))
  BY DEF Asleep, TaskOK, TaskSet, TaskSteps, Working, TaskGood
<1>4. QED
  BY <1>1, <1>2, <1>3

\* A process that has not started has nothing that could be wrong.
LEMMA InitGood == Init => IInv
<1> SUFFICES ASSUME Init PROVE IInv
  OBVIOUS
<1>1. TypeOK
  <2>1. FilesOK /\ ManagedOK /\ EventsOK
    BY AcmeAssumption DEF Init, FilesOK, ManagedOK, EventsOK
  <2>2. TasksOK
    BY NothingOK DEF Init, TasksOK
  <2>3. ReloadOK /\ ShakesOK
    BY DEF Init, ReloadOK, ShakesOK, NoReload, NoShake
  <2>4. QED
    BY <2>1, <2>2, <2>3 DEF Init, TypeOK
<1>2. TasksApart /\ Unsubscribed
  BY NothingOK DEF Init, TasksApart, Unsubscribed, Tasks, Working, Busy, HasFirst, NoReload, Real
<1>3. \A d \in Domains : DomainGood(d)
  BY DEF Init, DomainGood, Parses, Real
<1>4. ReloadGood
  BY DEF Init, ReloadGood, NoReload
<1>5. \A t \in Tasks : TaskGood(task[t])
  BY NothingOK DEF Init
<1>6. \A c \in Clients : ShakeGood(c)
  BY DEF Init, ShakeGood, NoShake
<1>7. QED
  BY <1>1, <1>2, <1>3, <1>4, <1>5, <1>6 DEF IInv

-----------------------------------------------------------------------------
(* A step of a task that leaves files, account and the TLS layer alone.    *)

\* Two tasks never work on the same domain.
LEMMA Apart ==
    ASSUME TasksApart, TasksOK, NEW t \in Tasks, NEW u \in Tasks, t # u,
           Busy(task[t]), Busy(task[u])
    PROVE  task[t].dom # task[u].dom
<1>1. TaskOK(task["renewal"]) /\ Busy(task["startup"]) /\ Busy(task["renewal"])
  BY DEF Tasks, TasksOK
<1>2. task["startup"].dom \notin DOMAIN managed /\ HasFirst(task["startup"])
  BY <1>1 DEF TasksApart, HasFirst
<1>3. task["renewal"].back = "renew"
  BY <1>1, <1>2 DEF TasksApart, HasFirst, TaskOK, TaskSet
<1>4. task["renewal"].dom \in DOMAIN managed
  BY <1>1, <1>3 DEF TasksApart
<1>5. QED
  BY <1>2, <1>4 DEF Tasks

\* A task that is at a domain, and stays at it or is done with it.
Stays(t, r) ==
    /\ Busy(task[t]) /\ (Busy(r) \/ r.pc = task[t].back)
    /\ r.dom = task[t].dom /\ r.todo = task[t].todo /\ r.back = task[t].back

\* Such a step keeps the tasks apart, when it makes no other task's domain managed.
LEMMA ApartStays ==
    ASSUME TasksApart, TasksOK, NEW t \in Tasks, NEW r, TaskOK(r), Stays(t, r),
           task' = [task EXCEPT ![t] = r], UNCHANGED <<pending, phase>>,
           DOMAIN managed \subseteq DOMAIN managed',
           \A d \in DOMAIN managed' : d \in DOMAIN managed \/ (d = r.dom /\ ~Busy(r))
    PROVE  TasksApart'
<1>1. \A u \in Tasks : task'[u] = IF u = t THEN r ELSE task[u]
  BY DEF TasksOK
<1>2. Working(task[t]) /\ pending = {} /\ phase # "down"
  BY DEF Stays, Busy, Working, TasksApart, Tasks
<1>3. CASE t = "startup"
  <2>1. /\ task'["startup"] = r /\ task'["renewal"] = task["renewal"]
        /\ "startup" \in Tasks /\ "renewal" \in Tasks
    BY <1>1, <1>3 DEF Tasks
  <2>2. r.back = "next" /\ (Busy(r) \/ r.pc = "next") /\ HasFirst(task["startup"])
    BY <1>3 DEF Stays, TasksApart, HasFirst
  <2>3. Busy(r) => task["startup"].dom \notin DOMAIN managed'
    BY <1>3 DEF Stays, TasksApart
  <2>4. QED
    BY <1>2, <1>3, <2>1, <2>2, <2>3 DEF TasksApart, Stays, Busy, Working, HasFirst, Tasks
<1>4. CASE t = "renewal"
  <2>1. /\ task'["renewal"] = r /\ task'["startup"] = task["startup"]
        /\ "startup" \in Tasks /\ "renewal" \in Tasks
    BY <1>1, <1>4 DEF Tasks
  <2>2. HasFirst(r) => HasFirst(task["renewal"])
    BY <1>4 DEF Stays, TasksApart, HasFirst, Busy
  <2>3. Busy(task["startup"]) => task["startup"].dom \notin DOMAIN managed'
    <3>1. Busy(task["startup"]) => task["startup"].dom # r.dom
      BY <1>4, <2>1, Apart DEF Stays
    <3>2. QED
      BY <3>1 DEF TasksApart
  <2>4. r.back \in {"next", "renew"}
    BY DEF TaskOK, TaskSet
  <2>5. QED
    BY <1>2, <1>4, <2>1, <2>2, <2>3, <2>4 DEF TasksApart, Stays, Busy, Working, HasFirst, Tasks
<1>5. QED
  BY <1>3, <1>4 DEF Tasks

\* What a task may become: a good record that keeps the tasks apart.
LEMMA TaskMoves ==
    ASSUME IInv, NEW t \in Tasks, NEW r, TaskOK(r), TaskGood(r),
           task' = [task EXCEPT ![t] = r], TasksApart',
           phase \in {"down", "loading"} => events' = events,
           ManagedOK', EventsOK', pending' \subseteq Domains, authorized' \subseteq Domains,
           challenges' \subseteq Nat, orders' \in Nat, failures' \in Nat,
           UNCHANGED <<day, files, account, certVars, phase, crashes>>
    PROVE  IInv'
<1>1. /\ TypeOK /\ Unsubscribed /\ ReloadGood
      /\ \A d \in Domains : DomainGood(d)
      /\ \A u \in Tasks : TaskGood(task[u])
      /\ \A c \in Clients : ShakeGood(c)
  BY DEF IInv
<1>2. \A u \in Tasks : task'[u] = IF u = t THEN r ELSE task[u]
  BY <1>1 DEF TypeOK, TasksOK
<1>3. TypeOK'
  <2>1. TasksOK'
    BY <1>1, <1>2 DEF TypeOK, TasksOK
  <2>2. QED
    BY <1>1, <2>1 DEF TypeOK, certVars, FilesOK, ReloadOK, ShakesOK
<1>4. Unsubscribed'
  BY <1>1 DEF Unsubscribed, Real, certVars
<1>5. \A d \in Domains : DomainGood(d)'
  BY <1>1 DEF DomainGood, Parses, Real, IsPairOf, Made, certVars
<1>6. ReloadGood'
  BY <1>1 DEF ReloadGood, Parses, Real, IsPairOf, Made, certVars
<1>7. \A u \in Tasks : TaskGood(task[u])'
  BY <1>1, <1>2 DEF TaskGood, Newest, Parses, Real, Made, certVars
<1>8. \A c \in Clients : ShakeGood(c)'
  BY <1>1 DEF ShakeGood, IsPairOf, certVars
<1>9. QED
  BY <1>3, <1>4, <1>5, <1>6, <1>7, <1>8 DEF IInv

\* Steps that choose what a task works on, or that talk to the authority.
LEMMA ControlStep ==
    ASSUME IInv, UNCHANGED <<certVars, phase, crashes>>,
           \/ StartupDrain \/ StartupNext \/ StartupEnd
           \/ DailyDrain \/ DailyRenew \/ DailyRenewNext \/ DailyEnd
    PROVE  IInv'
<1>1. TypeOK /\ TasksApart /\ (\A u \in Tasks : TaskGood(task[u])) /\ TasksOK
  BY DEF IInv, TypeOK
<1>2. /\ "startup" \in Tasks /\ "renewal" \in Tasks
      /\ TaskOK(task["startup"]) /\ TaskOK(task["renewal"])
  BY <1>1 DEF Tasks, TasksOK
<1>3. ASSUME NEW t \in Tasks, NEW r, TaskOK(r), TaskGood(r), task' = [task EXCEPT ![t] = r],
             TasksApart', pending' \subseteq Domains
      PROVE  IInv'
  <2>1. UNCHANGED <<day, files, account, managed, challenges, events, authorized, orders, failures>>
    BY DEF StartupDrain, StartupNext, StartupEnd, DailyDrain, DailyRenew, DailyRenewNext, DailyEnd
  <2>2. QED
    BY <1>1, <1>3, <2>1, TaskMoves DEF TypeOK, ManagedOK, EventsOK
<1>4. ASSUME NEW r, task' = [task EXCEPT !["startup"] = r]
      PROVE  task'["startup"] = r /\ task'["renewal"] = task["renewal"]
  BY <1>1, <1>2, <1>4 DEF TasksOK
<1>5. ASSUME NEW r, task' = [task EXCEPT !["renewal"] = r]
      PROVE  task'["renewal"] = r /\ task'["startup"] = task["startup"]
  BY <1>1, <1>2, <1>5 DEF TasksOK
<1>6. pending \subseteq Domains /\ DOMAIN managed \subseteq Domains /\ day \in Nat
  BY <1>1 DEF TypeOK, ManagedOK
<1>7. CASE StartupDrain
  <2>1. PICK r : r = [task["startup"] EXCEPT !.pc = "next", !.todo = pending]
    OBVIOUS
  <2>2. task' = [task EXCEPT !["startup"] = r] /\ task["startup"].pc = "sleep"
        /\ pending' = {} /\ managed' = managed
    BY <1>7, <2>1 DEF StartupDrain
  <2>3. /\ TaskOK(r) /\ r.pc = "next" /\ r.todo = pending /\ r.back = task["startup"].back
    BY <1>2, <1>6, <2>1 DEF TaskOK, TaskSet, TaskSteps
  <2>4. TasksApart'
    BY <1>1, <1>2, <1>4, <2>2, <2>3 DEF TasksApart, Working, Busy, HasFirst, Tasks
  <2>5. QED
    BY <1>2, <1>3, <2>2, <2>3, <2>4 DEF TaskGood
<1>8. CASE StartupNext
  <2>1. PICK d \in task["startup"].todo : task' = [task EXCEPT !["startup"] =
            [@ EXCEPT !.todo = task["startup"].todo \ {d}, !.dom = d,
                      !.pc = IF d \in DOMAIN managed THEN "next" ELSE "order"]]
    BY <1>8 DEF StartupNext
  <2>2. PICK r : r = [task["startup"] EXCEPT !.todo = task["startup"].todo \ {d}, !.dom = d,
                       !.pc = IF d \in DOMAIN managed THEN "next" ELSE "order"]
    OBVIOUS
  <2>3. task' = [task EXCEPT !["startup"] = r] /\ task["startup"].pc = "next"
        /\ UNCHANGED <<pending, managed>>
    BY <2>1, <2>2, <1>8 DEF StartupNext
  <2>4. d \in Domains
    BY <1>2 DEF TaskOK, TaskSet
  <2>5. /\ TaskOK(r) /\ r.pc = IF d \in DOMAIN managed THEN "next" ELSE "order"
        /\ r.dom = d /\ r.back = task["startup"].back
    BY <1>2, <2>2, <2>4 DEF TaskOK, TaskSet, TaskSteps
  <2>6. HasFirst(task["startup"])
    BY <2>1, <2>3 DEF HasFirst
  <2>7. TasksApart'
    BY <1>1, <1>2, <1>4, <2>3, <2>5, <2>6 DEF TasksApart, Working, Busy, HasFirst, Tasks
  <2>8. QED
    BY <1>2, <1>3, <1>6, <2>3, <2>5, <2>7 DEF TaskGood
<1>9. CASE StartupEnd
  <2>1. task' = [task EXCEPT !["startup"] = Ended] /\ UNCHANGED <<pending, managed>>
    BY <1>9 DEF StartupEnd
  <2>2. TasksApart'
    BY <1>1, <1>2, <1>4, <2>1, NothingOK DEF TasksApart, Working, Busy, HasFirst, Tasks
  <2>3. QED
    BY <1>2, <1>3, <1>6, <2>1, <2>2, NothingOK
<1>10. CASE DailyDrain
  <2>1. PICK r : r = [task["renewal"] EXCEPT !.pc = "next", !.todo = pending]
    OBVIOUS
  <2>2. task' = [task EXCEPT !["renewal"] = r] /\ task["renewal"].pc = "sleep"
        /\ pending' = {} /\ managed' = managed
    BY <1>10, <2>1 DEF DailyDrain
  <2>3. /\ TaskOK(r) /\ r.pc = "next" /\ r.todo = pending /\ r.back = task["renewal"].back
    BY <1>2, <1>6, <2>1 DEF TaskOK, TaskSet, TaskSteps
  <2>4. TasksApart'
    BY <1>1, <1>2, <1>5, <2>2, <2>3 DEF TasksApart, Working, Busy, HasFirst, Tasks
  <2>5. QED
    BY <1>2, <1>3, <2>2, <2>3, <2>4 DEF TaskGood
<1>11. CASE DailyRenew
  <2>1. PICK r : r = [task["renewal"] EXCEPT !.pc = "renew", !.back = "renew",
                       !.todo = {d \in DOMAIN managed : NeedsRenewal(managed[d])}]
    OBVIOUS
  <2>2. task' = [task EXCEPT !["renewal"] = r] /\ task["renewal"].pc = "next"
        /\ UNCHANGED <<pending, managed>>
    BY <1>11, <2>1 DEF DailyRenew
  <2>3. /\ TaskOK(r) /\ r.pc = "renew" /\ r.back = "renew" /\ r.todo \subseteq DOMAIN managed
    BY <1>2, <1>6, <2>1 DEF TaskOK, TaskSet, TaskSteps
  <2>4. TasksApart'
    BY <1>1, <1>2, <1>5, <2>2, <2>3 DEF TasksApart, Working, Busy, HasFirst, Tasks
  <2>5. QED
    BY <1>2, <1>3, <1>6, <2>2, <2>3, <2>4 DEF TaskGood
<1>12. CASE DailyRenewNext
  <2>1. PICK d \in task["renewal"].todo : task' = [task EXCEPT !["renewal"] =
            [@ EXCEPT !.todo = task["renewal"].todo \ {d}, !.dom = d, !.pc = "order"]]
    BY <1>12 DEF DailyRenewNext
  <2>2. PICK r : r = [task["renewal"] EXCEPT !.todo = task["renewal"].todo \ {d}, !.dom = d,
                       !.pc = "order"]
    OBVIOUS
  <2>3. task' = [task EXCEPT !["renewal"] = r] /\ task["renewal"].pc = "renew"
        /\ UNCHANGED <<pending, managed>>
    BY <2>1, <2>2, <1>12 DEF DailyRenewNext
  <2>4. d \in Domains
    BY <1>2 DEF TaskOK, TaskSet
  <2>5. /\ TaskOK(r) /\ r.pc = "order" /\ r.dom = d /\ r.back = task["renewal"].back
        /\ r.todo \subseteq task["renewal"].todo
    BY <1>2, <2>2, <2>4 DEF TaskOK, TaskSet, TaskSteps
  <2>6. TasksApart'
    BY <1>1, <1>2, <1>5, <2>1, <2>3, <2>5 DEF TasksApart, Working, Busy, HasFirst, Tasks
  <2>7. QED
    BY <1>2, <1>3, <1>6, <2>3, <2>5, <2>6 DEF TaskGood
<1>13. CASE DailyEnd
  <2>1. task' = [task EXCEPT !["renewal"] = Asleep(day)] /\ UNCHANGED <<pending, managed>>
        /\ task["renewal"].pc = "renew"
    BY <1>13 DEF DailyEnd
  <2>2. Asleep(day).pc = "sleep" /\ Asleep(day).back = "next"
    BY DEF Asleep
  <2>3. TasksApart'
    BY <1>1, <1>2, <1>5, <2>1, <2>2 DEF TasksApart, Working, Busy, HasFirst, Tasks
  <2>4. QED
    BY <1>2, <1>3, <1>6, <2>1, <2>3, NothingOK
<1>14. QED
  BY <1>7, <1>8, <1>9, <1>10, <1>11, <1>12, <1>13

-----------------------------------------------------------------------------
(* obtain_certificate: the steps that leave files and account alone.       *)

\* The channel keeps its capacity, whatever is sent.
LEMMA SendOK ==
    ASSUME EventsOK, NEW d \in Domains PROVE Send(d) \in Seq(Domains) /\ Len(Send(d)) <= Capacity
<1>1. events \in Seq(Domains) /\ Len(events) <= Capacity /\ Capacity \in Nat \ {0}
  BY AcmeAssumption DEF EventsOK
<1>a. CASE phase = "loading"
  BY <1>1, <1>a DEF Send
<1>2. CASE phase # "loading" /\ Len(events) = Capacity
  <2>1. events # <<>> /\ Tail(events) \in Seq(Domains) /\ Len(Tail(events)) = Capacity - 1
    BY <1>1, <1>2
  <2>2. Send(d) = Append(Tail(events), d)
    BY <1>2 DEF Send
  <2>3. QED
    BY <1>1, <2>1, <2>2
<1>3. CASE phase # "loading" /\ Len(events) # Capacity
  BY <1>1, <1>3 DEF Send
<1>4. QED
  BY <1>a, <1>2, <1>3

\* A certificate made today is the newest of its domain.
LEMMA MadeToday ==
    ASSUME IInv, NEW d \in Domains, NEW cert, cert.exp = day + Lifetime
    PROVE  Newest(cert, d)
<1>1. DomainGood(d) /\ ReloadGood
  BY DEF IInv
<1>2. /\ Parses(d) => files[d].crt.exp <= day + Lifetime
      /\ Real(d) => certificates[d].cert.exp <= day + Lifetime
  BY <1>1 DEF DomainGood, Made
<1>3. reload.pc = "swap" => reload.acceptor.cert.exp <= day + Lifetime
  BY <1>1 DEF ReloadGood, Made
<1>4. QED
  BY <1>2, <1>3 DEF Newest

\* A failure, or a step with the authority.
LEMMA OrderStep ==
    ASSUME IInv, NEW t \in Tasks, UNCHANGED <<certVars, phase, crashes>>,
           Fails(t) \/ NewOrder(t) \/ Validate(t) \/ Finalize(t) \/ Install(t)
    PROVE  IInv'
<1>1. TypeOK /\ TasksApart /\ TaskGood(task[t]) /\ TasksOK /\ TaskOK(task[t]) /\ EventsOK
  BY DEF IInv, TypeOK, TasksOK
<1>2. Busy(task[t]) /\ task[t].dom \in Domains
  BY <1>1 DEF Busy, TaskOK, Fails, NewOrder, Validate, Finalize, Install
<1>3. ASSUME NEW r, TaskOK(r), r.dom = task[t].dom, r.todo = task[t].todo,
             r.back = task[t].back, Busy(r) \/ r.pc = task[t].back,
             task' = [task EXCEPT ![t] = r], managed' = managed,
             UNCHANGED <<pending, phase>>
      PROVE  TasksApart'
  BY <1>1, <1>2, <1>3, ApartStays DEF Stays
<1>4. CASE Fails(t)
  <2> DEFINE r == [task[t] EXCEPT !.pc = task[t].back]
  <2>1. task' = [task EXCEPT ![t] = r]
    BY <1>1, <1>4 DEF Fails, Goto, TasksOK
  <2>2. TaskOK(r) /\ TaskGood(r) /\ r.pc = task[t].back /\ r.dom = task[t].dom
        /\ r.todo = task[t].todo /\ r.back = task[t].back
    BY <1>1 DEF TaskOK, TaskSet, TaskSteps, TaskGood
  <2> HIDE DEF r
  <2>a. TasksApart'
    BY <1>3, <1>4, <2>1, <2>2 DEF Fails
  <2>3. failures' \in Nat
    BY <1>1, <1>4 DEF Fails, TypeOK
  <2>4. QED
    BY <1>1, <1>4, <2>a, <2>1, <2>2, <2>3, TaskMoves DEF Fails, TypeOK, ManagedOK, EventsOK
<1>5. CASE NewOrder(t)
  <2> DEFINE r == [task[t] EXCEPT !.order = orders + 1,
                       !.pc = IF task[t].dom \in authorized THEN "finalize" ELSE "validate"]
  <2>1. task' = [task EXCEPT ![t] = r]
    BY <1>1, <1>5 DEF NewOrder, TasksOK
  <2>2. TaskOK(r) /\ TaskGood(r)
    <3>1. orders + 1 \in Nat
      BY <1>1 DEF TypeOK
    <3>2. r \in TaskSet
      BY <1>1, <3>1 DEF TaskOK, TaskSet, TaskSteps
    <3>3. r.dom = task[t].dom /\ r.pc \in {"finalize", "validate"}
      BY <1>1 DEF TaskOK, TaskSet
    <3> QED
      BY <1>2, <3>2, <3>3 DEF TaskOK, TaskGood
  <2>b. r.pc \in {"finalize", "validate"} /\ r.dom = task[t].dom
        /\ r.todo = task[t].todo /\ r.back = task[t].back
    BY <1>1 DEF TaskOK, TaskSet
  <2> HIDE DEF r
  <2>a. TasksApart'
    BY <1>3, <1>5, <2>1, <2>2, <2>b DEF NewOrder, Busy
  <2>3. challenges' \subseteq Nat /\ orders' \in Nat
    BY <1>1, <1>5 DEF NewOrder, TypeOK
  <2>4. QED
    BY <1>1, <1>5, <2>a, <2>1, <2>2, <2>3, TaskMoves DEF NewOrder, TypeOK, ManagedOK, EventsOK
<1>6. CASE Validate(t)
  <2> DEFINE r == [task[t] EXCEPT !.pc = "finalize"]
  <2>1. task' = [task EXCEPT ![t] = r]
    BY <1>1, <1>6 DEF Validate, Goto, TasksOK
  <2>2. TaskOK(r) /\ TaskGood(r)
    BY <1>1, <1>2 DEF TaskOK, TaskSet, TaskSteps, TaskGood
  <2>b. r.pc = "finalize" /\ r.dom = task[t].dom
        /\ r.todo = task[t].todo /\ r.back = task[t].back
    BY <1>1 DEF TaskOK, TaskSet
  <2> HIDE DEF r
  <2>a. TasksApart'
    BY <1>3, <1>6, <2>1, <2>2, <2>b DEF Validate, Busy
  <2>3. challenges' \subseteq Nat /\ authorized' \subseteq Domains
    BY <1>1, <1>2, <1>6 DEF Validate, TypeOK
  <2>4. QED
    BY <1>1, <1>6, <2>a, <2>1, <2>2, <2>3, TaskMoves DEF Validate, TypeOK, ManagedOK, EventsOK
<1>7. CASE Finalize(t)
  <2> DEFINE cert == Certificate(task[t].dom, task[t].order, day + Lifetime, {})
             r == [task[t] EXCEPT !.pc = "key_open", !.cert = cert]
  <2>1. task' = [task EXCEPT ![t] = r]
    BY <1>1, <1>7 DEF Finalize, TasksOK
  <2>2. cert \in Certificates /\ cert.dom = task[t].dom /\ cert.exp = day + Lifetime
    BY <1>1, <1>2, AcmeAssumption DEF Certificate, Certificates, TypeOK, TaskOK, TaskSet
  <2>3. Newest(cert, task[t].dom)
    BY <1>2, <2>2, MadeToday
  <2>4. Made(cert)
    BY <1>1, <2>2, AcmeAssumption DEF Made, TypeOK
  <2> HIDE DEF cert
  <2>5. r.pc = "key_open" /\ r.cert = cert /\ r.dom = task[t].dom
        /\ r.todo = task[t].todo /\ r.back = task[t].back
    BY <1>1 DEF TaskOK, TaskSet
  <2>6. TaskOK(r)
    BY <1>1, <1>2, <2>2 DEF TaskOK, TaskSet, TaskSteps
  <2>7. TaskGood(r)
    BY <2>2, <2>3, <2>4, <2>5 DEF TaskGood
  <2> HIDE DEF r
  <2>a. TasksApart'
    BY <1>3, <1>7, <2>1, <2>5, <2>6 DEF Finalize, Busy
  <2>8. QED
    BY <1>1, <1>7, <2>a, <2>1, <2>6, <2>7, TaskMoves DEF Finalize, TypeOK, ManagedOK, EventsOK
<1>8. CASE Install(t)
  <2> DEFINE d == task[t].dom
             r == [task[t] EXCEPT !.pc = task[t].back]
  <2>1. task' = [task EXCEPT ![t] = r]
    BY <1>1, <1>8 DEF Install, Goto, TasksOK
  <2>2. TaskOK(r) /\ TaskGood(r) /\ r.pc = task[t].back /\ r.dom = task[t].dom
        /\ r.todo = task[t].todo /\ r.back = task[t].back
    BY <1>1 DEF TaskOK, TaskSet, TaskSteps, TaskGood
  <2> HIDE DEF r
  <2>3. files[d].crt \in Certificates
    BY <1>1, <1>2, <1>8 DEF Install, TaskGood, Parses, TypeOK, FilesOK
  <2>4. ManagedOK'
    BY <1>1, <1>2, <1>8, <2>3 DEF Install, TypeOK, ManagedOK
  <2>5. EventsOK'
    BY <1>1, <1>2, <1>8, SendOK DEF Install, EventsOK
  <2>6. TasksApart'
    <3>1. ~Busy(r) /\ Stays(t, r)
      BY <1>1, <1>2, <2>2 DEF Stays, Busy, TaskOK, TaskSet
    <3>2. DOMAIN managed' = DOMAIN managed \cup {d} /\ UNCHANGED <<pending, phase>>
      BY <1>8 DEF Install
    <3>3. QED
      BY <1>1, <2>1, <2>2, <3>1, <3>2, ApartStays
  <2>7. phase \in {"down", "loading"} => events' = events
    <3>1. phase # "down"
      BY <1>1, <1>2 DEF TasksApart, Busy, Tasks
    <3>2. QED
      BY <1>8, <3>1 DEF Install, Send
  <2>8. QED
    BY <1>1, <1>8, <2>1, <2>2, <2>4, <2>5, <2>6, <2>7, TaskMoves DEF Install, TypeOK
<1>9. QED
  BY <1>4, <1>5, <1>6, <1>7, <1>8

-----------------------------------------------------------------------------
(* A working task that writes files or the account directory.              *)

\* The .crt file that domain d has after the step is its own, and nothing in
\* use or about to be swapped in expires later.
NewFile(d) ==
    LET cert == files'[d].crt
    IN  /\ cert.dom = d /\ Made(cert)
        /\ Real(d) => certificates[d].cert.exp <= cert.exp
        /\ reload.pc = "swap" /\ reload.dom = d => reload.acceptor.cert.exp <= cert.exp

\* A domain's files and account entry stay as they are.
SameFiles(d) == files'[d] = files[d] /\ account'[d] = account[d]

\* What such a step has to establish.
LEMMA WorkMoves ==
    ASSUME IInv, NEW t \in Tasks,
           NEW r, task' = [task EXCEPT ![t] = r], TaskOK(r), TaskGood(task[t])', TasksApart',
           \A u \in Tasks : u # t /\ Busy(task[u]) =>
               SameFiles(task[u].dom),
           FilesOK', account' \in [Domains -> Certificates \cup {None}],
           \A d \in Domains : Parses(d)' =>
               (Parses(d) /\ files'[d].crt = files[d].crt) \/ NewFile(d),
           \A d \in Domains :
               \/ account'[d] = account[d]
               \/ account'[d].dom = d /\ Made(account'[d]),
           UNCHANGED <<day, managed, pending, challenges, events, authorized,
                       orders, failures, certVars, phase, crashes>>
    PROVE  IInv'
<1>1. /\ TypeOK /\ Unsubscribed /\ ReloadGood
      /\ \A d \in Domains : DomainGood(d)
      /\ \A u \in Tasks : TaskGood(task[u])
      /\ \A c \in Clients : ShakeGood(c)
  BY DEF IInv
<1>2. \A u \in Tasks : task'[u] = IF u = t THEN r ELSE task[u]
  BY <1>1 DEF TypeOK, TasksOK
<1>3. TypeOK'
  <2>1. TasksOK'
    BY <1>1, <1>2 DEF TypeOK, TasksOK
  <2>2. QED
    BY <1>1, <2>1 DEF TypeOK, certVars, ReloadOK, ShakesOK, ManagedOK, EventsOK
<1>4. Unsubscribed'
  BY <1>1 DEF Unsubscribed, Real, certVars
<1>5. ASSUME NEW d \in Domains PROVE DomainGood(d)'
  <2>1. Parses(d)' => files'[d].crt.dom = d /\ Made(files[d].crt)'
    BY <1>1 DEF DomainGood, NewFile, Made
  <2>2. account'[d] # None => account'[d].dom = d /\ Made(account[d])'
    BY <1>1 DEF DomainGood, Made
  <2>3. Real(d)' => IsPairOf(certificates[d], d)' /\ Made(certificates[d].cert)'
    BY <1>1 DEF DomainGood, Real, IsPairOf, Made, certVars
  <2>4. Real(d)' /\ Parses(d)' => certificates'[d].cert.exp <= files'[d].crt.exp
    BY <1>1 DEF DomainGood, Real, NewFile, certVars
  <2>5. QED
    BY <2>1, <2>2, <2>3, <2>4 DEF DomainGood
<1>6. ReloadGood'
  <2> SUFFICES ASSUME reload.pc = "swap" PROVE ReloadGood'
    BY DEF ReloadGood, certVars
  <2>1. PICK d \in Domains : d = reload.dom
    BY <1>1 DEF TypeOK, ReloadOK
  <2>2. IsPairOf(reload.acceptor, d) /\ Made(reload.acceptor.cert)
    BY <1>1, <2>1 DEF ReloadGood
  <2>3. Real(d) => certificates[d].cert.exp <= reload.acceptor.cert.exp
    BY <1>1, <2>1 DEF ReloadGood
  <2>4. Parses(d)' => reload.acceptor.cert.exp <= files'[d].crt.exp
    BY <1>1, <2>1 DEF ReloadGood, NewFile
  <2>5. QED
    BY <2>1, <2>2, <2>3, <2>4 DEF ReloadGood, certVars, Parses, IsPairOf, Made, Real
<1>7. ASSUME NEW u \in Tasks PROVE TaskGood(task[u])'
  <2>1. CASE u = t
    BY <2>1
  <2>2. CASE u # t
    <3>1. task'[u] = task[u] /\ TaskGood(task[u])
      BY <1>1, <1>2, <2>2
    <3>2. CASE ~Busy(task[u])
      BY <3>1, <3>2 DEF TaskGood, Busy
    <3>3. CASE Busy(task[u])
      <4>1. SameFiles(task[u].dom)
        BY <2>2, <3>3
      <4>2. QED
        BY <3>1, <4>1 DEF SameFiles, TaskGood, Newest, Parses, Real, Made, certVars
    <3>4. QED
      BY <3>2, <3>3
  <2>3. QED
    BY <2>1, <2>2
<1>8. \A c \in Clients : ShakeGood(c)'
  BY <1>1 DEF ShakeGood, IsPairOf, certVars
<1>9. QED
  BY <1>3, <1>4, <1>5, <1>6, <1>7, <1>8 DEF IInv

\* A write of one of the two files of the task's domain.
LEMMA FileStep ==
    ASSUME IInv, NEW t \in Tasks, UNCHANGED <<certVars, phase, crashes>>,
           KeyOpen(t) \/ KeyWrite(t) \/ CrtOpen(t) \/ CrtWrite(t)
    PROVE  IInv'
<1>1. /\ TypeOK /\ TasksApart /\ TaskGood(task[t]) /\ TasksOK /\ FilesOK /\ TaskOK(task[t])
      /\ account \in [Domains -> Certificates \cup {None}]
  BY DEF IInv, TypeOK, TasksOK
<1>2. PICK d \in Domains : d = task[t].dom
  BY <1>1 DEF TaskOK, KeyOpen, KeyWrite, CrtOpen, CrtWrite
<1>3. Busy(task[t])
  BY DEF Busy, KeyOpen, KeyWrite, CrtOpen, CrtWrite
<1>4. DomainGood(d)
  BY DEF IInv
<1> DEFINE At(p) == task[t].pc = p
<1>a. PICK pc : pc = IF At("key_open") THEN "key_write" ELSE IF At("key_write") THEN "download"
                    ELSE IF At("crt_open") THEN "crt_write" ELSE "install"
  OBVIOUS
<1>b. PICK file : file = IF At("key_open") \/ At("key_write") THEN "key" ELSE "crt"
  OBVIOUS
<1>c. PICK value : value = IF At("key_write") THEN task[t].order
                           ELSE IF At("crt_write") THEN FullChain(d) ELSE Torn
  OBVIOUS
<1>5. /\ files' = [files EXCEPT ![d][file] = value]
      /\ task' = [task EXCEPT ![t].pc = pc]
      /\ \/ pc = "key_write" /\ file = "key" /\ value = Torn /\ At("key_open")
         \/ pc = "download" /\ file = "key" /\ value = task[t].order /\ At("key_write")
         \/ pc = "crt_write" /\ file = "crt" /\ value = Torn /\ At("crt_open")
         \/ pc = "install" /\ file = "crt" /\ value = FullChain(d) /\ At("crt_write")
  <2>1. CASE KeyOpen(t)
    BY <1>2, <1>a, <1>b, <1>c, <2>1 DEF KeyOpen, SetFile, Goto
  <2>2. CASE KeyWrite(t)
    BY <1>2, <1>a, <1>b, <1>c, <2>2 DEF KeyWrite, SetFile, Goto
  <2>3. CASE CrtOpen(t)
    BY <1>2, <1>a, <1>b, <1>c, <2>3 DEF CrtOpen, SetFile, Goto
  <2>4. CASE CrtWrite(t)
    BY <1>2, <1>a, <1>b, <1>c, <2>4 DEF CrtWrite, SetFile, Goto
  <2>5. QED
    BY <2>1, <2>2, <2>3, <2>4
<1> DEFINE r == [task[t] EXCEPT !.pc = pc]
<1>6. task' = [task EXCEPT ![t] = r] /\ task'[t] = r
  BY <1>1, <1>5 DEF TasksOK
<1>7. /\ r.pc = pc /\ r.dom = d /\ r.cert = task[t].cert
      /\ r.todo = task[t].todo /\ r.back = task[t].back
      /\ TaskOK(r)
  BY <1>1, <1>2, <1>5 DEF TaskOK, TaskSet, TaskSteps
<1>8. /\ files' = [files EXCEPT ![d] = [files[d] EXCEPT ![file] = value]]
      /\ account' = account /\ day' = day
      /\ UNCHANGED <<managed, pending, challenges, events, authorized, orders, failures>>
  BY <1>5 DEF KeyOpen, KeyWrite, CrtOpen, CrtWrite, SetFile
<1>9. \A e \in Domains : e # d => files'[e] = files[e]
  BY <1>1, <1>8 DEF FilesOK
<1>10. file = "key" => files'[d].crt = files[d].crt /\ files'[d].key = value
  BY <1>1, <1>8 DEF FilesOK
<1>11. file = "crt" => files'[d].crt = value /\ files'[d].key = files[d].key
  BY <1>1, <1>8 DEF FilesOK
<1>12. pc = "install" =>
          /\ value \in Certificates /\ value.dom = d /\ value.exp = account[d].exp
          /\ Made(value) /\ Newest(account[d], d)
  <2> SUFFICES ASSUME pc = "install"
               PROVE  /\ value \in Certificates /\ value.dom = d /\ value.exp = account[d].exp
                      /\ Made(value) /\ Newest(account[d], d)
    OBVIOUS
  <2>1. account[d] \in Certificates /\ Newest(account[d], d)
    BY <1>1, <1>2, <1>5 DEF TaskGood
  <2>2. account[d].dom = d /\ Made(account[d])
    BY <1>4, <2>1, FileValueAssumption DEF DomainGood
  <2>3. value = [account[d] EXCEPT !.rest = {e \in Domains \ {d} : account[e] # None}]
    BY <1>5 DEF FullChain
  <2>4. value \in Certificates /\ value.dom = d /\ value.exp = account[d].exp
    BY <2>1, <2>2, <2>3 DEF Certificates
  <2>5. QED
    BY <2>1, <2>2, <2>4 DEF Made
<1> HIDE DEF r
<1>13. FilesOK'
  <2>1. /\ files' = [e \in Domains |-> files'[e]]
        /\ files'[d] = [key |-> files'[d].key, crt |-> files'[d].crt]
    BY <1>1, <1>5, <1>8 DEF FilesOK
  <2>2. files'[d].key \in Nat \cup {None, Torn}
    BY <1>1, <1>5, <1>10, <1>11 DEF FilesOK, TaskOK, TaskSet
  <2>3. files'[d].crt \in Certificates \cup {None, Torn}
    BY <1>1, <1>5, <1>10, <1>11, <1>12 DEF FilesOK
  <2>4. ASSUME NEW e \in Domains
        PROVE  files'[e] \in [key : Nat \cup {None, Torn}, crt : Certificates \cup {None, Torn}]
    BY <1>1, <1>9, <2>1, <2>2, <2>3 DEF FilesOK
  <2>5. QED
    BY <2>1, <2>4 DEF FilesOK
<1>14. ASSUME NEW e \in Domains, Parses(e)'
       PROVE  (Parses(e) /\ files'[e].crt = files[e].crt) \/ NewFile(e)
  <2>1. CASE e # d
    BY <1>9, <1>14, <2>1 DEF Parses
  <2>2. CASE e = d /\ file = "key"
    BY <1>10, <1>14, <2>2 DEF Parses
  <2>3. CASE e = d /\ file = "crt"
    <3>1. pc = "install"
      BY <1>5, <1>11, <1>14, <2>3 DEF Parses
    <3>2. QED
      BY <1>11, <1>12, <2>3, <3>1 DEF NewFile, Newest
  <2>4. QED
    BY <1>5, <2>1, <2>2, <2>3
<1>15. TaskGood(task[t])'
  <2>1. CASE file = "key"
    <3>1. PICK cert \in Certificates : cert = task[t].cert /\ cert.dom = d
      BY <1>1, <1>2, <1>5, <2>1 DEF TaskGood
    <3>2. Made(cert) /\ Newest(cert, d)
      BY <1>1, <1>2, <1>5, <2>1, <3>1 DEF TaskGood
    <3>3. Made(cert)' /\ Newest(cert, d)'
      BY <1>8, <1>10, <2>1, <3>2 DEF Made, Newest, Parses, Real, certVars
    <3>4. task'[t].cert = cert /\ task'[t].dom = d /\ task'[t].pc = pc
      BY <1>6, <1>7, <3>1
    <3>5. QED
      BY <1>5, <2>1, <3>1, <3>3, <3>4 DEF TaskGood
  <2>2. CASE pc = "crt_write"
    <3>1. account[d] \in Certificates /\ Newest(account[d], d) /\ ~Parses(d)'
      BY <1>1, <1>2, <1>5, <1>11, <2>2 DEF TaskGood, Parses
    <3>2. Newest(account[d], d)'
      BY <1>8, <3>1 DEF Newest, Real, certVars
    <3>3. QED
      BY <1>6, <1>7, <1>8, <2>2, <3>1, <3>2 DEF TaskGood
  <2>3. CASE pc = "install"
    <3>1. Parses(d)'
      BY <1>5, <1>11, <1>12, <2>3, FileValueAssumption DEF Parses
    <3>2. QED
      BY <1>6, <1>7, <2>3, <3>1 DEF TaskGood
  <2>4. QED
    BY <1>5, <2>1, <2>2, <2>3
<1>16. TasksApart'
  BY <1>1, <1>2, <1>3, <1>5, <1>6, <1>7, <1>8, ApartStays DEF Stays, Busy
<1>17. \A u \in Tasks : u # t /\ Busy(task[u]) =>
           SameFiles(task[u].dom)
  <2> SUFFICES ASSUME NEW u \in Tasks, u # t, Busy(task[u])
               PROVE  SameFiles(task[u].dom)
    OBVIOUS
  <2>1. task[u].dom \in Domains /\ task[u].dom # d
    BY <1>1, <1>2, <1>3, Apart DEF TasksOK, TaskOK, Busy
  <2>2. QED
    BY <1>8, <1>9, <2>1 DEF SameFiles
<1>18. QED
  BY <1>1, <1>6, <1>7, <1>8, <1>13, <1>14, <1>15, <1>16, <1>17, WorkMoves

\* The certificate goes to the account directory.
LEMMA DownloadStep ==
    ASSUME IInv, NEW t \in Tasks, UNCHANGED <<certVars, phase, crashes>>, Download(t)
    PROVE  IInv'
<1>1. /\ TypeOK /\ TasksApart /\ TaskGood(task[t]) /\ TasksOK /\ FilesOK /\ TaskOK(task[t])
      /\ account \in [Domains -> Certificates \cup {None}]
  BY DEF IInv, TypeOK, TasksOK
<1>2. PICK d \in Domains : d = task[t].dom
  BY <1>1 DEF TaskOK, Download
<1>3. PICK cert \in Certificates : cert = task[t].cert
  BY <1>1 DEF TaskGood, Download
<1>4. cert.dom = d /\ Made(cert) /\ Newest(cert, d) /\ Busy(task[t])
  BY <1>1, <1>2, <1>3 DEF TaskGood, Download, Busy
<1>5. PICK r : r = [task[t] EXCEPT !.pc = "crt_open"]
  OBVIOUS
<1>6. task' = [task EXCEPT ![t] = r] /\ task'[t] = r
  BY <1>1, <1>5 DEF Download, Goto, TasksOK
<1>7. r.pc = "crt_open" /\ r.dom = d /\ r.todo = task[t].todo /\ r.back = task[t].back
      /\ TaskOK(r)
  BY <1>1, <1>2, <1>5 DEF TaskOK, TaskSet, TaskSteps
<1>8. /\ account' = [account EXCEPT ![d] = cert]
      /\ UNCHANGED <<day, files, managed, pending, challenges, events, authorized,
                     orders, failures>>
  BY <1>2, <1>3 DEF Download
<1>9. /\ account' \in [Domains -> Certificates \cup {None}]
      /\ account'[d] = cert /\ (\A e \in Domains : e # d => account'[e] = account[e])
      /\ \A e \in Domains :
            \/ account'[e] = account[e]
            \/ account'[e].dom = e /\ Made(account'[e])
  <2>1. account'[d] = cert /\ \A e \in Domains : e # d => account'[e] = account[e]
    BY <1>1, <1>8
  <2>2. account' \in [Domains -> Certificates \cup {None}]
    BY <1>1, <1>8
  <2>3. QED
    BY <1>4, <2>1, <2>2 DEF Made
<1>10. FilesOK' /\ \A e \in Domains : Parses(e)' => Parses(e) /\ files'[e].crt = files[e].crt
  BY <1>1, <1>8 DEF FilesOK, Parses
<1>11. TaskGood(task[t])'
  <2>1. Newest(cert, d)'
    BY <1>4, <1>8 DEF Newest, Parses, Real, certVars
  <2>2. task'[t].pc = "crt_open" /\ task'[t].dom = d
    BY <1>6, <1>7
  <2>3. QED
    BY <1>9, <2>1, <2>2 DEF TaskGood
<1>12. UNCHANGED <<day, managed, pending, challenges, events, authorized,
                   orders, failures, certVars, phase, crashes>>
  BY <1>8
<1>13. TasksApart'
  BY <1>1, <1>2, <1>4, <1>6, <1>7, <1>8, ApartStays DEF Stays, Busy
<1>14. \A u \in Tasks : u # t /\ Busy(task[u]) =>
           SameFiles(task[u].dom)
  <2> SUFFICES ASSUME NEW u \in Tasks, u # t, Busy(task[u])
               PROVE  SameFiles(task[u].dom)
    OBVIOUS
  <2>1. task[u].dom \in Domains /\ task[u].dom # d
    BY <1>1, <1>2, <1>4, Apart DEF TasksOK, TaskOK, Busy
  <2>2. QED
    BY <1>8, <1>9, <2>1 DEF SameFiles
<1>15. QED
  BY <1>6, <1>7, <1>9, <1>10, <1>11, <1>12, <1>13, <1>14, WorkMoves

\* Removing the files that cannot be loaded removes no certificate.
LEMMA RemoveOK ==
    ASSUME FilesOK, RemoveInvalid \/ UNCHANGED files
    PROVE  /\ FilesOK'
           /\ \A d \in Domains : Parses(d)' => Parses(d) /\ files'[d].crt = files[d].crt
           /\ \A d \in LoadedFiles : Parses(d)'
BY DEF FilesOK, RemoveInvalid, Parses, Invalid, LoadedFiles, FromFilesOk

\* The daily check takes a pending domain, after loading the directory again.
LEMMA DailyNextStep ==
    ASSUME IInv, UNCHANGED <<certVars, phase, crashes>>, DailyNext
    PROVE  IInv'
<1>1. /\ TypeOK /\ TasksOK /\ FilesOK /\ TaskOK(task["renewal"]) /\ "renewal" \in Tasks
      /\ account \in [Domains -> Certificates \cup {None}]
      /\ TasksApart /\ task["renewal"].pc = "next"
  BY DEF IInv, TypeOK, TasksOK, Tasks, DailyNext
<1>2. PICK d \in task["renewal"].todo :
          LET cached == d \in LoadedFiles /\ ~NeedsRenewal(files[d].crt)
              pc == IF Fresh(d) THEN "next" ELSE IF cached THEN "install" ELSE "order"
          IN  /\ task' = [task EXCEPT !["renewal"] =
                             [@ EXCEPT !.todo = task["renewal"].todo \ {d}, !.dom = d,
                                       !.pc = pc]]
              /\ IF Fresh(d) THEN UNCHANGED files ELSE RemoveInvalid
  BY DEF DailyNext
<1>3. PICK pc \in {"next", "install", "order"} :
          /\ pc = "install" => d \in LoadedFiles
          /\ task' = [task EXCEPT !["renewal"] =
                         [@ EXCEPT !.todo = task["renewal"].todo \ {d}, !.dom = d, !.pc = pc]]
  BY <1>2
<1>4. PICK r : r = [task["renewal"] EXCEPT !.todo = task["renewal"].todo \ {d}, !.dom = d,
                                           !.pc = pc]
  OBVIOUS
<1>5. task' = [task EXCEPT !["renewal"] = r] /\ task'["renewal"] = r
  BY <1>1, <1>3, <1>4 DEF TasksOK
<1>6. d \in Domains /\ r.pc = pc /\ r.dom = d /\ TaskOK(r) /\ r.back = task["renewal"].back
  BY <1>1, <1>4 DEF TaskOK, TaskSet, TaskSteps
<1>7. RemoveInvalid \/ UNCHANGED files
  BY <1>2
<1>8. /\ FilesOK'
      /\ \A e \in Domains : Parses(e)' => Parses(e) /\ files'[e].crt = files[e].crt
      /\ \A e \in LoadedFiles : Parses(e)'
  BY <1>1, <1>7, RemoveOK
<1>9. TaskGood(task["renewal"])'
  <2>1. task'["renewal"].pc = pc /\ task'["renewal"].dom = d
    BY <1>5, <1>6
  <2>2. pc = "install" => Parses(d)'
    BY <1>3, <1>8
  <2>3. QED
    BY <1>3, <2>1, <2>2 DEF TaskGood
<1>10. HasFirst(task["renewal"]) /\ ~Busy(task["startup"])
  BY <1>1 DEF HasFirst, TasksApart
<1>11. TasksApart'
  <2>1. task'["renewal"] = r /\ task'["startup"] = task["startup"] /\ UNCHANGED <<pending, managed>>
    BY <1>1, <1>5 DEF TasksOK, Tasks, DailyNext
  <2>2. QED
    BY <1>1, <1>3, <1>6, <1>10, <2>1 DEF TasksApart, Working, Busy, HasFirst, Tasks
<1>12. \A u \in Tasks : u # "renewal" => ~Busy(task[u])
  BY <1>10 DEF Tasks
<1>13. QED
  BY <1>1, <1>5, <1>6, <1>8, <1>9, <1>11, <1>12, WorkMoves DEF DailyNext

\* Every step of the two tasks.
LEMMA AcmeStep == ASSUME IInv, Acme PROVE IInv'
<1>1. UNCHANGED <<certVars, phase, crashes>> /\ "startup" \in Tasks /\ "renewal" \in Tasks
  BY DEF Acme, Tasks
<1>2. ASSUME NEW t \in Tasks, Obtain(t) PROVE IInv'
  BY <1>1, <1>2, OrderStep, FileStep, DownloadStep DEF Obtain
<1>3. CASE DailyNext
  BY <1>1, <1>3, DailyNextStep
<1>4. CASE \/ StartupDrain \/ StartupNext \/ StartupEnd
           \/ DailyDrain \/ DailyRenew \/ DailyRenewNext \/ DailyEnd
  BY <1>1, <1>4, ControlStep
<1>5. QED
  BY <1>1, <1>2, <1>3, <1>4 DEF Acme, Startup, Daily

-----------------------------------------------------------------------------
(* The process: start, serving, crash, and days that pass.                 *)

\* A start finds certificates on disk; every domain has the bootstrap acceptor.
LEMMA StartStep == ASSUME IInv, Start PROVE IInv'
<1>1. /\ TypeOK /\ FilesOK /\ phase = "down" /\ day \in Nat
      /\ \A d \in Domains : DomainGood(d)
  BY DEF IInv, TypeOK, Start
<1>2. /\ RemoveInvalid /\ managed' = [d \in LoadedFiles |-> files[d].crt]
      /\ pending' = Domains /\ challenges' = {} /\ events' = <<>>
      /\ task' = [t \in Tasks |-> IF t = "renewal" THEN Asleep(day) ELSE Ended]
      /\ phase' = "loading"
      /\ UNCHANGED <<day, account, authorized, orders, failures, crashes>>
  BY DEF Start, Initialize
<1>3. /\ certificates' = [d \in Domains |-> Bootstrap]
      /\ tlsReal' = {}
      /\ intermediates' = [d \in Domains |-> {}]
      /\ locks' = {} /\ reload' = NoReload /\ shake' = [c \in Clients |-> NoShake]
  BY DEF Start, New
<1>4. ASSUME NEW d \in Domains, d \in LoadedFiles
      PROVE  files[d].crt \in Certificates /\ Parses(d)
  BY <1>1, <1>4 DEF LoadedFiles, FromFilesOk, Parses, FilesOK
<1>5. /\ FilesOK'
      /\ \A d \in Domains : Parses(d)' => Parses(d) /\ files'[d].crt = files[d].crt
  BY <1>1, <1>2, RemoveOK
<1>6. task'["renewal"] = Asleep(day) /\ task'["startup"] = Ended
  BY <1>2 DEF Tasks
<1>7. TypeOK'
  <2>1. ManagedOK'
    BY <1>2, <1>4 DEF ManagedOK, LoadedFiles
  <2>2. TasksOK'
    BY <1>1, <1>2, <1>6, NothingOK DEF TasksOK, Tasks
  <2>3. EventsOK'
    BY <1>2, AcmeAssumption DEF EventsOK
  <2>4. ReloadOK' /\ ShakesOK'
    BY <1>3 DEF ReloadOK, ShakesOK, NoReload, NoShake
  <2>5. QED
    BY <1>1, <1>2, <1>3, <1>5, <2>1, <2>2, <2>3, <2>4 DEF TypeOK
<1>8. /\ Asleep(day).pc = "sleep" /\ Asleep(day).back = "next"
      /\ Ended.pc = "ended" /\ Ended.back = "next"
  BY NothingOK DEF Asleep
<1>9. TasksApart' /\ Unsubscribed'
  BY <1>2, <1>3, <1>6, <1>8 DEF TasksApart, Unsubscribed, Tasks, Working, Busy, HasFirst,
     NoReload, Real
<1>10. ASSUME NEW d \in Domains PROVE DomainGood(d)'
  <2>1. DomainGood(d)
    BY <1>1
  <2>2. Parses(d)' => files'[d].crt.dom = d /\ Made(files[d].crt)'
    BY <1>2, <1>5, <2>1 DEF DomainGood, Made
  <2>3. account'[d] # None => account'[d].dom = d /\ Made(account[d])'
    BY <1>2, <2>1 DEF DomainGood, Made
  <2>4. QED
    BY <1>3, <2>2, <2>3 DEF DomainGood, Real
<1>11. ReloadGood'
  BY <1>3 DEF ReloadGood, NoReload
<1>12. \A t \in Tasks : TaskGood(task[t])'
  BY <1>6, <1>8 DEF TaskGood, Tasks
<1>13. \A c \in Clients : ShakeGood(c)'
  BY <1>3 DEF ShakeGood, NoShake
<1>14. QED
  BY <1>7, <1>9, <1>10, <1>11, <1>12, <1>13 DEF IInv

\* The pairs found on disk are installed.
LEMMA SubscribeStep == ASSUME IInv, Subscribe PROVE IInv'
<1>1. /\ TypeOK /\ FilesOK /\ phase = "loading" /\ TasksApart /\ Unsubscribed
      /\ \A d \in Domains : DomainGood(d)
      /\ \A u \in Tasks : TaskGood(task[u])
      /\ \A c \in Clients : ShakeGood(c)
  BY DEF IInv, TypeOK, Subscribe
<1>2. /\ phase' = "starting"
      /\ UNCHANGED <<day, files, managed, pending, challenges, events, task, account, authorized,
                     orders, failures, locks, reload, shake, crashes>>
  BY DEF Subscribe, InstallAll, acmeVars
<1> DEFINE E == EagerInstall
<1>3. /\ certificates' = [d \in Domains |-> IF d \in E
                                            THEN Acceptor(files[d].crt, files[d].key)
                                            ELSE certificates[d]]
      /\ tlsReal' = E
      /\ intermediates' = [d \in Domains |-> IF d \in E THEN files[d].crt.rest ELSE {}]
  BY DEF Subscribe, InstallAll
<1>4. ASSUME NEW d \in E
      PROVE  /\ d \in Domains /\ Parses(d) /\ files[d].crt \in Certificates
             /\ Acceptor(files[d].crt, files[d].key) \in Acceptors
             /\ files[d].crt.rest \subseteq Domains
             /\ IsPairOf(Acceptor(files[d].crt, files[d].key), d)
             /\ Acceptor(files[d].crt, files[d].key).cert = files[d].crt
  <2>1. d \in Domains /\ Parses(d) /\ files[d].key = files[d].crt.key
    BY <1>1 DEF EagerInstall, LoadsAcceptor, TypeOK, ManagedOK
  <2>2. files[d].crt \in Certificates /\ files[d].crt.dom = d
    BY <1>1, <2>1 DEF DomainGood, Parses, FilesOK
  <2>3. files[d].crt.key \in Nat /\ files[d].crt.rest \subseteq Domains
    BY <2>2 DEF Certificates
  <2>4. QED
    BY <2>1, <2>2, <2>3 DEF Acceptor, Acceptors, IsPairOf
<1> HIDE DEF E
<1>5. \A d \in Domains : certificates'[d] = IF d \in E THEN Acceptor(files[d].crt, files[d].key)
                                             ELSE Bootstrap
  BY <1>1, <1>3 DEF Unsubscribed, Real
<1>6. TypeOK'
  <2>1. certificates' \in [Domains -> Acceptors \cup {Bootstrap}]
    BY <1>3, <1>4, <1>5
  <2>2. intermediates' \in [Domains -> SUBSET Domains] /\ tlsReal' \subseteq Domains
    BY <1>3, <1>4
  <2>3. QED
    BY <1>1, <1>2, <2>1, <2>2 DEF TypeOK, FilesOK, ManagedOK, TasksOK, EventsOK, ReloadOK, ShakesOK
<1>7. TasksApart' /\ Unsubscribed'
  BY <1>1, <1>2 DEF TasksApart, Unsubscribed
<1>8. ASSUME NEW d \in Domains, Real(d)'
      PROVE  /\ d \in E /\ Parses(d) /\ files[d].crt \in Certificates
             /\ certificates'[d].cert = files[d].crt /\ IsPairOf(certificates[d], d)'
  BY <1>4, <1>5, <1>8 DEF Real, IsPairOf
<1>9. ASSUME NEW d \in Domains PROVE DomainGood(d)'
  <2>1. DomainGood(d)
    BY <1>1
  <2>2. Parses(d)' => files'[d].crt.dom = d /\ Made(files[d].crt)'
    BY <1>2, <2>1 DEF DomainGood, Made, Parses
  <2>3. account'[d] # None => account'[d].dom = d /\ Made(account[d])'
    BY <1>2, <2>1 DEF DomainGood, Made
  <2>4. CASE Real(d)'
    <3>1. files'[d].crt = files[d].crt /\ Parses(d)' /\ certificates'[d].cert = files'[d].crt
      BY <1>2, <1>8, <2>4 DEF Parses
    <3>2. certificates'[d].cert.exp <= files'[d].crt.exp
      BY <1>8, <2>4, <3>1 DEF Certificates
    <3>3. QED
      BY <1>8, <2>2, <2>3, <2>4, <3>1, <3>2 DEF DomainGood, Made
  <2>5. CASE ~Real(d)'
    BY <2>2, <2>3, <2>5 DEF DomainGood
  <2>6. QED
    BY <2>4, <2>5
<1>10. ReloadGood'
  BY <1>1, <1>2 DEF ReloadGood, Unsubscribed
<1>11. ASSUME NEW u \in Tasks PROVE TaskGood(task[u])'
  <2>1. TaskGood(task[u]) /\ TaskOK(task[u]) /\ task'[u] = task[u]
    BY <1>1, <1>2 DEF TypeOK, TasksOK
  <2>2. ASSUME NEW cert, NEW d \in Domains, Newest(cert, d) PROVE Newest(cert, d)'
    BY <1>1, <1>2, <1>8, <2>2 DEF Newest, Parses, Unsubscribed
  <2>3. CASE ~Busy(task[u])
    BY <2>1, <2>3 DEF TaskGood, Busy
  <2>4. CASE Busy(task[u])
    <3>1. PICK d \in Domains : d = task[u].dom
      BY <2>1, <2>4 DEF TaskOK, Busy
    <3>2. PICK cert : cert = task[u].cert
      OBVIOUS
    <3>3. PICK acc : acc = account[d]
      OBVIOUS
    <3>4. /\ task[u].pc \in {"key_open", "key_write", "download"} =>
                cert \in Certificates /\ cert.dom = d /\ Made(cert)' /\ Newest(cert, d)'
          /\ task[u].pc \in {"crt_open", "crt_write"} =>
                acc \in Certificates /\ Newest(acc, d)'
          /\ task[u].pc = "install" => Parses(d)'
      BY <1>2, <2>1, <2>2, <3>1, <3>2, <3>3 DEF TaskGood, Made, Parses
    <3>5. task'[u].cert = cert /\ task'[u].dom = d /\ account'[d] = acc /\ task'[u].pc = task[u].pc
      BY <1>2, <2>1, <3>1, <3>2, <3>3
    <3>6. QED
      BY <3>4, <3>5 DEF TaskGood
  <2>5. QED
    BY <2>3, <2>4
<1>12. \A c \in Clients : ShakeGood(c)'
  BY <1>1, <1>2 DEF ShakeGood, IsPairOf
<1>13. QED
  BY <1>6, <1>7, <1>9, <1>10, <1>11, <1>12 DEF IInv

\* A change of the phase that leaves everything but one idle task's record alone.
LEMMA PhaseMoves ==
    ASSUME IInv, NEW t \in Tasks, NEW r, TaskOK(r), ~Busy(r),
           task' = [task EXCEPT ![t] = r], TasksApart',
           phase' \in {"built", "serving"},
           UNCHANGED <<day, files, managed, pending, challenges, events, account, authorized,
                       orders, failures, certVars, crashes>>
    PROVE  IInv'
<1>1. /\ TypeOK /\ ReloadGood
      /\ \A d \in Domains : DomainGood(d)
      /\ \A u \in Tasks : TaskGood(task[u])
      /\ \A c \in Clients : ShakeGood(c)
  BY DEF IInv
<1>2. \A u \in Tasks : task'[u] = IF u = t THEN r ELSE task[u]
  BY <1>1 DEF TypeOK, TasksOK
<1>3. TypeOK'
  <2>1. TasksOK'
    BY <1>1, <1>2 DEF TypeOK, TasksOK
  <2>2. QED
    BY <1>1, <2>1 DEF TypeOK, certVars, FilesOK, ManagedOK, EventsOK, ReloadOK, ShakesOK
<1>4. Unsubscribed'
  BY DEF Unsubscribed
<1>5. \A d \in Domains : DomainGood(d)'
  BY <1>1 DEF DomainGood, Parses, Real, IsPairOf, Made, certVars
<1>6. ReloadGood'
  BY <1>1 DEF ReloadGood, Parses, Real, IsPairOf, Made, certVars
<1>7. TaskGood(r)'
  BY DEF TaskGood, Busy
<1>8. \A u \in Tasks : TaskGood(task[u])'
  BY <1>1, <1>2, <1>7 DEF TaskGood, Newest, Parses, Real, Made, certVars
<1>9. \A c \in Clients : ShakeGood(c)'
  BY <1>1 DEF ShakeGood, IsPairOf, certVars
<1>10. QED
  BY <1>3, <1>4, <1>5, <1>6, <1>8, <1>9 DEF IInv

\* The startup task is spawned.
LEMMA SpawnStep == ASSUME IInv, Spawn PROVE IInv'
<1>1. TypeOK /\ TasksApart /\ day \in Nat /\ TasksOK
  BY DEF IInv, TypeOK
<1>2. Asleep(day).pc = "sleep" /\ Asleep(day).back = "next" /\ TaskOK(Asleep(day))
  BY <1>1, NothingOK DEF Asleep
<1>3. task'["startup"] = Asleep(day) /\ task'["renewal"] = task["renewal"] /\ "startup" \in Tasks
  BY <1>1 DEF Spawn, TasksOK, Tasks
<1>4. phase = "starting" /\ phase' = "built" /\ UNCHANGED <<pending, managed>>
  BY DEF Spawn
<1>5. TasksApart'
  BY <1>1, <1>2, <1>3, <1>4 DEF TasksApart, Working, Busy, HasFirst, Tasks
<1>6. QED
  BY <1>2, <1>3, <1>5, PhaseMoves DEF Spawn, Busy

\* Serving cancels the daily task and leaves the rest alone.
LEMMA ServeStep == ASSUME IInv, Serve PROVE IInv'
<1>1. TypeOK /\ TasksApart /\ TasksOK
  BY DEF IInv, TypeOK
<1>2. task'["renewal"] = Ended /\ task'["startup"] = task["startup"] /\ "renewal" \in Tasks
  BY <1>1 DEF Serve, TasksOK, Tasks
<1>3. phase = "built" /\ phase' = "serving" /\ UNCHANGED <<pending, managed>>
  BY DEF Serve
<1>4. Ended.pc = "ended" /\ Ended.back = "next"
  BY NothingOK
<1>5. TasksApart'
  BY <1>1, <1>2, <1>3, <1>4 DEF TasksApart, Working, Busy, HasFirst, Tasks
<1>6. QED
  BY <1>2, <1>4, <1>5, PhaseMoves, NothingOK DEF Serve, Busy

\* A crash leaves files, account directory and the clock.
LEMMA CrashStep == ASSUME IInv, Crash PROVE IInv'
<1>1. TypeOK /\ \A d \in Domains : DomainGood(d)
  BY DEF IInv
<1>2. \A t \in Tasks : task'[t] = Ended
  BY DEF Crash
<1>3. TypeOK'
  <2>1. TasksOK'
    BY <1>2, NothingOK DEF TasksOK, Crash
  <2>2. ManagedOK' /\ EventsOK' /\ ReloadOK' /\ ShakesOK'
    BY AcmeAssumption DEF ManagedOK, EventsOK, ReloadOK, ShakesOK, NoReload, NoShake, Crash
  <2>3. /\ certificates' \in [Domains -> Acceptors \cup {Bootstrap}]
        /\ intermediates' \in [Domains -> SUBSET Domains]
        /\ crashes' \in Nat /\ FilesOK'
    BY <1>1 DEF TypeOK, FilesOK, Crash
  <2>4. QED
    BY <1>1, <2>1, <2>2, <2>3 DEF TypeOK, Crash
<1>4. TasksApart' /\ Unsubscribed'
  BY <1>2, NothingOK DEF TasksApart, Unsubscribed, Tasks, Working, Busy, HasFirst, NoReload, Real, Crash
<1>5. \A d \in Domains : DomainGood(d)'
  BY <1>1 DEF DomainGood, Parses, Real, Made, Crash
<1>6. ReloadGood'
  BY DEF ReloadGood, NoReload, Crash
<1>7. \A t \in Tasks : TaskGood(task[t])'
  BY <1>2, NothingOK DEF TaskGood
<1>8. \A c \in Clients : ShakeGood(c)'
  BY DEF ShakeGood, NoShake, Crash
<1>9. QED
  BY <1>3, <1>4, <1>5, <1>6, <1>7, <1>8 DEF IInv

\* A day later, what was made is still made.
LEMMA TickStep == ASSUME IInv, Tick PROVE IInv'
<1>1. /\ TypeOK /\ TasksApart /\ Unsubscribed /\ ReloadGood
      /\ \A d \in Domains : DomainGood(d)
      /\ \A u \in Tasks : TaskGood(task[u])
      /\ \A c \in Clients : ShakeGood(c)
  BY DEF IInv
<1>2. /\ day' = day + 1 /\ day \in Nat /\ Lifetime \in Nat
      /\ UNCHANGED <<files, managed, pending, challenges, events, task, account,
                     authorized, orders, failures, certificates, tlsReal, intermediates,
                     locks, reload, shake, phase, crashes>>
  BY <1>1, AcmeAssumption DEF Tick, acmeVars, certVars, TypeOK
<1>3. ASSUME NEW cert \in Certificates, Made(cert) PROVE cert.exp <= day' + Lifetime
  BY <1>2, <1>3 DEF Made, Certificates
<1>4. TypeOK'
  BY <1>1, <1>2 DEF TypeOK, FilesOK, ManagedOK, TasksOK, EventsOK, ReloadOK, ShakesOK
<1>5. TasksApart' /\ Unsubscribed'
  BY <1>1, <1>2 DEF TasksApart, Unsubscribed, Real
<1>6. ASSUME NEW d \in Domains PROVE DomainGood(d)'
  <2>1. Parses(d) => files[d].crt \in Certificates
    BY <1>1 DEF TypeOK, FilesOK, Parses
  <2>2. account[d] # None => account[d] \in Certificates
    BY <1>1 DEF TypeOK
  <2>3. Real(d) => certificates[d].cert \in Certificates
    BY <1>1 DEF TypeOK, Acceptors, Real
  <2>4. /\ Parses(d)' => files'[d].crt.dom = d /\ files'[d].crt.exp <= day' + Lifetime
        /\ account'[d] # None => account'[d].dom = d /\ account'[d].exp <= day' + Lifetime
    BY <1>1, <1>2, <1>3, <2>1, <2>2 DEF DomainGood, Parses
  <2>5. Real(d)' => IsPairOf(certificates[d], d)' /\ certificates'[d].cert.exp <= day' + Lifetime
    BY <1>1, <1>2, <1>3, <2>3 DEF DomainGood, Real, IsPairOf
  <2>6. Real(d)' /\ Parses(d)' => certificates'[d].cert.exp <= files'[d].crt.exp
    BY <1>1, <1>2 DEF DomainGood, Real, Parses
  <2>7. QED
    BY <2>4, <2>5, <2>6 DEF DomainGood, Made
<1>7. ReloadGood'
  <2>1. reload.pc = "swap" => reload.acceptor.cert \in Certificates
    BY <1>1 DEF TypeOK, ReloadOK, Acceptors
  <2>2. reload.pc = "swap" => reload.acceptor.cert.exp <= day' + Lifetime
    BY <1>1, <1>3, <2>1 DEF ReloadGood
  <2>3. QED
    BY <1>1, <1>2, <2>2 DEF ReloadGood, IsPairOf, Made, Real, Parses
<1>8. ASSUME NEW u \in Tasks PROVE TaskGood(task[u])'
  <2>1. TaskGood(task[u])
    BY <1>1
  <2>2. task[u].pc \in {"key_open", "key_write", "download"} =>
            task[u].cert.exp <= day' + Lifetime
    BY <1>3, <2>1 DEF TaskGood
  <2>3. QED
    BY <1>2, <2>1, <2>2 DEF TaskGood, Made, Newest, Parses, Real
<1>9. \A c \in Clients : ShakeGood(c)'
  BY <1>1, <1>2 DEF ShakeGood, IsPairOf
<1>10. QED
  BY <1>4, <1>5, <1>6, <1>7, <1>8, <1>9 DEF IInv

-----------------------------------------------------------------------------
(* The TLS layer: the listener, the reload and the handshakes.             *)

\* What the steps of the TLS layer share: they change nothing of the ACME
\* manager, and what they read are the files.
LEMMA TlsMoves ==
    ASSUME IInv,
           UNCHANGED <<day, files, managed, pending, challenges, task, account,
                       authorized, orders, failures, phase, crashes>>,
           EventsOK', ReloadOK', ShakesOK', Unsubscribed',
           certificates' \in [Domains -> Acceptors \cup {Bootstrap}],
           tlsReal' \subseteq Domains, intermediates' \in [Domains -> SUBSET Domains],
           locks' \subseteq {"certificates", "tls_configs"},
           \A d \in Domains : certificates'[d] = certificates[d] \/
               (reload.pc = "swap" /\ reload.dom = d /\ certificates'[d] = reload.acceptor),
           ReloadGood',
           reload'.pc = "swap" =>
               \/ reload' = reload
               \/ Parses(reload'.dom) /\ reload'.acceptor.cert = files[reload'.dom].crt,
           \A c \in Clients : ShakeGood(c)'
    PROVE  IInv'
<1>1. /\ TypeOK /\ TasksApart /\ ReloadGood /\ ReloadOK
      /\ \A d \in Domains : DomainGood(d)
      /\ \A u \in Tasks : TaskGood(task[u])
  BY DEF IInv, TypeOK
<1>2. TypeOK'
  BY <1>1 DEF TypeOK, FilesOK, ManagedOK, TasksOK
<1>3. TasksApart'
  BY <1>1 DEF TasksApart
<1>4. ASSUME NEW d \in Domains, certificates'[d] # certificates[d]
      PROVE  /\ IsPairOf(reload.acceptor, d) /\ Made(reload.acceptor.cert)
             /\ reload.pc = "swap" /\ reload.dom = d
             /\ certificates'[d] = reload.acceptor
             /\ Parses(d) => reload.acceptor.cert.exp <= files[d].crt.exp
  BY <1>1, <1>4 DEF ReloadGood
<1>5. ASSUME NEW d \in Domains PROVE DomainGood(d)'
  <2>1. DomainGood(d)
    BY <1>1
  <2>2. CASE certificates'[d] = certificates[d]
    BY <2>1, <2>2 DEF DomainGood, Parses, Real, IsPairOf, Made
  <2>3. CASE certificates'[d] # certificates[d]
    BY <1>4, <2>1, <2>3 DEF DomainGood, Parses, Real, IsPairOf, Made
  <2>4. QED
    BY <2>2, <2>3
<1>6. ASSUME NEW cert, NEW d \in Domains, Newest(cert, d) PROVE Newest(cert, d)'
  <2>1. Parses(d)' => files'[d].crt.exp <= cert.exp
    BY <1>6 DEF Newest, Parses
  <2>2. Real(d)' => certificates'[d].cert.exp <= cert.exp
    BY <1>6 DEF Newest, Real
  <2>3. reload'.pc = "swap" /\ reload'.dom = d => reload'.acceptor.cert.exp <= cert.exp
    BY <1>6 DEF Newest
  <2>4. QED
    BY <2>1, <2>2, <2>3 DEF Newest
<1>7. ASSUME NEW u \in Tasks PROVE TaskGood(task[u])'
  <2>1. TaskGood(task[u]) /\ TaskOK(task[u])
    BY <1>1 DEF TypeOK, TasksOK
  <2>2. CASE task[u].pc \in {"key_open", "key_write", "download"}
    <3>1. PICK d \in Domains : d = task[u].dom
      BY <2>1, <2>2 DEF TaskOK
    <3>2. PICK cert \in Certificates : cert = task[u].cert
      BY <2>1, <2>2 DEF TaskGood
    <3>3. cert.dom = d /\ Made(cert) /\ Newest(cert, d)
      BY <2>1, <2>2, <3>1, <3>2 DEF TaskGood
    <3>4. Made(cert)' /\ Newest(cert, d)'
      BY <1>6, <3>3 DEF Made
    <3>5. task'[u] = task[u]
      OBVIOUS
    <3>6. QED
      BY <2>2, <3>1, <3>2, <3>3, <3>4, <3>5 DEF TaskGood
  <2>3. CASE task[u].pc \in {"crt_open", "crt_write"}
    <3>1. PICK d \in Domains : d = task[u].dom
      BY <2>1, <2>3 DEF TaskOK
    <3>2. PICK cert \in Certificates : cert = account[d]
      BY <2>1, <2>3, <3>1 DEF TaskGood
    <3>3. Newest(cert, d)'
      BY <1>6, <2>1, <2>3, <3>1, <3>2 DEF TaskGood
    <3>4. task'[u] = task[u] /\ account'[d] = account[d]
      OBVIOUS
    <3>5. QED
      BY <2>3, <3>1, <3>2, <3>3, <3>4 DEF TaskGood
  <2>4. CASE task[u].pc \notin {"key_open", "key_write", "download", "crt_open", "crt_write"}
    BY <2>1, <2>4 DEF TaskGood, Parses
  <2>5. QED
    BY <2>2, <2>3, <2>4
<1>8. QED
  BY <1>1, <1>2, <1>3, <1>5, <1>7 DEF IInv

\* The listener takes the next event.
LEMMA ReceiveStep == ASSUME IInv, Receive PROVE IInv'
<1>1. TypeOK /\ EventsOK /\ ShakesOK /\ \A c \in Clients : ShakeGood(c)
  BY DEF IInv, TypeOK
<1>2. Head(events) \in Domains /\ EventsOK'
  <2>1. /\ events \in Seq(Domains) /\ events # <<>> /\ events' = Tail(events)
        /\ Len(events) <= Capacity /\ Capacity \in Nat
    BY <1>1, AcmeAssumption DEF Receive, EventsOK
  <2>2. Head(events) \in Domains /\ Tail(events) \in Seq(Domains)
        /\ Len(Tail(events)) = Len(events) - 1
    BY <2>1
  <2>3. QED
    BY <2>1, <2>2 DEF EventsOK
<1>3. reload' = [pc |-> "load", dom |-> Head(events), acceptor |-> None]
  BY DEF Receive, NoReload
<1>4. ReloadOK' /\ ReloadGood' /\ reload'.pc # "swap"
  BY <1>2, <1>3 DEF ReloadOK, ReloadGood
<1>5. ShakesOK' /\ \A c \in Clients : ShakeGood(c)'
  BY <1>1 DEF ShakesOK, ShakeGood, IsPairOf, Receive
<1>6. Unsubscribed'
  BY DEF IInv, Unsubscribed, Receive
<1>7. QED
  BY <1>1, <1>2, <1>4, <1>5, <1>6, TlsMoves DEF Receive, TypeOK

\* The reload of one domain.
LEMMA ReloadStep == ASSUME IInv, Tls PROVE IInv'
<1>1. /\ TypeOK /\ EventsOK /\ ShakesOK /\ ReloadOK /\ FilesOK /\ ReloadGood
      /\ \A c \in Clients : ShakeGood(c)
      /\ \A d \in Domains : DomainGood(d)
  BY DEF IInv, TypeOK
<1>2. /\ UNCHANGED <<day, files, managed, pending, challenges, events, task, account,
                     authorized, orders, failures, shake, phase, crashes>>
  BY DEF Tls, Reload, ReloadLoad, ReloadSwap, ReloadConfig, ReloadChain, ReloadRelease, acmeVars
<1>3. EventsOK' /\ ShakesOK' /\ \A c \in Clients : ShakeGood(c)'
  BY <1>1, <1>2 DEF EventsOK, ShakesOK, ShakeGood, IsPairOf
<1>4. /\ NoReload.pc = "idle"
      /\ reload' = NoReload => ReloadOK' /\ ReloadGood' /\ reload'.pc # "swap"
  BY DEF NoReload, ReloadOK, ReloadGood
<1>5. reload.pc # "idle" => reload.dom \in Domains
  BY <1>1 DEF ReloadOK
<1>a. Unsubscribed'
  <2>1. reload.pc # "idle" /\ Unsubscribed
    BY DEF IInv, Tls, Reload, ReloadLoad, ReloadSwap, ReloadConfig, ReloadChain, ReloadRelease
  <2>2. QED
    BY <1>2, <2>1 DEF Unsubscribed
<1>6. CASE ReloadLoad
  <2>1. UNCHANGED <<certificates, tlsReal, intermediates, locks>> /\ reload.pc = "load"
    BY <1>6 DEF ReloadLoad
  <2>2. CASE ~LoadsAcceptor(reload.dom)
    <3>1. reload' = NoReload
      BY <1>6, <2>2 DEF ReloadLoad
    <3>2. QED
      BY <1>1, <1>2, <1>3, <1>4, <2>1, <3>1, <1>a, TlsMoves DEF TypeOK
  <2>3. CASE LoadsAcceptor(reload.dom)
    <3>1. PICK d \in Domains : d = reload.dom
      BY <1>5, <2>1
    <3>2. Parses(d) /\ files[d].key = files[d].crt.key /\ files[d].crt \in Certificates
      BY <1>1, <2>3, <3>1 DEF LoadsAcceptor, Parses, FilesOK
    <3>3. PICK acceptor : acceptor = Acceptor(files[d].crt, files[d].key)
      OBVIOUS
    <3>4. /\ acceptor \in Acceptors /\ IsPairOf(acceptor, d)
          /\ acceptor.cert = files[d].crt /\ Made(acceptor.cert)
      BY <1>1, <3>2, <3>3 DEF Acceptor, Acceptors, Certificates, IsPairOf, DomainGood
    <3>5. reload' = [reload EXCEPT !.pc = "swap", !.acceptor = acceptor]
      BY <1>6, <2>3, <3>1, <3>3 DEF ReloadLoad
    <3>6. reload'.pc = "swap" /\ reload'.dom = d /\ reload'.acceptor = acceptor /\ ReloadOK'
      BY <1>1, <3>1, <3>4, <3>5 DEF ReloadOK
    <3>7. Parses(d)' /\ files'[d].crt = files[d].crt /\ (Real(d)' => Real(d))
      BY <1>2, <2>1, <3>2 DEF Parses, Real
    <3>8. Real(d)' => certificates'[d].cert.exp <= acceptor.cert.exp
      BY <1>1, <2>1, <3>2, <3>4, <3>7 DEF DomainGood
    <3>9. acceptor.cert.exp <= files'[d].crt.exp
      BY <3>2, <3>4, <3>7 DEF Certificates
    <3>10. IsPairOf(acceptor, d)' /\ Made(acceptor.cert)'
      BY <1>2, <3>4 DEF IsPairOf, Made
    <3>11. ReloadGood'
      BY <3>6, <3>8, <3>9, <3>10 DEF ReloadGood, Real, IsPairOf, Made
    <3>12. Parses(reload'.dom) /\ reload'.acceptor.cert = files[reload'.dom].crt
      BY <3>2, <3>4, <3>6
    <3>13. QED
      BY <1>1, <1>2, <1>3, <2>1, <3>6, <3>11, <3>12, <1>a, TlsMoves DEF TypeOK
  <2>4. QED
    BY <2>2, <2>3
<1>7. CASE ReloadSwap
  <2>1. reload' = [reload EXCEPT !.pc = "config"] /\ reload.pc = "swap"
        /\ certificates' = [certificates EXCEPT ![reload.dom] = reload.acceptor]
        /\ UNCHANGED <<tlsReal, intermediates>>
    BY <1>7 DEF ReloadSwap
  <2>2. reload.dom \in Domains /\ reload.acceptor \in Acceptors
    BY <1>1, <2>1 DEF ReloadOK
  <2>3. ReloadOK' /\ ReloadGood' /\ reload'.pc # "swap"
    BY <1>1, <2>1, <2>2 DEF ReloadOK, ReloadGood
  <2>4. certificates' \in [Domains -> Acceptors \cup {Bootstrap}]
    BY <1>1, <2>1, <2>2 DEF TypeOK
  <2>5. \A d \in Domains : certificates'[d] = certificates[d] \/
               (reload.pc = "swap" /\ reload.dom = d /\ certificates'[d] = reload.acceptor)
    BY <1>1, <2>1, <2>2 DEF TypeOK
  <2>6. locks' \subseteq {"certificates", "tls_configs"}
    BY <1>1, <1>7 DEF TypeOK, ReloadSwap
  <2>7. QED
    BY <1>1, <1>2, <1>3, <2>1, <2>3, <2>4, <2>5, <2>6, <1>a, TlsMoves DEF TypeOK
<1>8. CASE ReloadConfig
  <2>1. reload' = [reload EXCEPT !.pc = "chain"] /\ reload.pc = "config"
        /\ tlsReal' = tlsReal \cup {reload.dom} /\ UNCHANGED <<certificates, intermediates>>
    BY <1>8 DEF ReloadConfig
  <2>2. ReloadOK' /\ ReloadGood' /\ reload'.pc # "swap"
    BY <1>1, <2>1 DEF ReloadOK, ReloadGood
  <2>3. tlsReal' \subseteq Domains /\ locks' \subseteq {"certificates", "tls_configs"}
    BY <1>1, <1>5, <1>8, <2>1 DEF TypeOK, ReloadConfig
  <2>4. QED
    BY <1>1, <1>2, <1>3, <2>1, <2>2, <2>3, <1>a, TlsMoves DEF TypeOK
<1>9. CASE ReloadChain
  <2>1. reload' = [reload EXCEPT !.pc = "release"] /\ reload.pc = "chain"
        /\ intermediates' = [intermediates EXCEPT ![reload.dom] = ChainInFile(reload.dom)]
        /\ UNCHANGED <<certificates, tlsReal, locks>>
    BY <1>9 DEF ReloadChain
  <2>2. ReloadOK' /\ ReloadGood' /\ reload'.pc # "swap"
    BY <1>1, <2>1 DEF ReloadOK, ReloadGood
  <2>3. ChainInFile(reload.dom) \subseteq Domains
    BY <1>1, <1>5, <2>1 DEF ChainInFile, Parses, FilesOK, Certificates
  <2>4. intermediates' \in [Domains -> SUBSET Domains]
    BY <1>1, <2>1, <2>3 DEF TypeOK
  <2>5. QED
    BY <1>1, <1>2, <1>3, <2>1, <2>2, <2>4, <1>a, TlsMoves DEF TypeOK
<1>10. CASE ReloadRelease
  <2>1. reload' = NoReload /\ locks' = {} /\ UNCHANGED <<certificates, tlsReal, intermediates>>
    BY <1>10 DEF ReloadRelease
  <2>2. QED
    BY <1>1, <1>2, <1>3, <1>4, <2>1, <1>a, TlsMoves DEF TypeOK
<1>11. QED
  BY <1>6, <1>7, <1>8, <1>9, <1>10 DEF Tls, Reload

\* A handshake takes the acceptor in use, or a stand-in.
LEMMA ConnectStep == ASSUME IInv, Connect PROVE IInv'
<1>1. /\ TypeOK /\ EventsOK /\ ShakesOK /\ ReloadOK /\ FilesOK /\ ReloadGood
      /\ \A c \in Clients : ShakeGood(c)
      /\ \A d \in Domains : DomainGood(d)
  BY DEF IInv, TypeOK
<1>2. PICK c \in Clients : Handshake(c)
  BY DEF Connect
<1>3. UNCHANGED <<day, files, managed, pending, challenges, events, task, account,
                  authorized, orders, failures, certificates, tlsReal, intermediates, locks,
                  reload, phase, crashes>>
  BY <1>2 DEF Connect, Handshake, ShakeCertificate, ShakeChain, ShakeEnd, acmeVars
<1>4. EventsOK' /\ ReloadOK' /\ ReloadGood' /\ Unsubscribed'
  BY <1>1, <1>3 DEF IInv, Unsubscribed, EventsOK, ReloadOK, ReloadGood, Parses, Real, IsPairOf, Made
<1>5. ASSUME ShakesOK', \A b \in Clients : ShakeGood(b)' PROVE IInv'
  BY <1>1, <1>3, <1>4, <1>5, TlsMoves DEF TypeOK
<1>6. CASE \E d \in Domains : ShakeCertificate(c, d)
  <2>1. PICK d \in Domains : ShakeCertificate(c, d)
    BY <1>6
  <2>2. PICK r : r = [shake[c] EXCEPT !.pc = "chain", !.dom = d, !.acceptor = Presented(d)]
    OBVIOUS
  <2>3. shake' = [shake EXCEPT ![c] = r]
    BY <2>1, <2>2 DEF ShakeCertificate
  <2>4. Presented(d) \in Acceptors \cup {Bootstrap, Default}
    BY <1>1 DEF TypeOK, Presented
  <2>5. ShakesOK' /\ r.acceptor = Presented(d) /\ r.dom = d
    BY <1>1, <2>2, <2>3, <2>4 DEF ShakesOK
  <2>6. Presented(d) \notin {None, Bootstrap, Default} => IsPairOf(Presented(d), d)
    BY <1>1 DEF Presented, DomainGood, Real
  <2>7. ASSUME NEW b \in Clients PROVE ShakeGood(b)'
    <3>1. shake'[b] = IF b = c THEN r ELSE shake[b]
      BY <1>1, <2>3 DEF ShakesOK
    <3>2. QED
      BY <1>1, <2>5, <2>6, <3>1 DEF ShakeGood, IsPairOf
  <2>8. QED
    BY <1>5, <2>5, <2>7
<1>7. CASE ShakeChain(c)
  <2>1. PICK chain \in SUBSET Domains : shake' = [shake EXCEPT ![c] =
                            [shake[c] EXCEPT !.pc = "done", !.chain = chain]]
    <3> DEFINE d == shake[c].dom
               chain == IF intermediates[d] # {} THEN intermediates[d]
                        ELSE IF "tls_configs" \notin locks /\ d \in tlsReal
                             THEN ChainInFile(d) ELSE {}
    <3>1. d \in Domains /\ shake' = [shake EXCEPT ![c] =
                            [shake[c] EXCEPT !.pc = "done", !.chain = chain]]
      BY <1>1, <1>7 DEF ShakeChain, ShakesOK
    <3>2. ChainInFile(d) \subseteq Domains
      BY <1>1, <3>1 DEF ChainInFile, Parses, FilesOK, Certificates
    <3>3. chain \in SUBSET Domains
      BY <1>1, <3>1, <3>2 DEF TypeOK
    <3>4. QED
      BY <3>1, <3>3
  <2>2. ShakesOK'
    <3>1. PICK r : r = [shake[c] EXCEPT !.pc = "done", !.chain = chain]
      OBVIOUS
    <3>2. shake[c].dom \in Domains
      BY <1>1, <1>7 DEF ShakesOK, ShakeChain
    <3>3. /\ r.dom \in Domains
          /\ r \in [pc : {"idle", "chain", "done"}, dom : Domains \cup {None},
                    acceptor : Acceptors \cup {None, Bootstrap, Default}, chain : SUBSET Domains]
      BY <1>1, <3>1, <3>2 DEF ShakesOK
    <3>4. shake' = [shake EXCEPT ![c] = r]
      BY <2>1, <3>1
    <3>5. QED
      BY <1>1, <3>3, <3>4 DEF ShakesOK
  <2>3. ASSUME NEW b \in Clients PROVE ShakeGood(b)'
    <3>1. shake'[b].acceptor = shake[b].acceptor /\ shake'[b].dom = shake[b].dom
      BY <1>1, <2>1 DEF ShakesOK
    <3>2. QED
      BY <1>1, <3>1 DEF ShakeGood, IsPairOf
  <2>4. QED
    BY <1>5, <2>2, <2>3
<1>8. CASE ShakeEnd(c)
  <2>1. shake' = [shake EXCEPT ![c] = NoShake]
    BY <1>8 DEF ShakeEnd
  <2>2. ShakesOK'
    BY <1>1, <2>1 DEF ShakesOK, NoShake
  <2>3. \A b \in Clients : ShakeGood(b)'
    BY <1>1, <2>1 DEF ShakesOK, ShakeGood, IsPairOf, NoShake
  <2>4. QED
    BY <1>5, <2>2, <2>3
<1>9. QED
  BY <1>2, <1>6, <1>7, <1>8 DEF Handshake

-----------------------------------------------------------------------------
(* The theorems.                                                           *)

\* Every step of the system keeps the inductive invariant.
LEMMA NextGood == IInv /\ [Next]_vars => IInv'
<1> SUFFICES ASSUME IInv, [Next]_vars PROVE IInv'
  OBVIOUS
<1>1. CASE Next
  BY <1>1, StartStep, SubscribeStep, SpawnStep, ServeStep, AcmeStep, ReceiveStep, ReloadStep, ConnectStep, CrashStep,
     TickStep DEF Next
<1>2. CASE UNCHANGED vars
  <2>1. /\ UNCHANGED <<day, files, managed, pending, challenges, events, task, account,
                       authorized, orders, failures, certificates, tlsReal, intermediates, locks,
                       reload, shake, phase, crashes>>
    BY <1>2 DEF vars, acmeVars, certVars
  <2>2. /\ TypeOK /\ EventsOK /\ ShakesOK /\ ReloadOK /\ ReloadGood
        /\ Unsubscribed /\ \A c \in Clients : ShakeGood(c)
    BY DEF IInv, TypeOK
  <2>3. /\ EventsOK' /\ ReloadOK' /\ ReloadGood' /\ ShakesOK'
        /\ Unsubscribed' /\ \A c \in Clients : ShakeGood(c)'
    BY <2>1, <2>2 DEF Unsubscribed, EventsOK, ReloadOK, ReloadGood, Parses, Real, IsPairOf, Made, ShakesOK,
                      ShakeGood
  <2>4. QED
    BY <2>1, <2>2, <2>3, TlsMoves DEF TypeOK
<1>3. QED
  BY <1>1, <1>2

\* The state that a run of the process and its crashes can reach.
LEMMA AlwaysGood == Spec => []IInv
BY InitGood, NextGood, PTL DEF Spec

\* Types, for every number of domains, clients, days, crashes and failures:
\* no task works without a domain, the channel never exceeds its capacity.
THEOREM TypeCorrect == Spec => []TypeOK
<1>1. IInv => TypeOK
  BY DEF IInv
<1>2. QED
  BY <1>1, AlwaysGood, PTL

\* Every acceptor in use, in the map or in a handshake, has a certificate of
\* the domain asked for and the private key of that certificate, although
\* obtain_certificate overwrites the .key file before the .crt file and may
\* crash or fail between the two.
THEOREM KeyPairsMatch == Spec => []KeyPairMatches
<1>1. IInv => KeyPairMatches
  BY DEF IInv, KeyPairMatches, DomainGood, ShakeGood
<1>2. QED
  BY <1>1, AlwaysGood, PTL

\* While the process runs, a reload never puts an older certificate, or the
\* bootstrap one, in the place of the certificate in use.
THEOREM NoDowngrade == Spec => NeverDowngraded
<1> DEFINE Kept == phase # "down" /\ phase' # "down" =>
                       \A d \in Domains : Real(d) =>
                           /\ Real(d)'
                           /\ certificates'[d].cert.exp >= certificates[d].cert.exp
<1>1. ASSUME IInv, [Next]_vars PROVE Kept
  <2> SUFFICES ASSUME phase # "down", phase' # "down", NEW d \in Domains, Real(d)
               PROVE  Real(d)' /\ certificates'[d].cert.exp >= certificates[d].cert.exp
    OBVIOUS
  <2>1. /\ certificates \in [Domains -> Acceptors \cup {Bootstrap}]
        /\ certificates[d].cert.exp \in Nat
    BY <1>1 DEF IInv, TypeOK, Real, Acceptors, Certificates
  <2>2. CASE UNCHANGED certificates
    BY <2>1, <2>2 DEF Real
  <2>3. CASE ReloadSwap
    <3>1. /\ certificates' = [certificates EXCEPT ![reload.dom] = reload.acceptor]
          /\ reload.pc = "swap"
      BY <2>3 DEF ReloadSwap
    <3>2. reload.acceptor \in Acceptors /\ reload.dom \in Domains
      BY <1>1, <3>1 DEF IInv, TypeOK, ReloadOK
    <3>3. reload.acceptor # Bootstrap /\ reload.acceptor.cert.exp \in Nat
      BY <3>2, AcceptorAssumption DEF Acceptors, Certificates
    <3>4. CASE d = reload.dom
      BY <1>1, <2>1, <3>1, <3>3, <3>4 DEF IInv, ReloadGood, Real
    <3>5. CASE d # reload.dom
      BY <2>1, <3>1, <3>5 DEF Real
    <3>6. QED
      BY <3>4, <3>5
  <2>4. UNCHANGED certificates \/ ReloadSwap
    <3>1. ~Subscribe
      BY <1>1 DEF IInv, Unsubscribed, Subscribe
    <3> QED
      BY <1>1, <3>1 DEF Next, Start, Spawn, Serve, Acme, Receive, Tls, Reload, ReloadLoad, ReloadConfig,
       ReloadChain, ReloadRelease, Connect, Handshake, ShakeCertificate, ShakeChain, ShakeEnd,
       Crash, Tick, vars, certVars
  <2>5. QED
    BY <2>2, <2>3, <2>4
<1>2. QED
  BY <1>1, AlwaysGood, PTL DEF Spec, NeverDowngraded
=============================================================================
