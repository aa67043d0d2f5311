--------------------------- MODULE WorkspaceProofs ---------------------------
(***************************************************************************)
(* Proofs about the parts of Workspace that requests, signing in and       *)
(* inviting need: the idempotency keys, integrations, teams, security      *)
(* keys, the second factor and sessions.  Each has an inductive invariant  *)
(* of its own, which the steps of the other parts leave alone (OneAtATime, *)
(* in MembersProofs).                                                      *)
(***************************************************************************)
EXTENDS MembersProofs

-----------------------------------------------------------------------------
(* Idempotency keys                                                        *)

\* A row is reserved once and never deleted, so that at most one request per
\* key gets past its reservation, ever (IndReserved); until it has worked
\* nothing has been done for the key (IndWorked); and an answer that says what
\* was done is given only once nothing more can happen (IndHeard).
Holds(h, k) == request[h].token = k /\ request[h].step \in {"executing", "executed"}

\* A reserved key is held by the one request that reserved it, or by none.
IndReserved ==
    /\ \A h \in Requesters : ~M!At(h, "idle") => request[h].token \in Tokens
    /\ \A h \in Requesters, k \in Tokens : Holds(h, k) =>
        reserved[k].status = "processing" /\ reserved[k].print = request[h].print
    /\ \A g, h \in Requesters, k \in Tokens : Holds(g, k) /\ Holds(h, k) => g = h
    /\ \A h \in Requesters :
        M!At(h, "reading") => reserved[request[h].token].status # "absent"

\* A key that is neither settled nor held was dropped.
IndDropped ==
    \A k \in Tokens :
        reserved[k].status = "processing" =>
            k \in dropped \/ \E h \in Requesters : Holds(h, k)

\* What was done for a key, as far as its row or its request says.
IndWorked ==
    /\ \A k \in Tokens, p \in Prints :
        /\ effects[k][p] \in {0, 1}
        /\ effects[k][p] = 1 => reserved[k].print = p /\ reserved[k].status # "absent"
        /\ reserved[k].status = "completed" =>
            /\ reserved[k].code \in {"2xx", "4xx"}
            /\ reserved[k].code = "2xx" /\ reserved[k].print = p => effects[k][p] = 1
            /\ reserved[k].code = "4xx" /\ reserved[k].print = p => effects[k][p] = 0
    /\ \A h \in Requesters, k \in Tokens : Holds(h, k) =>
        /\ M!At(h, "executing") => \A p \in Prints : effects[k][p] = 0
        /\ M!At(h, "executed") =>
            /\ request[h].code \in {"2xx", "4xx", "5xx"}
            /\ request[h].code = "2xx" => effects[k][request[h].print] = 1
            /\ request[h].code = "4xx" => effects[k][request[h].print] = 0

\* What clients were told is true, and of a key that is settled.
IndHeard ==
    \A k \in Tokens, p \in Prints :
        /\ <<"2xx", p>> \in heard[k] => effects[k][p] = 1 /\ reserved[k].status = "completed"
        /\ <<"4xx", p>> \in heard[k] => effects[k][p] = 0 /\ reserved[k].status = "completed"

IdempotencyInv == M!MTypeOK /\ IndReserved /\ IndDropped /\ IndWorked /\ IndHeard

\* Before the first request no key is reserved and nothing has been done.
LEMMA Initially == ASSUME M!IdempotencyAssumption, M!MInit PROVE IdempotencyInv
<1> USE DEF M!IdempotencyAssumption, M!MInit, M!NoRow, M!NoCall
<1>1. M!MTypeOK
  BY DEF M!MTypeOK, M!KeyRows, M!Calls, M!Steps, M!StatusCodes, M!Answers
<1>2. IndReserved /\ IndDropped
  BY DEF IndReserved, IndDropped, Holds, M!At
<1>3. IndWorked
  BY DEF IndWorked, Holds, M!At
<1>4. IndHeard
  BY DEF IndHeard
<1> QED
  BY <1>1, <1>2, <1>3, <1>4 DEF IdempotencyInv

\* What the steps leave of a request.
LEMMA Moved ==
    ASSUME M!MTypeOK, NEW h \in Requesters, NEW step \in M!Steps, NEW answer \in M!StatusCodes,
           M!Proceeds(h, step, answer)
    PROVE  /\ request'[h].step = step /\ request'[h].code = answer
           /\ request'[h].token = request[h].token /\ request'[h].print = request[h].print
           /\ \A g \in Requesters \ {h} : request'[g] = request[g]
           /\ request' \in [Requesters -> M!Calls]
  BY DEF M!MTypeOK, M!Proceeds, M!Calls, M!Steps

\* A request that is answered is idle again, and its client has heard one thing more.
LEMMA Answered ==
    ASSUME M!IdempotencyAssumption, M!MTypeOK, IndReserved, NEW h \in Requesters,
           NEW answer \in M!Answers, ~M!At(h, "idle"), M!Hears(h, answer)
    PROVE  /\ request'[h] = M!NoCall
           /\ \A g \in Requesters \ {h} : request'[g] = request[g]
           /\ request' \in [Requesters -> M!Calls]
           /\ heard' \in [Tokens -> SUBSET (M!Answers \X Prints)]
           /\ \A k \in Tokens : heard'[k] =
                IF k = request[h].token THEN heard[k] \cup {<<answer, request[h].print>>}
                ELSE heard[k]
<1>1. request[h].token \in Tokens /\ request[h].print \in Prints
  BY DEF M!MTypeOK, IndReserved, M!Calls
<1>2. M!NoCall \in M!Calls
  BY DEF M!IdempotencyAssumption, M!NoCall, M!NoRow, M!Calls, M!Steps, M!StatusCodes
<1>3. request' = [request EXCEPT ![h] = M!NoCall]
  BY DEF M!Hears
<1>4. heard' = [heard EXCEPT ![request[h].token] = @ \cup {<<answer, request[h].print>>}]
  BY DEF M!Hears
<1>5. heard' \in [Tokens -> SUBSET (M!Answers \X Prints)]
  BY <1>1, <1>4 DEF M!MTypeOK
<1>6. \A k \in Tokens : heard'[k] =
        IF k = request[h].token THEN heard[k] \cup {<<answer, request[h].print>>}
        ELSE heard[k]
  BY <1>1, <1>4 DEF M!MTypeOK
<1> QED
  BY <1>2, <1>3, <1>5, <1>6 DEF M!MTypeOK

\* A new request holds nothing yet.
LEMMA AskKeeps ==
    ASSUME M!IdempotencyAssumption, IdempotencyInv,
           NEW h \in Requesters, NEW k \in Tokens, NEW p \in Prints, M!Ask(h, k, p)
    PROVE  IdempotencyInv'
<1>1. /\ request'[h].step = "asked" /\ request'[h].token = k
      /\ \A g \in Requesters \ {h} : request'[g] = request[g]
      /\ request' \in [Requesters -> M!Calls]
      /\ M!At(h, "idle")
      /\ UNCHANGED <<reserved, effects, heard, dropped>>
  BY DEF M!Ask, IdempotencyInv, M!MTypeOK, M!Calls, M!Steps, M!StatusCodes
<1>2. \A g \in Requesters, z \in Tokens : Holds(g, z)' <=> Holds(g, z)
  BY <1>1 DEF Holds, M!At
<1>3. M!MTypeOK'
  BY <1>1 DEF IdempotencyInv, M!MTypeOK
<1>4. IndReserved'
  BY <1>1, <1>2 DEF IdempotencyInv, IndReserved, Holds, M!At
<1>5. IndDropped'
  BY <1>1, <1>2 DEF IdempotencyInv, IndDropped
<1>6. IndWorked' /\ IndHeard'
  BY <1>1, <1>2 DEF IdempotencyInv, IndWorked, IndHeard, M!At, Holds
<1> QED
  BY <1>3, <1>4, <1>5, <1>6 DEF IdempotencyInv

\* The first to insert the row of a key holds it, and is the only one ever.
LEMMA ReserveKeeps ==
    ASSUME M!IdempotencyAssumption, IdempotencyInv, NEW h \in Requesters, M!Reserve(h)
    PROVE  IdempotencyInv'
<1> DEFINE k == request[h].token
<1>1. k \in Tokens /\ request[h].print \in Prints /\ M!At(h, "asked")
  BY DEF M!Reserve, IdempotencyInv, M!MTypeOK, IndReserved, M!At, M!Calls
<1>2. CASE reserved[k].status = "absent"
  <2>1. /\ reserved' = [reserved EXCEPT ![k] =
                [status |-> "processing", print |-> request[h].print, code |-> "none"]]
        /\ M!Proceeds(h, "executing", "none")
        /\ UNCHANGED <<effects, heard, dropped>>
    BY <1>2 DEF M!Reserve
  <2>2. /\ reserved' \in [Tokens -> M!KeyRows]
        /\ reserved'[k] = [status |-> "processing", print |-> request[h].print, code |-> "none"]
        /\ \A z \in Tokens \ {k} : reserved'[z] = reserved[z]
    BY <1>1, <2>1 DEF IdempotencyInv, M!MTypeOK, M!KeyRows, M!StatusCodes
  <2>3. /\ request'[h].step = "executing" /\ request'[h].token = k
        /\ request'[h].print = request[h].print
        /\ \A g \in Requesters \ {h} : request'[g] = request[g]
        /\ request' \in [Requesters -> M!Calls]
    BY <2>1, Moved DEF IdempotencyInv, M!Steps, M!StatusCodes
  <2>4. \A g \in Requesters : ~Holds(g, k)
    BY <1>1, <1>2 DEF IdempotencyInv, IndReserved
  <2>5. \A g \in Requesters, z \in Tokens :
            Holds(g, z)' <=> (g = h /\ z = k) \/ Holds(g, z)
    BY <1>1, <2>3 DEF Holds, M!At
  <2>6. M!MTypeOK'
    BY <2>1, <2>2, <2>3 DEF IdempotencyInv, M!MTypeOK
  <2>7. IndReserved'
    BY <1>1, <2>2, <2>3, <2>4, <2>5 DEF IdempotencyInv, IndReserved, M!At
  <2>8. IndDropped'
    BY <1>1, <2>1, <2>2, <2>5 DEF IdempotencyInv, IndDropped
  <2>9. \A p \in Prints : effects[k][p] = 0
    BY <1>1, <1>2 DEF IdempotencyInv, IndWorked
  <2>10. IndWorked'
    <3>1. ASSUME NEW z \in Tokens, NEW p \in Prints
          PROVE (/\ effects[z][p] \in {0, 1}
                 /\ effects[z][p] = 1 => reserved[z].print = p /\ reserved[z].status # "absent"
                 /\ reserved[z].status = "completed" =>
                      /\ reserved[z].code \in {"2xx", "4xx"}
                      /\ reserved[z].code = "2xx" /\ reserved[z].print = p => effects[z][p] = 1
                      /\ reserved[z].code = "4xx" /\ reserved[z].print = p => effects[z][p] = 0)'
      BY <1>1, <2>1, <2>2, <2>9 DEF IdempotencyInv, IndWorked
    <3>2. ASSUME NEW g \in Requesters, NEW z \in Tokens, Holds(g, z)'
          PROVE (/\ M!At(g, "executing") => \A q \in Prints : effects[z][q] = 0
                 /\ M!At(g, "executed") =>
                      /\ request[g].code \in {"2xx", "4xx", "5xx"}
                      /\ request[g].code = "2xx" => effects[z][request[g].print] = 1
                      /\ request[g].code = "4xx" => effects[z][request[g].print] = 0)'
      <4>1. CASE g = h
        BY <2>1, <2>3, <2>9, <3>2, <4>1 DEF Holds, M!At
      <4>2. CASE g # h
        BY <2>1, <2>3, <2>5, <3>2, <4>2 DEF IdempotencyInv, IndWorked, M!At
      <4> QED
        BY <4>1, <4>2
    <3> QED
      BY <3>1, <3>2 DEF IndWorked
  <2>11. IndHeard'
    BY ZenonT(60), <1>1, <1>2, <2>1, <2>2 DEF IdempotencyInv, IndHeard
  <2> QED
    BY <2>6, <2>7, <2>8, <2>10, <2>11 DEF IdempotencyInv
<1>3. CASE reserved[k].status # "absent"
  <2>1. M!Proceeds(h, "reading", "none") /\ UNCHANGED <<reserved, effects, heard, dropped>>
    BY <1>3 DEF M!Reserve
  <2>2. /\ request'[h].step = "reading" /\ request'[h].token = k
        /\ \A g \in Requesters \ {h} : request'[g] = request[g]
        /\ request' \in [Requesters -> M!Calls]
    BY <2>1, Moved DEF IdempotencyInv, M!Steps, M!StatusCodes
  <2>3. \A g \in Requesters, z \in Tokens : Holds(g, z)' <=> Holds(g, z)
    BY <1>1, <2>2 DEF Holds, M!At
  <2>4. M!MTypeOK'
    BY <2>1, <2>2 DEF IdempotencyInv, M!MTypeOK
  <2>5. IndReserved'
    BY <1>1, <1>3, <2>1, <2>2, <2>3 DEF IdempotencyInv, IndReserved, M!At, Holds
  <2>6. IndDropped'
    BY <2>1, <2>3 DEF IdempotencyInv, IndDropped
  <2>7. IndWorked' /\ IndHeard'
    BY <2>1, <2>2, <2>3 DEF IdempotencyInv, IndWorked, IndHeard, M!At, Holds
  <2> QED
    BY <2>4, <2>5, <2>6, <2>7 DEF IdempotencyInv
<1> QED
  BY <1>2, <1>3

\* A request whose key is taken is told what the row says, or 409.
LEMMA ReplayKeeps ==
    ASSUME M!IdempotencyAssumption, IdempotencyInv, NEW h \in Requesters, M!Replay(h)
    PROVE  IdempotencyInv'
<1> DEFINE k == request[h].token
           row == reserved[k]
           answer == IF row.print = request[h].print /\ row.status = "completed"
                     THEN row.code ELSE "409"
<1>1. k \in Tokens /\ request[h].print \in Prints /\ M!At(h, "reading")
  BY DEF M!Replay, IdempotencyInv, M!MTypeOK, IndReserved, M!At, M!Calls
<1>2. answer \in M!Answers
  BY <1>1 DEF IdempotencyInv, IndWorked, M!Answers
<1>3. M!Hears(h, answer) /\ UNCHANGED <<reserved, effects, dropped>>
  BY DEF M!Replay
<1>4. ~M!At(h, "idle")
  BY <1>1 DEF M!At
<1> HIDE DEF answer
<1>5. /\ request'[h] = M!NoCall
      /\ \A g \in Requesters \ {h} : request'[g] = request[g]
      /\ request' \in [Requesters -> M!Calls]
      /\ heard' \in [Tokens -> SUBSET (M!Answers \X Prints)]
      /\ \A z \in Tokens : heard'[z] =
            IF z = k THEN heard[z] \cup {<<answer, request[h].print>>} ELSE heard[z]
  BY <1>2, <1>3, <1>4, Answered DEF IdempotencyInv
<1>6. \A g \in Requesters, z \in Tokens : Holds(g, z)' <=> Holds(g, z)
  BY <1>1, <1>5 DEF Holds, M!At, M!NoCall
<1>7. M!MTypeOK'
  BY <1>3, <1>5 DEF IdempotencyInv, M!MTypeOK
<1>8. IndReserved'
  BY <1>3, <1>5, <1>6 DEF IdempotencyInv, IndReserved, M!At, Holds, M!NoCall
<1>9. IndDropped'
  BY <1>3, <1>6 DEF IdempotencyInv, IndDropped
<1>10. IndWorked'
  BY <1>3, <1>5, <1>6 DEF IdempotencyInv, IndWorked, M!At, Holds, M!NoCall
<1>11. /\ answer = "2xx" => effects[k][request[h].print] = 1 /\ row.status = "completed"
       /\ answer = "4xx" => effects[k][request[h].print] = 0 /\ row.status = "completed"
  BY <1>1 DEF IdempotencyInv, IndWorked, answer
<1>12. IndHeard'
  <2>1. ASSUME NEW z \in Tokens, NEW p \in Prints
        PROVE (/\ <<"2xx", p>> \in heard[z] =>
                    effects[z][p] = 1 /\ reserved[z].status = "completed"
               /\ <<"4xx", p>> \in heard[z] =>
                    effects[z][p] = 0 /\ reserved[z].status = "completed")'
    <3>1. CASE z = k
      BY <1>1, <1>3, <1>5, <1>11, <3>1 DEF IdempotencyInv, IndHeard
    <3>2. CASE z # k
      BY <1>3, <1>5, <3>2 DEF IdempotencyInv, IndHeard
    <3> QED
      BY <3>1, <3>2
  <2> QED
    BY <2>1 DEF IndHeard
<1> QED
  BY <1>7, <1>8, <1>9, <1>10, <1>12 DEF IdempotencyInv

\* The holder works: until then nothing had been done for the key.
LEMMA WorkKeeps ==
    ASSUME M!IdempotencyAssumption, IdempotencyInv, NEW h \in Requesters,
           NEW answer \in M!StatusCodes, M!Work(h, answer)
    PROVE  IdempotencyInv'
<1> DEFINE k == request[h].token
           p == request[h].print
<1>1. /\ k \in Tokens /\ p \in Prints /\ M!At(h, "executing") /\ Holds(h, k)
      /\ answer \in {"2xx", "5xx"} /\ effects[k][p] = 0
  BY DEF M!Work, IdempotencyInv, M!MTypeOK, IndReserved, IndWorked, M!At, M!Calls, Holds
<1>2. /\ effects' = [effects EXCEPT ![k][p] = @ + 1] /\ M!Proceeds(h, "executed", answer)
      /\ UNCHANGED <<reserved, heard, dropped>>
  BY DEF M!Work
<1>3. /\ effects' \in [Tokens -> [Prints -> 0 .. MaxEffects]]
      /\ effects'[k][p] = 1
      /\ \A z \in Tokens, q \in Prints :
            ~(z = k /\ q = p) => effects'[z][q] = effects[z][q]
  BY <1>1, <1>2 DEF IdempotencyInv, M!MTypeOK, M!IdempotencyAssumption
<1>4. /\ request'[h].step = "executed" /\ request'[h].token = k
      /\ request'[h].print = p /\ request'[h].code = answer
      /\ \A g \in Requesters \ {h} : request'[g] = request[g]
      /\ request' \in [Requesters -> M!Calls]
  BY <1>2, Moved DEF IdempotencyInv, M!Steps
<1>5. \A g \in Requesters, z \in Tokens : Holds(g, z)' <=> Holds(g, z)
  BY <1>1, <1>4 DEF Holds, M!At
<1>6. \A g \in Requesters : Holds(g, k) => g = h
  BY <1>1 DEF IdempotencyInv, IndReserved
<1>7. reserved[k].status = "processing" /\ reserved[k].print = p
  BY <1>1 DEF IdempotencyInv, IndReserved
<1>8. M!MTypeOK'
  BY <1>2, <1>3, <1>4 DEF IdempotencyInv, M!MTypeOK
<1>9. IndReserved'
  BY <1>1, <1>2, <1>4, <1>5 DEF IdempotencyInv, IndReserved, M!At, Holds
<1>10. IndDropped'
  BY <1>2, <1>5 DEF IdempotencyInv, IndDropped
<1>11. IndWorked'
  <2>1. ASSUME NEW z \in Tokens, NEW q \in Prints
        PROVE (/\ effects[z][q] \in {0, 1}
               /\ effects[z][q] = 1 => reserved[z].print = q /\ reserved[z].status # "absent"
               /\ reserved[z].status = "completed" =>
                    /\ reserved[z].code \in {"2xx", "4xx"}
                    /\ reserved[z].code = "2xx" /\ reserved[z].print = q => effects[z][q] = 1
                    /\ reserved[z].code = "4xx" /\ reserved[z].print = q => effects[z][q] = 0)'
    BY <1>1, <1>2, <1>3, <1>7 DEF IdempotencyInv, IndWorked
  <2>2. ASSUME NEW g \in Requesters, NEW z \in Tokens, Holds(g, z)'
        PROVE (/\ M!At(g, "executing") => \A q \in Prints : effects[z][q] = 0
               /\ M!At(g, "executed") =>
                    /\ request[g].code \in {"2xx", "4xx", "5xx"}
                    /\ request[g].code = "2xx" => effects[z][request[g].print] = 1
                    /\ request[g].code = "4xx" => effects[z][request[g].print] = 0)'
    <3>1. CASE g = h
      BY <1>1, <1>3, <1>4, <2>2, <3>1 DEF Holds, M!At
    <3>2. CASE g # h
      <4>1. z # k /\ Holds(g, z) /\ request'[g] = request[g] /\ request[g].print \in Prints
        BY <1>4, <1>5, <1>6, <2>2, <3>2 DEF IdempotencyInv, M!MTypeOK, M!Calls
      <4> QED
        BY <1>3, <4>1 DEF IdempotencyInv, IndWorked, M!At
    <3> QED
      BY <3>1, <3>2
  <2> QED
    BY <2>1, <2>2 DEF IndWorked
<1>12. IndHeard'
  BY ZenonT(30), <1>2, <1>3, <1>7 DEF IdempotencyInv, IndHeard
<1> QED
  BY <1>8, <1>9, <1>10, <1>11, <1>12 DEF IdempotencyInv

\* The holder answers without having done anything.
LEMMA DeclineKeeps ==
    ASSUME M!IdempotencyAssumption, IdempotencyInv, NEW h \in Requesters,
           NEW answer \in M!StatusCodes, M!Decline(h, answer)
    PROVE  IdempotencyInv'
<1> DEFINE k == request[h].token
           p == request[h].print
<1>1. /\ k \in Tokens /\ p \in Prints /\ M!At(h, "executing") /\ Holds(h, k)
      /\ answer \in {"4xx", "5xx"} /\ effects[k][p] = 0
      /\ M!Proceeds(h, "executed", answer) /\ UNCHANGED <<reserved, effects, heard, dropped>>
  BY DEF M!Decline, IdempotencyInv, M!MTypeOK, IndReserved, IndWorked, M!At, M!Calls, Holds
<1>2. /\ request'[h].step = "executed" /\ request'[h].token = k
      /\ request'[h].print = p /\ request'[h].code = answer
      /\ \A g \in Requesters \ {h} : request'[g] = request[g]
      /\ request' \in [Requesters -> M!Calls]
  BY <1>1, Moved DEF IdempotencyInv, M!Steps
<1>3. \A g \in Requesters, z \in Tokens : Holds(g, z)' <=> Holds(g, z)
  BY <1>1, <1>2 DEF Holds, M!At
<1>4. M!MTypeOK'
  BY <1>1, <1>2 DEF IdempotencyInv, M!MTypeOK
<1>5. IndReserved'
  BY <1>1, <1>2, <1>3 DEF IdempotencyInv, IndReserved, M!At, Holds
<1>6. IndDropped'
  BY <1>1, <1>3 DEF IdempotencyInv, IndDropped
<1>7. IndWorked' /\ IndHeard'
  BY <1>1, <1>2, <1>3 DEF IdempotencyInv, IndWorked, IndHeard, M!At, Holds
<1> QED
  BY <1>4, <1>5, <1>6, <1>7 DEF IdempotencyInv

\* The row is settled, and tells from then on what the holder has done.
LEMMA CompleteKeeps ==
    ASSUME M!IdempotencyAssumption, IdempotencyInv, NEW h \in Requesters, M!Complete(h)
    PROVE  IdempotencyInv'
<1> DEFINE k == request[h].token
           p == request[h].print
           answer == request[h].code
<1>1. /\ k \in Tokens /\ p \in Prints /\ M!At(h, "executed") /\ Holds(h, k)
      /\ answer \in {"2xx", "4xx", "5xx"} /\ ~M!At(h, "idle")
      /\ answer = "2xx" => effects[k][p] = 1
      /\ answer = "4xx" => effects[k][p] = 0
      /\ reserved[k].print = p
  BY DEF M!Complete, IdempotencyInv, M!MTypeOK, IndReserved, IndWorked, M!At, M!Calls, Holds
<1>2. /\ reserved' = [reserved EXCEPT ![k] =
            [@ EXCEPT !.status = IF answer = "5xx" THEN "failed" ELSE "completed",
                      !.code = answer]]
      /\ M!Hears(h, answer) /\ UNCHANGED <<effects, dropped>>
  BY DEF M!Complete
<1>3. /\ reserved'[k].status = IF answer = "5xx" THEN "failed" ELSE "completed"
      /\ reserved'[k].code = answer /\ reserved'[k].print = p
      /\ \A z \in Tokens \ {k} : reserved'[z] = reserved[z]
      /\ reserved' \in [Tokens -> M!KeyRows]
  <2>1. /\ reserved \in [Tokens -> M!KeyRows] /\ reserved[k] \in M!KeyRows
        /\ reserved[k].print = p
    BY <1>1 DEF IdempotencyInv, M!MTypeOK
  <2>2. answer \in M!StatusCodes
    BY <1>1 DEF M!StatusCodes
  <2>3. reserved'[k] = [reserved[k] EXCEPT
            !.status = IF answer = "5xx" THEN "failed" ELSE "completed", !.code = answer]
    BY <1>1, <1>2, <2>1
  <2>4. /\ reserved'[k].status = IF answer = "5xx" THEN "failed" ELSE "completed"
        /\ reserved'[k].code = answer /\ reserved'[k].print = p
        /\ reserved'[k] \in M!KeyRows
    BY <1>1, <2>1, <2>2, <2>3 DEF M!KeyRows
  <2> QED
    BY <1>1, <1>2, <2>1, <2>3, <2>4
<1>4. answer \in M!Answers
  BY <1>1 DEF M!Answers
<1>5. /\ request'[h] = M!NoCall
      /\ \A g \in Requesters \ {h} : request'[g] = request[g]
      /\ request' \in [Requesters -> M!Calls]
      /\ heard' \in [Tokens -> SUBSET (M!Answers \X Prints)]
      /\ \A z \in Tokens : heard'[z] =
            IF z = k THEN heard[z] \cup {<<answer, p>>} ELSE heard[z]
  BY <1>1, <1>2, <1>4, Answered DEF IdempotencyInv
<1>6. \A g \in Requesters, z \in Tokens : Holds(g, z)' <=> g # h /\ Holds(g, z)
  BY <1>5 DEF Holds, M!NoCall
<1>7. \A g \in Requesters : Holds(g, k) => g = h
  BY <1>1 DEF IdempotencyInv, IndReserved
<1>8. M!MTypeOK'
  BY <1>2, <1>3, <1>5 DEF IdempotencyInv, M!MTypeOK
<1>9. IndReserved'
  <2>1. \A g \in Requesters : ~M!At(g, "idle")' => request'[g].token \in Tokens
    BY <1>5 DEF IdempotencyInv, IndReserved, M!At, M!NoCall
  <2>2. ASSUME NEW g \in Requesters, NEW z \in Tokens, Holds(g, z)'
        PROVE reserved'[z].status = "processing" /\ reserved'[z].print = request'[g].print
    BY <1>3, <1>5, <1>6, <1>7, <2>2 DEF IdempotencyInv, IndReserved
  <2>3. \A f, g \in Requesters, z \in Tokens : Holds(f, z)' /\ Holds(g, z)' => f = g
    BY <1>6 DEF IdempotencyInv, IndReserved
  <2>4. \A g \in Requesters : M!At(g, "reading")' => reserved'[request'[g].token].status # "absent"
    BY <1>1, <1>3, <1>5 DEF IdempotencyInv, IndReserved, M!At, M!NoCall
  <2> QED
    BY <2>1, <2>2, <2>3, <2>4 DEF IndReserved
<1>10. IndDropped'
  <2>1. ASSUME NEW z \in Tokens, reserved'[z].status = "processing", z \notin dropped'
        PROVE \E g \in Requesters : Holds(g, z)'
    <3>1. z # k /\ reserved[z].status = "processing" /\ z \notin dropped
      BY <1>1, <1>2, <1>3, <2>1
    <3>2. PICK g \in Requesters : Holds(g, z)
      BY <3>1 DEF IdempotencyInv, IndDropped
    <3>3. g # h
      BY <3>1, <3>2 DEF Holds
    <3> QED
      BY <1>6, <3>2, <3>3
  <2> QED
    BY <2>1 DEF IndDropped
<1>11. IndWorked'
  <2>1. ASSUME NEW z \in Tokens, NEW q \in Prints
        PROVE (/\ effects[z][q] \in {0, 1}
               /\ effects[z][q] = 1 => reserved[z].print = q /\ reserved[z].status # "absent"
               /\ reserved[z].status = "completed" =>
                    /\ reserved[z].code \in {"2xx", "4xx"}
                    /\ reserved[z].code = "2xx" /\ reserved[z].print = q => effects[z][q] = 1
                    /\ reserved[z].code = "4xx" /\ reserved[z].print = q => effects[z][q] = 0)'
    <3>1. CASE z = k
      BY SMTT(30), <1>1, <1>2, <1>3, <3>1 DEF IdempotencyInv, IndWorked
    <3>2. CASE z # k
      BY <1>2, <1>3, <3>2 DEF IdempotencyInv, IndWorked
    <3> QED
      BY <3>1, <3>2
  <2>2. ASSUME NEW g \in Requesters, NEW z \in Tokens, Holds(g, z)'
        PROVE (/\ M!At(g, "executing") => \A q \in Prints : effects[z][q] = 0
               /\ M!At(g, "executed") =>
                    /\ request[g].code \in {"2xx", "4xx", "5xx"}
                    /\ request[g].code = "2xx" => effects[z][request[g].print] = 1
                    /\ request[g].code = "4xx" => effects[z][request[g].print] = 0)'
    BY <1>2, <1>5, <1>6, <2>2 DEF IdempotencyInv, IndWorked, M!At
  <2> QED
    BY <2>1, <2>2 DEF IndWorked
<1>12. IndHeard'
  <2>1. ASSUME NEW z \in Tokens, NEW q \in Prints
        PROVE (/\ <<"2xx", q>> \in heard[z] =>
                    effects[z][q] = 1 /\ reserved[z].status = "completed"
               /\ <<"4xx", q>> \in heard[z] =>
                    effects[z][q] = 0 /\ reserved[z].status = "completed")'
    <3>1. CASE z = k
      <4>1. reserved[k].status = "processing"
        BY <1>1 DEF IdempotencyInv, IndReserved
      <4>2. <<"2xx", q>> \notin heard[k] /\ <<"4xx", q>> \notin heard[k]
        BY <1>1, <4>1 DEF IdempotencyInv, IndHeard
      <4> QED
        BY <1>1, <1>2, <1>3, <1>5, <3>1, <4>2
    <3>2. CASE z # k
      BY <1>2, <1>3, <1>5, <3>2 DEF IdempotencyInv, IndHeard
    <3> QED
      BY <3>1, <3>2
  <2> QED
    BY <2>1 DEF IndHeard
<1> QED
  BY <1>8, <1>9, <1>10, <1>11, <1>12 DEF IdempotencyInv

\* A request that is answered without its row, or not at all.
LEMMA EndKeeps ==
    ASSUME M!IdempotencyAssumption, IdempotencyInv, NEW h \in Requesters, ~M!At(h, "idle"),
           request' = [request EXCEPT ![h] = M!NoCall],
           dropped' = IF M!At(h, "executing") \/ M!At(h, "executed")
                      THEN dropped \cup {request[h].token} ELSE dropped,
           UNCHANGED <<reserved, effects>>,
           heard' \in [Tokens -> SUBSET (M!Answers \X Prints)],
           \A k \in Tokens, p \in Prints :
                /\ <<"2xx", p>> \in heard'[k] => <<"2xx", p>> \in heard[k]
                /\ <<"4xx", p>> \in heard'[k] => <<"4xx", p>> \in heard[k]
    PROVE  IdempotencyInv'
<1> DEFINE k == request[h].token
<1>1. k \in Tokens
  BY DEF IdempotencyInv, IndReserved
<1>2. /\ request'[h] = M!NoCall /\ M!NoCall \in M!Calls
      /\ \A g \in Requesters \ {h} : request'[g] = request[g]
      /\ request' \in [Requesters -> M!Calls]
  BY DEF IdempotencyInv, M!MTypeOK, M!IdempotencyAssumption, M!NoCall, M!NoRow, M!Calls, M!Steps, M!StatusCodes
<1>3. \A g \in Requesters, z \in Tokens : Holds(g, z)' <=> g # h /\ Holds(g, z)
  BY <1>2 DEF Holds, M!NoCall
<1>4. M!MTypeOK'
  BY <1>1, <1>2 DEF IdempotencyInv, M!MTypeOK
<1>5. IndReserved'
  BY <1>2, <1>3 DEF IdempotencyInv, IndReserved, M!At, M!NoCall, Holds
<1>6. IndDropped'
  <2>1. ASSUME NEW z \in Tokens, reserved'[z].status = "processing", z \notin dropped'
        PROVE \E g \in Requesters : Holds(g, z)'
    <3>1. PICK g \in Requesters : Holds(g, z)
      BY <2>1 DEF IdempotencyInv, IndDropped
    <3>2. g # h
      BY <2>1, <3>1 DEF Holds, M!At
    <3> QED
      BY <1>3, <3>1, <3>2
  <2> QED
    BY <2>1 DEF IndDropped
<1>7. IndWorked'
  BY <1>2, <1>3 DEF IdempotencyInv, IndWorked, M!At, Holds, M!NoCall
<1>8. IndHeard'
  BY DEF IdempotencyInv, IndHeard
<1> QED
  BY <1>4, <1>5, <1>6, <1>7, <1>8 DEF IdempotencyInv

\* A holder whose last UPDATE fails leaves its key dropped.
LEMMA FailCompleteKeeps ==
    ASSUME M!IdempotencyAssumption, IdempotencyInv, NEW h \in Requesters, M!FailComplete(h)
    PROVE  IdempotencyInv'
<1>1. /\ M!At(h, "executed") /\ ~M!At(h, "idle") /\ M!Hears(h, "5xx")
      /\ request' = [request EXCEPT ![h] = M!NoCall]
      /\ dropped' = dropped \cup {request[h].token} /\ UNCHANGED <<reserved, effects>>
  BY DEF M!FailComplete, M!At, M!Hears
<1>2. /\ heard' \in [Tokens -> SUBSET (M!Answers \X Prints)]
      /\ \A k \in Tokens : heard'[k] =
            IF k = request[h].token THEN heard[k] \cup {<<"5xx", request[h].print>>}
            ELSE heard[k]
  BY <1>1, Answered DEF IdempotencyInv, M!Answers
<1>3. \A k \in Tokens, p \in Prints :
        /\ <<"2xx", p>> \in heard'[k] => <<"2xx", p>> \in heard[k]
        /\ <<"4xx", p>> \in heard'[k] => <<"4xx", p>> \in heard[k]
  BY <1>2
<1> QED
  BY <1>1, <1>2, <1>3, EndKeeps

\* So does one that ends.
LEMMA DieKeeps ==
    ASSUME M!IdempotencyAssumption, IdempotencyInv, NEW h \in Requesters, M!Die(h)
    PROVE  IdempotencyInv'
<1>1. /\ ~M!At(h, "idle") /\ request' = [request EXCEPT ![h] = M!NoCall]
      /\ dropped' = IF M!At(h, "executing") \/ M!At(h, "executed")
                    THEN dropped \cup {request[h].token} ELSE dropped
      /\ UNCHANGED <<reserved, effects, heard>>
  BY DEF M!Die
<1>2. heard' \in [Tokens -> SUBSET (M!Answers \X Prints)]
  BY <1>1 DEF IdempotencyInv, M!MTypeOK
<1> QED
  BY <1>1, <1>2, EndKeeps

\* The inductive invariant holds in every reachable state.
THEOREM KeysInductive == ASSUME M!IdempotencyAssumption PROVE M!MSpec => []IdempotencyInv
<1>1. M!MInit => IdempotencyInv
  BY Initially
<1>2. IdempotencyInv /\ [M!MNext]_(M!mvars) => IdempotencyInv'
  <2> SUFFICES ASSUME IdempotencyInv, [M!MNext]_(M!mvars) PROVE IdempotencyInv'
    OBVIOUS
  <2>1. CASE UNCHANGED M!mvars
    BY <2>1 DEF M!mvars, IdempotencyInv, M!MTypeOK, IndReserved, IndDropped, IndWorked, IndHeard, Holds, M!At
  <2>2. CASE M!MNext
    BY <2>2, AskKeeps, ReserveKeeps, ReplayKeeps, WorkKeeps, DeclineKeeps, CompleteKeeps,
       FailCompleteKeeps, DieKeeps DEF M!MNext
  <2> QED
    BY <2>1, <2>2
<1> QED
  BY <1>1, <1>2, PTL DEF M!MSpec

\* Every row and every request is of its type.
THEOREM KeysTypeCorrect == ASSUME M!IdempotencyAssumption PROVE M!MSpec => []M!MTypeOK
<1>1. IdempotencyInv => M!MTypeOK
  BY DEF IdempotencyInv
<1> QED
  BY <1>1, KeysInductive, PTL

\* However many requests carry one key, at once or one after the other, its
\* handler works at most once, clients hear the truth about it, and a key stays
\* "processing" only if its request was cut off (Idempotency).
THEOREM WorksOnce == ASSUME M!IdempotencyAssumption PROVE M!MSpec => []M!CallsOnce
<1>1. IdempotencyInv => M!CallsOnce
  <2> SUFFICES ASSUME IdempotencyInv, NEW k \in Tokens
      PROVE LET executing == {h \in Requesters : request[h].token = k
                                /\ (M!At(h, "executing") \/ M!At(h, "executed"))} IN
            /\ \A p, q \in Prints : M!Worked(k, p) + (IF p = q THEN 0 ELSE M!Worked(k, q)) <= 1
            /\ \A p \in Prints :
                /\ <<"2xx", p>> \in heard[k] => M!Worked(k, p) = 1
                /\ <<"4xx", p>> \in heard[k] => M!Worked(k, p) = 0
            /\ reserved[k].status = "processing" /\ executing = {} => k \in dropped
    BY DEF M!CallsOnce
  <2>1. \A p, q \in Prints : M!Worked(k, p) + (IF p = q THEN 0 ELSE M!Worked(k, q)) <= 1
    BY DEF IdempotencyInv, IndWorked, M!Worked
  <2>2. \A p \in Prints :
            /\ <<"2xx", p>> \in heard[k] => M!Worked(k, p) = 1
            /\ <<"4xx", p>> \in heard[k] => M!Worked(k, p) = 0
    BY DEF IdempotencyInv, IndHeard, M!Worked
  <2>3. ASSUME reserved[k].status = "processing", k \notin dropped
        PROVE \E h \in Requesters : request[h].token = k
                /\ (M!At(h, "executing") \/ M!At(h, "executed"))
    BY <2>3 DEF IdempotencyInv, IndDropped, Holds, M!At
  <2> QED
    BY <2>1, <2>2, <2>3
<1> QED
  BY <1>1, KeysInductive, PTL

\* A key's request works once (Idempotency's middleware), whatever else of
\* Workspace is explored: its CallsOnce in every behaviour of Workspace.
THEOREM KeysWorkOnce == Spec => []CallsOnce
<1>1. Init => M!MInit
  BY DEF Init
<1>2. [Next]_vars => [M!MNext]_(M!mvars)
  <2>1. IdempotencyNext => M!MNext
    BY DEF IdempotencyNext
  <2>2. UNCHANGED idempotency => UNCHANGED M!mvars
    BY DEF idempotency, M!mvars
  <2>3. Next => IdempotencyNext \/ UNCHANGED idempotency
    BY DEF Next, ObjectsNext, NotesNext, DocumentsNext, KnowledgeNext, FilesNext,
       SessionsNext, MfaNext, SecurityKeysNext, TeamsNext, IntegrationsNext, rowsOfRequests
  <2>4. UNCHANGED vars => UNCHANGED idempotency
    BY DEF vars, rowsOfRequests
  <2> QED
    BY <2>1, <2>2, <2>3, <2>4
<1>3. M!IdempotencyAssumption
  BY WorkspaceAssumption
<1>4. M!MSpec => []M!CallsOnce
  BY <1>3, WorksOnce
<1>5. CallsOnce <=> M!CallsOnce
  BY DEF CallsOnce
<1>6. Spec => M!MSpec
  BY <1>1, <1>2, PTL DEF Spec, M!MSpec
<1> QED
  BY <1>4, <1>5, <1>6, PTL

-----------------------------------------------------------------------------
(* Integrations *)

IntegrationTypes ==
    /\ key \in [Keys ->
            [state : {"absent", "live", "revoked"}, root : Keys \cup {NoKey},
             ages : BOOLEAN, old : BOOLEAN]]
    /\ entry \in [I!Limits -> Nat] /\ admitted \in [I!Limits -> Nat]
    /\ handler \in [Handlers ->
            [step : {"idle", "rotating", "admitted", "resolved"}, key : Keys \cup {NoKey}]]
    /\ crossed \subseteq Keys

\* The first key of each key is a key.
RootsAreThere ==
    \A k \in Keys : key[k].state # "absent" =>
        key[k].root \in Keys /\ key[key[k].root].state # "absent"

\* Of the keys with one root no two are live, and a key that is being rotated
\* is, unless another change crossed that.
OneLives ==
    \A y, z \in Keys :
        key[y].state = "live" /\ key[z].state = "live" /\ key[y].root = key[z].root =>
            y = z \/ key[y].root \in crossed

RotatesLive ==
    \A h \in Handlers : handler[h].step = "rotating" =>
        /\ handler[h].key \in Keys
        /\ key[handler[h].key].state # "absent"
        /\ key[handler[h].key].state = "live" \/ key[handler[h].key].root \in crossed

IntegrationsInv ==
    /\ IntegrationTypes /\ RootsAreThere /\ OneLives /\ RotatesLive
    /\ \A l \in I!Limits : admitted[l] <= entry[l]

\* A key is made with no other of its root.
LEMMA KeyCreated ==
    ASSUME IntegrationsInv, NEW k \in Keys, NEW ages \in BOOLEAN, I!CreateKey(k, ages)
    PROVE  IntegrationsInv'
<1>1. IntegrationTypes /\ RootsAreThere /\ OneLives /\ RotatesLive
  BY DEF IntegrationsInv
<1>2. PICK r : r = [state |-> "live", root |-> k, ages |-> ages, old |-> FALSE]
  OBVIOUS
<1>3. /\ key[k].state = "absent" /\ key' = [key EXCEPT ![k] = r]
      /\ UNCHANGED <<entry, admitted, handler, crossed>>
  BY <1>2 DEF I!CreateKey, I!Unused, I!Absent, I!gatevars
<1>4. key'[k] = r /\ \A z \in Keys \ {k} : key'[z] = key[z]
  BY <1>1, <1>3 DEF IntegrationTypes
<1>5. IntegrationTypes'
  BY <1>1, <1>2, <1>3 DEF IntegrationTypes
<1>6. RootsAreThere'
  BY <1>1, <1>2, <1>4 DEF RootsAreThere
<1>7. OneLives'
  BY <1>1, <1>2, <1>3, <1>4 DEF OneLives, RootsAreThere
<1>8. RotatesLive'
  BY <1>1, <1>3, <1>4 DEF RotatesLive
<1> QED BY <1>3, <1>5, <1>6, <1>7, <1>8 DEF IntegrationsInv

\* Time makes a key useless; that it was is no matter for its state.
LEMMA KeyExpired ==
    ASSUME IntegrationsInv, NEW k \in Keys, I!Expire(k)
    PROVE  IntegrationsInv'
<1>1. IntegrationTypes /\ RootsAreThere /\ OneLives /\ RotatesLive
  BY DEF IntegrationsInv
<1>2. PICK r : r = [key[k] EXCEPT !.old = TRUE]
  OBVIOUS
<1>3. key' = [key EXCEPT ![k] = r] /\ UNCHANGED <<entry, admitted, handler, crossed>>
  BY <1>2 DEF I!Expire, I!gatevars
<1>4. \A z \in Keys : key'[z].state = key[z].state /\ key'[z].root = key[z].root
  BY <1>1, <1>2, <1>3 DEF IntegrationTypes
<1>5. IntegrationTypes'
  BY ZenonT(30), <1>1, <1>2, <1>3 DEF IntegrationTypes
<1>6. RootsAreThere' /\ OneLives' /\ RotatesLive'
  BY <1>1, <1>3, <1>4 DEF RootsAreThere, OneLives, RotatesLive
<1> QED BY <1>3, <1>5, <1>6 DEF IntegrationsInv

\* A revocation crosses the rotations of the key that it revokes.
LEMMA KeyRevoked ==
    ASSUME IntegrationsInv, NEW h \in Handlers, NEW k \in Keys, I!RevokeKey(h, k)
    PROVE  IntegrationsInv'
<1>1. IntegrationTypes /\ RootsAreThere /\ OneLives /\ RotatesLive
  BY DEF IntegrationsInv
<1>2. PICK r : r = [key[k] EXCEPT !.state = "revoked", !.ages = FALSE, !.old = FALSE]
  OBVIOUS
<1>3. /\ key[k].state = "live" /\ handler[h].step = "idle"
      /\ key' = [key EXCEPT ![k] = r] /\ I!Crosses(h, k)
      /\ UNCHANGED <<entry, admitted, handler>>
  BY <1>2 DEF I!RevokeKey, I!gatevars, I!Revoked, I!At
<1>4. /\ key'[k].state = "revoked"
      /\ \A z \in Keys : key'[z].root = key[z].root
      /\ \A z \in Keys \ {k} : key'[z].state = key[z].state
  BY <1>1, <1>2, <1>3 DEF IntegrationTypes
<1>5. /\ crossed \subseteq crossed' /\ crossed' \subseteq Keys
      /\ \A z \in Handlers : handler[z].step = "rotating" /\ handler[z].key = k =>
            key[k].root \in crossed'
  BY <1>1, <1>3 DEF I!Crosses, I!At, I!On, IntegrationTypes, RootsAreThere
<1>6. IntegrationTypes'
  BY ZenonT(30), <1>1, <1>2, <1>3, <1>5 DEF IntegrationTypes
<1>7. RootsAreThere' /\ OneLives'
  <2>1. \A z \in Keys : key'[z].state # "absent" <=> key[z].state # "absent"
    BY <1>3, <1>4
  <2>2. RootsAreThere'
    BY <1>1, <1>4, <2>1 DEF RootsAreThere
  <2>3. \A z \in Keys : key'[z].state = "live" => key[z].state = "live"
    BY <1>4
  <2>4. OneLives'
    BY <1>1, <1>4, <1>5, <2>3 DEF OneLives
  <2> QED BY <2>2, <2>4
<1>8. RotatesLive'
  BY <1>1, <1>3, <1>4, <1>5 DEF RotatesLive
<1> QED BY <1>3, <1>6, <1>7, <1>8 DEF IntegrationsInv

\* A rotation revokes the only live key of its root, and makes another; unless
\* the key was no longer live, which crossed it.
LEMMA KeyRotated ==
    ASSUME IntegrationsInv, NEW h \in Handlers, NEW new \in Keys, I!RotateKey(h, new)
    PROVE  IntegrationsInv'
<1>1. IntegrationTypes /\ RootsAreThere /\ OneLives /\ RotatesLive
  BY DEF IntegrationsInv
<1>2. PICK k \in Keys :
        /\ k = handler[h].key /\ key[k].state # "absent"
        /\ key[k].state = "live" \/ key[k].root \in crossed
        /\ key[k].root \in Keys /\ key[key[k].root].state # "absent"
  BY <1>1 DEF I!RotateKey, I!At, RotatesLive, RootsAreThere
<1>3. PICK r, s : /\ r = [key[k] EXCEPT !.state = "revoked", !.ages = FALSE, !.old = FALSE]
                  /\ s = [state |-> "live", root |-> key[k].root, ages |-> FALSE, old |-> FALSE]
  OBVIOUS
<1>4. key[new].state = "absent" /\ new # k
  BY <1>2 DEF I!RotateKey, I!Unused, I!Absent
<1>5. /\ key' = [key EXCEPT ![k] = r, ![new] = s] /\ I!Crosses(h, k)
      /\ handler' = [handler EXCEPT ![h] = [step |-> "idle", key |-> NoKey]]
      /\ UNCHANGED <<entry, admitted>>
  BY <1>2, <1>3 DEF I!RotateKey, I!On, I!Revoked, I!Leaves, I!NoWork, I!gatevars
<1>6. /\ key'[k].state = "revoked" /\ key'[k].root = key[k].root
      /\ key'[new].state = "live" /\ key'[new].root = key[k].root
      /\ \A z \in Keys \ {k, new} : key'[z] = key[z]
  <2>1. key'[k] = r /\ key'[new] = s /\ \A z \in Keys \ {k, new} : key'[z] = key[z]
    BY <1>1, <1>2, <1>4, <1>5 DEF IntegrationTypes
  <2>2. r.state = "revoked" /\ r.root = key[k].root
    BY <1>1, <1>2, <1>3 DEF IntegrationTypes
  <2>3. s.state = "live" /\ s.root = key[k].root
    BY <1>3
  <2> QED BY <2>1, <2>2, <2>3
<1>7. /\ crossed \subseteq crossed' /\ crossed' \subseteq Keys
      /\ \A z \in Handlers \ {h} : handler[z].step = "rotating" /\ handler[z].key = k =>
            key[k].root \in crossed'
  BY <1>1, <1>2, <1>5 DEF I!Crosses, I!At, I!On, IntegrationTypes
<1>8. handler'[h].step = "idle" /\ \A z \in Handlers \ {h} : handler'[z] = handler[z]
  BY <1>1, <1>5 DEF IntegrationTypes
<1>9. IntegrationTypes'
  <2>1. r \in [state : {"absent", "live", "revoked"}, root : Keys \cup {NoKey},
               ages : BOOLEAN, old : BOOLEAN]
    BY ZenonT(30), <1>1, <1>3 DEF IntegrationTypes
  <2>2. s \in [state : {"absent", "live", "revoked"}, root : Keys \cup {NoKey},
               ages : BOOLEAN, old : BOOLEAN]
    BY <1>2, <1>3
  <2> QED BY <1>1, <1>5, <1>7, <2>1, <2>2 DEF IntegrationTypes
<1>10. RootsAreThere'
  BY <1>1, <1>2, <1>4, <1>6 DEF RootsAreThere
<1>11. OneLives'
  <2>1. ASSUME NEW z \in Keys \ {k, new}, key[z].state = "live", key[z].root = key[k].root
        PROVE  key[k].root \in crossed
    BY <1>1, <1>2, <2>1 DEF OneLives
  <2> QED BY <1>1, <1>6, <1>7, <2>1 DEF OneLives
<1>12. RotatesLive'
  <2>1. ASSUME NEW z \in Handlers \ {h}, handler[z].step = "rotating"
        PROVE  /\ handler[z].key \in Keys
               /\ key'[handler[z].key].state # "absent"
               /\ key'[handler[z].key].state = "live" \/ key'[handler[z].key].root \in crossed'
    BY <1>1, <1>2, <1>4, <1>6, <1>7, <2>1 DEF RotatesLive
  <2> QED BY <1>8, <2>1 DEF RotatesLive
<1> QED BY <1>5, <1>9, <1>10, <1>11, <1>12 DEF IntegrationsInv

\* What else a request does: it counts, it begins to rotate a live key, it ends.
LEMMA RequestKeeps ==
    ASSUME IntegrationsInv, NEW h \in Handlers,
           \/ \E k \in Keys : I!BeginRotate(h, k) \/ I!ResolveIntegrationKey(h, k)
           \/ \E a \in Alerts : I!ReceiveWebhook(h, a)
           \/ \E origin \in Origins : I!Allow(h, origin)
           \/ I!Refuse(h)
    PROVE  IntegrationsInv'
<1>1. /\ IntegrationTypes /\ RootsAreThere /\ OneLives /\ RotatesLive
      /\ \A l \in I!Limits : admitted[l] <= entry[l]
  BY DEF IntegrationsInv
<1>2. UNCHANGED <<key, crossed>>
  BY DEF I!BeginRotate, I!ResolveIntegrationKey, I!ReceiveWebhook, I!Allow, I!Refuse
<1>3. \/ handler' = handler
      \/ \E step \in {"idle", "admitted", "resolved"}, k \in Keys \cup {NoKey} :
            handler' = [handler EXCEPT ![h] = [step |-> step, key |-> k]]
      \/ \E k \in Keys : key[k].state = "live"
            /\ handler' = [handler EXCEPT ![h] = [step |-> "rotating", key |-> k]]
  <2>1. ASSUME NEW origin \in Origins, I!Allow(h, origin)
        PROVE  handler' = handler \/ handler' = [handler EXCEPT ![h] = [step |-> "admitted", key |-> NoKey]]
    BY <2>1 DEF I!Allow, I!Works
  <2>2. ASSUME I!Refuse(h) \/ \E a \in Alerts : I!ReceiveWebhook(h, a)
        PROVE  handler' = [handler EXCEPT ![h] = [step |-> "idle", key |-> NoKey]]
    BY <2>2 DEF I!Refuse, I!ReceiveWebhook, I!Leaves, I!NoWork
  <2>3. ASSUME NEW k \in Keys, I!ResolveIntegrationKey(h, k)
        PROVE  handler' = [handler EXCEPT ![h] = [step |-> "resolved", key |-> k]]
    BY <2>3 DEF I!ResolveIntegrationKey, I!Works
  <2>4. ASSUME NEW k \in Keys, I!BeginRotate(h, k)
        PROVE  /\ handler' = [handler EXCEPT ![h] = [step |-> "rotating", key |-> k]]
               /\ key[k].state = "live"
    BY <2>4 DEF I!BeginRotate, I!Works
  <2> QED BY <2>1, <2>2, <2>3, <2>4
<1>4. /\ handler' \in [Handlers ->
            [step : {"idle", "rotating", "admitted", "resolved"}, key : Keys \cup {NoKey}]]
      /\ RotatesLive'
  BY <1>1, <1>2, <1>3 DEF IntegrationTypes, RotatesLive
<1>5. /\ entry' \in [I!Limits -> Nat] /\ admitted' \in [I!Limits -> Nat]
      /\ \A l \in I!Limits : admitted'[l] <= entry'[l]
  <2>1. ASSUME NEW origin \in Origins, I!Allow(h, origin)
        PROVE  /\ entry' \in [I!Limits -> Nat] /\ admitted' \in [I!Limits -> Nat]
               /\ \A l \in I!Limits : admitted'[l] <= entry'[l]
    <3>1. PICK counted : /\ entry' = I!Counts(entry, counted)
                         /\ admitted' = admitted \/ admitted' = I!Counts(admitted, counted)
      BY <2>1 DEF I!Allow
    <3> QED BY <1>1, <3>1 DEF IntegrationTypes, I!Counts
  <2>2. CASE UNCHANGED <<entry, admitted>>
    BY <1>1, <2>2 DEF IntegrationTypes
  <2> QED BY <2>1, <2>2
          DEF I!BeginRotate, I!ResolveIntegrationKey, I!ReceiveWebhook, I!Refuse, I!gatevars
<1>6. IntegrationTypes' /\ RootsAreThere' /\ OneLives'
  BY <1>1, <1>2, <1>4, <1>5 DEF IntegrationTypes, RootsAreThere, OneLives
<1> QED BY <1>4, <1>5, <1>6 DEF IntegrationsInv

\* The invariant of Integrations holds in every behaviour of Workspace.
LEMMA IntegrationsInvariant == Spec => []IntegrationsInv
<1>1. Init => IntegrationsInv
  BY DEF Init, I!IInit, I!NoRow, I!NoWork, IntegrationsInv, IntegrationTypes,
         RootsAreThere, OneLives, RotatesLive
<1>2. IntegrationsInv /\ [Next]_vars => IntegrationsInv'
  <2> SUFFICES ASSUME IntegrationsInv, [Next]_vars
               PROVE  IntegrationsInv'
    OBVIOUS
  <2>1. CASE UNCHANGED integrations
    BY <2>1 DEF IntegrationsInv, IntegrationTypes, RootsAreThere, OneLives, RotatesLive,
                integrations
  <2>2. ASSUME NEW k \in Keys, I!Expire(k) \/ \E ages \in BOOLEAN : I!CreateKey(k, ages)
        PROVE  IntegrationsInv'
    BY <2>2, KeyExpired, KeyCreated
  <2>3. ASSUME NEW l \in I!Limits, I!Lapse(l)
        PROVE  IntegrationsInv'
    <3>1. /\ entry' = [entry EXCEPT ![l] = 0] /\ admitted' = [admitted EXCEPT ![l] = 0]
          /\ UNCHANGED <<key, handler, crossed>>
      BY <2>3 DEF I!Lapse
    <3> QED BY <3>1 DEF IntegrationsInv, IntegrationTypes, RootsAreThere, OneLives, RotatesLive
  <2>4. ASSUME NEW h \in Handlers, NEW k \in Keys, I!RevokeKey(h, k) \/ I!RotateKey(h, k)
        PROVE  IntegrationsInv'
    BY <2>4, KeyRevoked, KeyRotated
  <2>5. ASSUME NEW h \in Handlers,
               \/ \E k \in Keys : I!BeginRotate(h, k) \/ I!ResolveIntegrationKey(h, k)
               \/ \E a \in Alerts : I!ReceiveWebhook(h, a)
               \/ \E origin \in Origins : I!Allow(h, origin)
               \/ I!Refuse(h)
        PROVE  IntegrationsInv'
    BY <2>5, RequestKeeps
  <2> QED BY <2>1, <2>2, <2>3, <2>4, <2>5, OneAtATime DEF I!INext
<1> QED BY <1>1, <1>2, PTL DEF Spec

\* Of the keys that rotation made of one key at most one is live, unless a
\* rotation overlapped another change of its key (RotateKey, RevokeKey), and no
\* more requests pass than are counted (allow).
THEOREM IntegrationsAreSound == Spec => []IntegrationsSound
<1>1. IntegrationsInv => IntegrationsSound
  <2> SUFFICES ASSUME IntegrationsInv
               PROVE  IntegrationsSound
    OBVIOUS
  <2>1. ASSUME NEW k \in Keys \ crossed
        PROVE  I!Cardinality(I!LiveFrom(k)) <= 1
    <3>1. I!Cardinality(I!LiveFrom(k)) = Cardinality(I!LiveFrom(k))
      BY DEF I!Cardinality, Cardinality
    <3>2. \A y, z \in I!LiveFrom(k) : y = z
      BY <2>1 DEF IntegrationsInv, OneLives, I!LiveFrom
    <3>3. CASE I!LiveFrom(k) = {}
      BY <3>1, <3>3, FS_EmptySet
    <3>4. ASSUME NEW x \in I!LiveFrom(k)
          PROVE  Cardinality(I!LiveFrom(k)) = 1
      <4>1. I!LiveFrom(k) = {x}
        BY <3>2
      <4> QED BY <4>1, FS_Singleton
    <3> QED BY <3>1, <3>3, <3>4
  <2> QED BY <2>1 DEF IntegrationsSound, I!IntegrationsSound, IntegrationsInv
<1> QED BY <1>1, IntegrationsInvariant, PTL

-----------------------------------------------------------------------------
(* Teams *)

ClerkRecords ==
    [step : {"idle", "founding", "accepting", "changing", "committing", "recalling"},
     id : People \cup Invitations \cup Grants \cup {Nobody},
     role : T!Roles, row : Nat]

\* TTypeOK bounds the counts by the numbers of requests and of invitations,
\* which may be infinite here.
TeamTypes ==
    /\ locked \in BOOLEAN
    /\ account \subseteq People /\ platform \subseteq account
    /\ member \in [People -> [role : T!Roles, row : Nat]]
    /\ invitation \in [Invitations ->
            [status : {"absent", "open", "accepted", "gone"},
             person : People \cup {Nobody}, role : T!Roles]]
    /\ grant \in [Grants -> {"absent", "live", "revoked"}]
    /\ clerk \in [Handlers -> ClerkRecords]
    /\ founded \in Nat
    /\ joined \in [Invitations -> Nat] /\ recalled \in [Grants -> Nat]

\* What a request is about; a row that it has read is the present one or an
\* earlier one.
ClerksSound ==
    \A h \in Handlers :
        /\ clerk[h].step = "accepting" =>
            clerk[h].id \in Invitations /\ invitation[clerk[h].id].status # "absent"
        /\ clerk[h].step \in {"changing", "committing"} =>
            clerk[h].id \in People /\ clerk[h].row <= member[clerk[h].id].row
        /\ clerk[h].step = "recalling" => clerk[h].id \in Grants

FoundedOnce ==
    /\ locked <=> founded > 0
    /\ account # {} <=> founded > 0
    /\ platform # {} <=> founded > 0
    /\ founded = 0 =>
        /\ \A p \in People : member[p].role = "none"
        /\ \A i \in Invitations : invitation[i].status = "absent"
    /\ "founding" \notin crossing =>
        /\ founded <= 1
        /\ \A h, z \in Handlers : clerk[h].step = "founding" /\ clerk[z].step = "founding" =>
            h = z /\ founded = 0

\* Unless two transactions took the crown from two owners at once, one that is
\* about to commit leaves an owner, and is the only one that takes a crown.
CrownsKept ==
    /\ \A h, z \in Handlers :
        clerk[h].step = "committing" /\ clerk[z].step = "committing" /\ clerk[h].id = clerk[z].id =>
            h = z
    /\ founded > 0 /\ "owners" \notin crossing =>
        /\ \E p \in People : member[p].role = "owner"
        /\ \A h \in Handlers : clerk[h].step = "committing" /\ T!Dethrones(h) =>
            /\ \E p \in People : p # clerk[h].id /\ member[p].role = "owner"
            /\ \A z \in Handlers : clerk[z].step = "committing" /\ T!Dethrones(z) => z = h

AdmittedOnce ==
    /\ \A i \in Invitations :
        /\ invitation[i].status # "absent" => invitation[i].person \in People
        /\ joined[i] > 0 => invitation[i].status # "absent"
    /\ \A i \in Invitations \ crossing :
        /\ \A h, z \in Handlers :
            /\ clerk[h].step = "accepting" /\ clerk[h].id = i
            /\ clerk[z].step = "accepting" /\ clerk[z].id = i
            => h = z /\ invitation[i].status = "open"
        /\ invitation[i].status = "open" => joined[i] = 0
        /\ invitation[i].status = "accepted" => joined[i] = 1
        /\ joined[i] <= 1
    /\ \A p \in People \ platform : member[p].role # "none" =>
        \E i \in Invitations : joined[i] > 0 /\ invitation[i].person = p

RecalledOnce ==
    \A g \in Grants \ crossing :
        /\ \A h, z \in Handlers :
            /\ clerk[h].step = "recalling" /\ clerk[h].id = g
            /\ clerk[z].step = "recalling" /\ clerk[z].id = g
            => h = z /\ grant[g] = "live"
        /\ grant[g] # "revoked" => recalled[g] = 0
        /\ recalled[g] <= 1

TeamsInv ==
    TeamTypes /\ ClerksSound /\ FoundedOnce /\ CrownsKept /\ AdmittedOnce /\ RecalledOnce

\* A request that reads, or ends, and what it meets.
LEMMA ClerkMoves ==
    ASSUME TeamsInv, NEW h \in Handlers,
           \/ T!BeginBootstrap(h) \/ T!Refuse(h)
           \/ \E i \in Invitations : T!BeginAccept(h, i)
           \/ \E p \in People : \E role \in T!Roles : T!BeginChange(h, p, role)
           \/ \E g \in Grants : T!BeginRevoke(h, g)
    PROVE  TeamsInv'
<1>1. TeamTypes /\ ClerksSound /\ FoundedOnce /\ CrownsKept /\ AdmittedOnce /\ RecalledOnce
  BY DEF TeamsInv
<1>2. UNCHANGED <<locked, account, platform, member, invitation, grant, founded, joined, recalled>>
  BY DEF T!BeginBootstrap, T!BeginAccept, T!BeginChange, T!BeginRevoke, T!Reads, T!Refuse
<1>3. PICK step \in {"idle", "founding", "accepting", "changing", "recalling"},
           id \in People \cup Invitations \cup Grants \cup {Nobody},
           role \in T!Roles, row \in Nat :
        /\ clerk' = [clerk EXCEPT ![h] = [step |-> step, id |-> id, role |-> role, row |-> row]]
        /\ step # "idle" => clerk[h].step = "idle"
        /\ crossing \subseteq crossing'
        /\ step = "founding" =>
            /\ ~locked
            /\ \A z \in Handlers \ {h} : clerk[z].step = "founding" => "founding" \in crossing'
        /\ step = "accepting" =>
            /\ id \in Invitations /\ invitation[id].status = "open"
            /\ \A z \in Handlers \ {h} :
                clerk[z].step = "accepting" /\ clerk[z].id = id => id \in crossing'
        /\ step = "changing" => id \in People /\ row = member[id].row
        /\ step = "recalling" =>
            /\ id \in Grants /\ grant[id] = "live"
            /\ \A z \in Handlers \ {h} :
                clerk[z].step = "recalling" /\ clerk[z].id = id => id \in crossing'
  <2> USE DEF T!Reads, T!At, T!Others, T!Crosses
  <2>1. "none" \in T!Roles /\ 0 \in Nat
    BY DEF T!Roles
  <2>2. CASE T!BeginBootstrap(h)
    BY <2>1, <2>2 DEF T!BeginBootstrap
  <2>3. CASE T!Refuse(h)
    BY <2>1, <2>3 DEF T!Refuse, T!Ends, T!NoClerk
  <2>4. ASSUME NEW i \in Invitations, T!BeginAccept(h, i)
        PROVE  /\ clerk[h].step = "idle"
               /\ clerk' = [clerk EXCEPT ![h] = [step |-> "accepting", id |-> i,
                                                 role |-> invitation[i].role, row |-> 0]]
               /\ crossing \subseteq crossing'
               /\ invitation[i].status = "open" /\ invitation[i].role \in T!Roles
               /\ \A z \in Handlers \ {h} :
                    clerk[z].step = "accepting" /\ clerk[z].id = i => i \in crossing'
    BY <1>1, <2>4 DEF T!BeginAccept, TeamTypes
  <2>5. ASSUME NEW p \in People, NEW role \in T!Roles, T!BeginChange(h, p, role)
        PROVE  /\ clerk[h].step = "idle"
               /\ clerk' = [clerk EXCEPT ![h] = [step |-> "changing", id |-> p,
                                                 role |-> role, row |-> member[p].row]]
               /\ crossing' = crossing /\ member[p].row \in Nat
    BY <1>1, <2>5 DEF T!BeginChange, TeamTypes
  <2>6. ASSUME NEW g \in Grants, T!BeginRevoke(h, g)
        PROVE  /\ clerk[h].step = "idle"
               /\ clerk' = [clerk EXCEPT ![h] = [step |-> "recalling", id |-> g,
                                                 role |-> "none", row |-> 0]]
               /\ crossing \subseteq crossing'
               /\ grant[g] = "live"
               /\ \A z \in Handlers \ {h} :
                    clerk[z].step = "recalling" /\ clerk[z].id = g => g \in crossing'
    BY <2>6 DEF T!BeginRevoke
  <2>7. CASE \E i \in Invitations : T!BeginAccept(h, i)
    <3>1. PICK i \in Invitations : T!BeginAccept(h, i)
      BY <2>7
    <3> QED BY <2>1, <2>4, <3>1
  <2>8. CASE \E p \in People : \E role \in T!Roles : T!BeginChange(h, p, role)
    <3>1. PICK p \in People, role \in T!Roles : T!BeginChange(h, p, role)
      BY <2>8
    <3> QED BY <2>1, <2>5, <3>1
  <2>9. CASE \E g \in Grants : T!BeginRevoke(h, g)
    <3>1. PICK g \in Grants : T!BeginRevoke(h, g)
      BY <2>9
    <3> QED BY <2>1, <2>6, <3>1
  <2> QED BY <2>2, <2>3, <2>7, <2>8, <2>9
<1>4. /\ clerk'[h].step = step /\ clerk'[h].id = id /\ clerk'[h].role = role /\ clerk'[h].row = row
      /\ \A z \in Handlers \ {h} : clerk'[z] = clerk[z]
      /\ clerk' \in [Handlers -> ClerkRecords]
  BY <1>1, <1>3 DEF TeamTypes, ClerkRecords
<1>5. TeamTypes'
  BY <1>1, <1>2, <1>4 DEF TeamTypes
<1>6. ClerksSound'
  BY <1>1, <1>2, <1>3, <1>4 DEF ClerksSound, TeamTypes
<1>7. FoundedOnce'
  <2>1. founded = 0 => ~locked
    BY <1>1 DEF FoundedOnce
  <2>2. step = "founding" => founded = 0
    BY <1>1, <1>3 DEF FoundedOnce, TeamTypes
  <2> QED BY <1>1, <1>2, <1>3, <1>4, <2>2 DEF FoundedOnce
<1>8. CrownsKept'
  <2>1. \A z \in Handlers : clerk'[z].step = "committing" =>
            z # h /\ clerk'[z] = clerk[z] /\ (T!Dethrones(z)' <=> T!Dethrones(z))
    BY <1>2, <1>3, <1>4 DEF T!Dethrones, T!RowKept, T!Owns
  <2> QED BY <1>1, <1>2, <1>3, <2>1 DEF CrownsKept
<1>9. AdmittedOnce'
  BY <1>1, <1>2, <1>3, <1>4 DEF AdmittedOnce
<1>10. RecalledOnce'
  BY <1>1, <1>2, <1>3, <1>4 DEF RecalledOnce
<1> QED BY <1>5, <1>6, <1>7, <1>8, <1>9, <1>10 DEF TeamsInv

\* What others do to rows that no request writes twice.
LEMMA TeamRowsKeep ==
    ASSUME TeamsInv,
           \/ \E p \in People : T!Register(p)
           \/ \E i \in Invitations : T!RevokeInvitation(i)
           \/ \E i \in Invitations : \E p \in People : \E role \in T!Roles \ {"none"} :
                T!CreateInvitation(i, p, role)
           \/ \E g \in Grants : T!CreateAccessGrant(g)
    PROVE  TeamsInv'
<1>1. TeamTypes /\ ClerksSound /\ FoundedOnce /\ CrownsKept /\ AdmittedOnce /\ RecalledOnce
  BY DEF TeamsInv
<1>2. ASSUME NEW p \in People, T!Register(p)
      PROVE  TeamsInv'
  <2>1. /\ locked /\ account' = account \cup {p}
        /\ UNCHANGED <<locked, platform, member, invitation, grant, clerk,
                       founded, joined, recalled, crossing>>
    BY <1>2 DEF T!Register
  <2>2. CrownsKept'
    BY <1>1, <2>1 DEF CrownsKept, T!Dethrones, T!RowKept, T!Owns
  <2>3. FoundedOnce'
    BY <1>1, <2>1 DEF FoundedOnce
  <2>4. TeamTypes'
    BY <1>1, <2>1 DEF TeamTypes
  <2>5. ClerksSound' /\ AdmittedOnce' /\ RecalledOnce'
    BY <1>1, <2>1 DEF ClerksSound, AdmittedOnce, RecalledOnce
  <2> QED BY <2>2, <2>3, <2>4, <2>5 DEF TeamsInv
<1>3. ASSUME NEW i \in Invitations, T!RevokeInvitation(i)
      PROVE  TeamsInv'
  <2>1. PICK r : r = [invitation[i] EXCEPT !.status = "gone"]
    OBVIOUS
  <2>2. /\ invitation[i].status \in {"open", "accepted"}
        /\ invitation' = [invitation EXCEPT ![i] = r]
        /\ crossing \subseteq crossing'
        /\ \A z \in Handlers : clerk[z].step = "accepting" /\ clerk[z].id = i => i \in crossing'
        /\ UNCHANGED <<locked, account, platform, member, grant, clerk,
                       founded, joined, recalled>>
    BY <1>3, <2>1 DEF T!RevokeInvitation, T!Crosses, T!At
  <2>3. /\ r.status = "gone" /\ r.person = invitation[i].person
        /\ r \in [status : {"absent", "open", "accepted", "gone"},
                  person : People \cup {Nobody}, role : T!Roles]
    BY <1>1, <2>1 DEF TeamTypes
  <2>4. invitation'[i] = r /\ \A k \in Invitations \ {i} : invitation'[k] = invitation[k]
    BY <1>1, <2>2 DEF TeamTypes
  <2>5. TeamTypes'
    BY <1>1, <2>2, <2>3 DEF TeamTypes
  <2>6. CrownsKept'
    BY <1>1, <2>2 DEF CrownsKept, T!Dethrones, T!RowKept, T!Owns
  <2>7. FoundedOnce'
    BY <1>1, <2>2, <2>3, <2>4 DEF FoundedOnce
  <2>8. ClerksSound' /\ RecalledOnce'
    BY <1>1, <2>2, <2>3, <2>4 DEF ClerksSound, RecalledOnce
  <2>9. AdmittedOnce'
    BY <1>1, <2>2, <2>3, <2>4 DEF AdmittedOnce, TeamTypes
  <2> QED BY <2>5, <2>6, <2>7, <2>8, <2>9 DEF TeamsInv
<1>4. ASSUME NEW i \in Invitations, NEW p \in People, NEW role \in T!Roles \ {"none"},
             T!CreateInvitation(i, p, role)
      PROVE  TeamsInv'
  <2>1. PICK r : r = [status |-> "open", person |-> p, role |-> role]
    OBVIOUS
  <2>2. /\ invitation[i].status = "absent" /\ founded > 0
        /\ invitation' = [invitation EXCEPT ![i] = r]
        /\ UNCHANGED <<locked, account, platform, member, grant, clerk,
                       founded, joined, recalled, crossing>>
    BY <1>4, <2>1 DEF T!CreateInvitation
  <2>3. /\ r.status = "open" /\ r.person = p
        /\ r \in [status : {"absent", "open", "accepted", "gone"},
                  person : People \cup {Nobody}, role : T!Roles]
    BY <2>1
  <2>4. invitation'[i] = r /\ \A k \in Invitations \ {i} : invitation'[k] = invitation[k]
    BY <1>1, <2>2 DEF TeamTypes
  <2>5. TeamTypes'
    BY <1>1, <2>2, <2>3 DEF TeamTypes
  <2>6. CrownsKept'
    BY <1>1, <2>2 DEF CrownsKept, T!Dethrones, T!RowKept, T!Owns
  <2>7. FoundedOnce'
    BY <1>1, <2>2 DEF FoundedOnce
  <2>8. ClerksSound' /\ RecalledOnce'
    BY <1>1, <2>2, <2>3, <2>4 DEF ClerksSound, RecalledOnce
  <2>9. AdmittedOnce'
    <3>1. joined[i] = 0 /\ \A z \in Handlers : clerk[z].step = "accepting" => clerk[z].id # i
      BY <1>1, <2>2 DEF AdmittedOnce, ClerksSound, TeamTypes
    <3> QED BY <1>1, <2>2, <2>3, <2>4, <3>1 DEF AdmittedOnce
  <2> QED BY <2>5, <2>6, <2>7, <2>8, <2>9 DEF TeamsInv
<1>5. ASSUME NEW g \in Grants, T!CreateAccessGrant(g)
      PROVE  TeamsInv'
  <2>1. /\ grant[g] = "absent" /\ grant' = [grant EXCEPT ![g] = "live"]
        /\ UNCHANGED <<locked, account, platform, member, invitation, clerk,
                       founded, joined, recalled, crossing>>
    BY <1>5 DEF T!CreateAccessGrant
  <2>2. TeamTypes'
    BY <1>1, <2>1 DEF TeamTypes
  <2>3. CrownsKept'
    BY <1>1, <2>1 DEF CrownsKept, T!Dethrones, T!RowKept, T!Owns
  <2>4. FoundedOnce' /\ ClerksSound' /\ AdmittedOnce'
    BY <1>1, <2>1 DEF FoundedOnce, ClerksSound, AdmittedOnce
  <2>5. RecalledOnce'
    BY <1>1, <2>1 DEF RecalledOnce, TeamTypes
  <2> QED BY <2>2, <2>3, <2>4, <2>5 DEF TeamsInv
<1> QED BY <1>2, <1>3, <1>4, <1>5

\* A request that ends is idle; the others are where they were.
LEMMA ClerkEnds ==
    ASSUME TeamsInv, NEW h \in Handlers, T!Ends(h)
    PROVE  /\ clerk'[h].step = "idle" /\ clerk' \in [Handlers -> ClerkRecords]
           /\ \A z \in Handlers \ {h} : clerk'[z] = clerk[z]
BY DEF TeamsInv, TeamTypes, ClerkRecords, T!Ends, T!NoClerk, T!Roles

\* The first bootstrap founds the team; another one was crossed by it.
LEMMA BootstrapKeeps ==
    ASSUME TeamsInv, NEW h \in Handlers, NEW p \in People, T!Bootstrap(h, p)
    PROVE  TeamsInv'
<1>1. TeamTypes /\ ClerksSound /\ FoundedOnce /\ CrownsKept /\ AdmittedOnce /\ RecalledOnce
  BY DEF TeamsInv
<1>2. /\ clerk[h].step = "founding" /\ locked' = TRUE
      /\ account' = account \cup {p} /\ platform' = platform \cup {p}
      /\ founded' = founded + 1 /\ founded \in Nat
      /\ UNCHANGED <<invitation, grant, joined, recalled, crossing>>
  BY <1>1 DEF T!Bootstrap, T!At, TeamTypes
<1>3. /\ clerk'[h].step = "idle" /\ clerk' \in [Handlers -> ClerkRecords]
      /\ \A z \in Handlers \ {h} : clerk'[z] = clerk[z]
  BY ClerkEnds DEF T!Bootstrap
<1>4. member[p].row \in Nat
  BY <1>1 DEF TeamTypes
<1>5. /\ \A q \in People \ {p} : member'[q] = member[q]
      /\ founded = 0 => member'[p].role = "owner" /\ member'[p].row = member[p].row + 1
      /\ founded # 0 => member' = member
      /\ member' \in [People -> [role : T!Roles, row : Nat]]
  <2>1. [role |-> "owner", row |-> member[p].row + 1] \in [role : T!Roles, row : Nat]
    BY <1>4 DEF T!Roles
  <2>2. member' = IF founded = 0
                  THEN [member EXCEPT ![p] = [role |-> "owner", row |-> member[p].row + 1]]
                  ELSE member
    BY DEF T!Bootstrap, T!Joined
  <2> QED BY <1>1, <2>1, <2>2 DEF TeamTypes
<1>6. TeamTypes'
  BY <1>1, <1>2, <1>3, <1>5 DEF TeamTypes
<1>7. ClerksSound'
  <2>1. \A z \in Handlers : clerk[z].row \in Nat
    BY <1>1 DEF TeamTypes, ClerkRecords
  <2>2. \A q \in People : member[q].row \in Nat /\ member'[q].row \in Nat
                          /\ member[q].row <= member'[q].row
    <3>1. \A q \in People : member[q].row \in Nat
      BY <1>1 DEF TeamTypes
    <3> QED BY <1>5, <3>1
  <2>3. ASSUME NEW z \in Handlers, z # h, clerk[z].step \in {"changing", "committing"}
        PROVE  clerk[z].id \in People /\ clerk[z].row <= member'[clerk[z].id].row
    <3>1. clerk[z].id \in People /\ clerk[z].row <= member[clerk[z].id].row
      BY <1>1, <2>3 DEF ClerksSound
    <3> QED BY <2>1, <2>2, <3>1
  <2> QED BY <1>1, <1>2, <1>3, <2>3 DEF ClerksSound
<1>8. FoundedOnce'
  BY <1>1, <1>2, <1>3 DEF FoundedOnce
<1>9. CrownsKept'
  <2>1. CASE founded = 0
    <3>1. ASSUME NEW z \in Handlers, clerk'[z].step = "committing", T!Dethrones(z)'
          PROVE  FALSE
      <4>1. z # h /\ clerk'[z] = clerk[z]
        BY <1>3, <3>1
      <4>2. PICK q \in People : q = clerk[z].id /\ clerk[z].row <= member[q].row
        BY <1>1, <3>1, <4>1 DEF ClerksSound
      <4>3. member'[q].role = "owner" /\ member'[q].row = clerk[z].row
        BY <3>1, <4>1, <4>2 DEF T!Dethrones, T!RowKept, T!Owns
      <4>4. q # p
        <5>1. clerk[z].row \in Nat
          BY <1>1 DEF TeamTypes, ClerkRecords
        <5> QED BY <1>4, <1>5, <2>1, <4>2, <4>3, <5>1
      <4>5. member[q].role = "none"
        BY <1>1, <2>1 DEF FoundedOnce
      <4> QED BY <1>5, <4>3, <4>4, <4>5
    <3>2. member'[p].role = "owner"
      BY <1>5, <2>1
    <3> QED BY <1>1, <1>3, <3>1, <3>2 DEF CrownsKept
  <2>2. CASE founded # 0
    <3>1. \A z \in Handlers : clerk'[z].step = "committing" =>
            z # h /\ clerk'[z] = clerk[z] /\ (T!Dethrones(z)' <=> T!Dethrones(z))
      BY <1>3, <1>5, <2>2 DEF T!Dethrones, T!RowKept, T!Owns
    <3> QED BY <1>1, <1>2, <1>5, <2>2, <3>1 DEF CrownsKept
  <2> QED BY <2>1, <2>2
<1>10. AdmittedOnce'
  BY <1>1, <1>2, <1>3, <1>5 DEF AdmittedOnce
<1>11. RecalledOnce'
  BY <1>1, <1>2, <1>3 DEF RecalledOnce
<1> QED BY <1>6, <1>7, <1>8, <1>9, <1>10, <1>11 DEF TeamsInv

\* Whoever accepts is no member before; a row that another request has read of
\* that person is gone.
LEMMA AcceptKeeps ==
    ASSUME TeamsInv, NEW h \in Handlers, T!AcceptInvitation(h)
    PROVE  TeamsInv'
<1>1. TeamTypes /\ ClerksSound /\ FoundedOnce /\ CrownsKept /\ AdmittedOnce /\ RecalledOnce
  BY DEF TeamsInv
<1>2. PICK i \in Invitations, p \in People :
        /\ i = clerk[h].id /\ p = invitation[i].person
        /\ invitation[i].status # "absent" /\ clerk[h].step = "accepting"
  BY <1>1 DEF T!AcceptInvitation, T!At, ClerksSound, AdmittedOnce
<1>3. PICK r, m : /\ r = [invitation[i] EXCEPT !.status = "accepted"]
                  /\ m = [role |-> clerk[h].role, row |-> member[p].row + 1]
  OBVIOUS
<1>4. /\ member[p].role = "none" /\ member' = [member EXCEPT ![p] = m]
      /\ invitation' = (IF invitation[i].status = "gone" THEN invitation
                        ELSE [invitation EXCEPT ![i] = r])
      /\ joined' = [joined EXCEPT ![i] = joined[i] + 1]
      /\ UNCHANGED <<locked, account, platform, grant, founded, recalled, crossing>>
  BY <1>2, <1>3 DEF T!AcceptInvitation, T!Joined
<1>5. /\ clerk'[h].step = "idle" /\ clerk' \in [Handlers -> ClerkRecords]
      /\ \A z \in Handlers \ {h} : clerk'[z] = clerk[z]
  BY ClerkEnds DEF T!AcceptInvitation
<1>6. /\ r \in [status : {"absent", "open", "accepted", "gone"},
                person : People \cup {Nobody}, role : T!Roles]
      /\ r.status = "accepted" /\ r.person = p
  BY <1>1, <1>2, <1>3 DEF TeamTypes
<1>7. member[p].row \in Nat /\ clerk[h].role \in T!Roles /\ joined[i] \in Nat
  BY <1>1 DEF TeamTypes, ClerkRecords
<1>8. /\ member' \in [People -> [role : T!Roles, row : Nat]]
      /\ member'[p].row = member[p].row + 1
      /\ \A q \in People \ {p} : member'[q] = member[q]
  BY <1>1, <1>3, <1>4, <1>7 DEF TeamTypes
<1>9. /\ \A k \in Invitations \ {i} : invitation'[k] = invitation[k] /\ joined'[k] = joined[k]
      /\ joined'[i] = joined[i] + 1
      /\ invitation'[i].person = p
      /\ invitation'[i].status = (IF invitation[i].status = "gone" THEN "gone" ELSE "accepted")
  BY <1>1, <1>2, <1>4, <1>6 DEF TeamTypes
<1>10. TeamTypes'
  BY <1>1, <1>4, <1>5, <1>6, <1>7, <1>8 DEF TeamTypes
<1>11. ClerksSound'
  <2>1. \A z \in Handlers : clerk[z].row \in Nat
    BY <1>1 DEF TeamTypes, ClerkRecords
  <2>2. \A q \in People : member[q].row \in Nat /\ member'[q].row \in Nat
                          /\ member[q].row <= member'[q].row
    <3>1. \A q \in People : member[q].row \in Nat
      BY <1>1 DEF TeamTypes
    <3> QED BY <1>8, <3>1
  <2>3. ASSUME NEW z \in Handlers, z # h, clerk[z].step \in {"changing", "committing"}
        PROVE  clerk[z].id \in People /\ clerk[z].row <= member'[clerk[z].id].row
    <3>1. clerk[z].id \in People /\ clerk[z].row <= member[clerk[z].id].row
      BY <1>1, <2>3 DEF ClerksSound
    <3> QED BY <2>1, <2>2, <3>1
  <2>4. \A k \in Invitations : invitation[k].status # "absent" => invitation'[k].status # "absent"
    BY <1>9
  <2> QED BY <1>1, <1>5, <2>3, <2>4 DEF ClerksSound
<1>12. founded > 0
  BY <1>1, <1>2 DEF FoundedOnce, TeamTypes
<1>13. FoundedOnce'
  BY <1>1, <1>4, <1>5, <1>12 DEF FoundedOnce
<1>14. CrownsKept'
  <2>1. ASSUME NEW z \in Handlers, clerk'[z].step = "committing", T!Dethrones(z)'
        PROVE  z # h /\ clerk'[z] = clerk[z] /\ T!Dethrones(z)
    <3>1. z # h /\ clerk'[z] = clerk[z]
      BY <1>5, <2>1
    <3>2. PICK q \in People : q = clerk[z].id /\ clerk[z].row <= member[q].row
      BY <1>1, <2>1, <3>1 DEF ClerksSound
    <3>3. member'[q].row = clerk[z].row
      BY <2>1, <3>1, <3>2 DEF T!Dethrones, T!RowKept
    <3>4. q # p
      <4>1. clerk[z].row \in Nat
        BY <1>1 DEF TeamTypes, ClerkRecords
      <4> QED BY <1>7, <1>8, <3>2, <3>3, <4>1
    <3>5. member'[q] = member[q]
      BY <1>8, <3>4
    <3>6. T!Dethrones(z)
      BY <2>1, <3>1, <3>2, <3>5 DEF T!Dethrones, T!RowKept, T!Owns
    <3> QED BY <3>1, <3>6
  <2>2. \A q \in People : member[q].role = "owner" => member'[q].role = "owner"
    BY <1>4, <1>8
  <2>3. \A z \in Handlers : clerk'[z].step = "committing" => z # h /\ clerk'[z] = clerk[z]
    BY <1>5
  <2>4. \A y, z \in Handlers :
            clerk'[y].step = "committing" /\ clerk'[z].step = "committing"
            /\ clerk'[y].id = clerk'[z].id => y = z
    BY <1>1, <2>3 DEF CrownsKept
  <2>5. ASSUME founded > 0, "owners" \notin crossing
        PROVE  /\ \E q \in People : member'[q].role = "owner"
               /\ \A y \in Handlers : clerk'[y].step = "committing" /\ T!Dethrones(y)' =>
                    /\ \E q \in People : q # clerk'[y].id /\ member'[q].role = "owner"
                    /\ \A z \in Handlers : clerk'[z].step = "committing" /\ T!Dethrones(z)' => z = y
    BY <1>1, <2>1, <2>2, <2>5 DEF CrownsKept
  <2> QED BY <1>4, <2>4, <2>5 DEF CrownsKept
<1>15. AdmittedOnce'
  <2>1. \A k \in Invitations :
            /\ invitation'[k].status # "absent" => invitation'[k].person \in People
            /\ joined'[k] > 0 => invitation'[k].status # "absent"
    BY <1>1, <1>2, <1>9 DEF AdmittedOnce
  <2>2. i \notin crossing => /\ invitation[i].status = "open" /\ joined[i] = 0
                             /\ \A z \in Handlers \ {h} :
                                    ~(clerk[z].step = "accepting" /\ clerk[z].id = i)
    BY <1>1, <1>2 DEF AdmittedOnce
  <2>3. ASSUME NEW k \in Invitations \ crossing
        PROVE  /\ \A y, z \in Handlers :
                    /\ clerk'[y].step = "accepting" /\ clerk'[y].id = k
                    /\ clerk'[z].step = "accepting" /\ clerk'[z].id = k
                    => y = z /\ invitation'[k].status = "open"
               /\ invitation'[k].status = "open" => joined'[k] = 0
               /\ invitation'[k].status = "accepted" => joined'[k] = 1
               /\ joined'[k] <= 1
    <3>1. CASE k = i
      BY <1>5, <1>9, <2>2, <3>1
    <3>2. CASE k # i
      BY <1>1, <1>5, <1>9, <3>2 DEF AdmittedOnce
    <3> QED BY <3>1, <3>2
  <2>4. ASSUME NEW q \in People \ platform, member'[q].role # "none"
        PROVE  \E k \in Invitations : joined'[k] > 0 /\ invitation'[k].person = q
    <3>1. CASE q = p
      BY <1>7, <1>9, <3>1
    <3>2. CASE q # p
      <4>1. PICK k \in Invitations : joined[k] > 0 /\ invitation[k].person = q
        BY <1>1, <1>8, <2>4, <3>2 DEF AdmittedOnce
      <4> QED BY <1>2, <1>9, <3>2, <4>1
    <3> QED BY <3>1, <3>2
  <2> QED BY <1>4, <2>1, <2>3, <2>4 DEF AdmittedOnce
<1>16. RecalledOnce'
  BY <1>1, <1>4, <1>5 DEF RecalledOnce
<1> QED BY <1>10, <1>11, <1>13, <1>14, <1>15, <1>16 DEF TeamsInv

\* The trigger leaves another owner at the time of the UPDATE.
LEMMA WriteKeeps ==
    ASSUME TeamsInv, NEW h \in Handlers, T!WriteChange(h)
    PROVE  TeamsInv'
<1>1. TeamTypes /\ ClerksSound /\ FoundedOnce /\ CrownsKept /\ AdmittedOnce /\ RecalledOnce
  BY DEF TeamsInv
<1>2. /\ clerk[h].step = "changing"
      /\ \A z \in Handlers \ {h} : clerk[z].step = "committing" => clerk[z].id # clerk[h].id
      /\ T!Dethrones(h) => T!Cardinality(T!Owners) > 1
      /\ clerk' = [clerk EXCEPT ![h].step = "committing"]
      /\ crossing \subseteq crossing'
      /\ T!Dethrones(h) => \A z \in Handlers \ {h} :
            clerk[z].step = "committing" /\ T!Dethrones(z) => "owners" \in crossing'
      /\ UNCHANGED <<locked, account, platform, member, invitation, grant,
                     founded, joined, recalled>>
  BY DEF T!WriteChange, T!At, T!Others, T!protect_last_team_owner, T!Crosses
<1>3. PICK r : r = [clerk[h] EXCEPT !.step = "committing"]
  OBVIOUS
<1>4. /\ r \in ClerkRecords /\ r.step = "committing" /\ r.id = clerk[h].id
      /\ r.role = clerk[h].role /\ r.row = clerk[h].row
  BY <1>1, <1>3 DEF TeamTypes, ClerkRecords
<1>5. /\ clerk'[h] = r /\ \A z \in Handlers \ {h} : clerk'[z] = clerk[z]
      /\ clerk' \in [Handlers -> ClerkRecords]
  BY <1>1, <1>2, <1>3, <1>4 DEF TeamTypes
<1>6. TeamTypes'
  BY <1>1, <1>2, <1>5 DEF TeamTypes
<1>7. ClerksSound'
  BY <1>1, <1>2, <1>4, <1>5 DEF ClerksSound
<1>8. FoundedOnce'
  BY <1>1, <1>2, <1>4, <1>5 DEF FoundedOnce
<1>9. CrownsKept'
  <2>1. \A z \in Handlers : T!Dethrones(z)' <=> T!Dethrones(z)
    BY <1>2, <1>4, <1>5 DEF T!Dethrones, T!RowKept, T!Owns
  <2>2. T!Dethrones(h) => \E p \in People : p # clerk[h].id /\ member[p].role = "owner"
    <3>1. SUFFICES ASSUME T!Dethrones(h),
                          \A p \in People : member[p].role = "owner" => p = clerk[h].id
                   PROVE  FALSE
      OBVIOUS
    <3>2. T!Owners = {clerk[h].id}
      BY <1>1, <1>2, <3>1 DEF T!Owners, T!Owns, T!Dethrones, ClerksSound
    <3>3. Cardinality(T!Owners) = 1
      BY <3>2, FS_Singleton
    <3>4. T!Cardinality(T!Owners) = Cardinality(T!Owners)
      BY DEF T!Cardinality, Cardinality
    <3> QED BY <1>2, <3>1, <3>3, <3>4
  <2>3. \A z \in Handlers : clerk'[z].step = "committing" =>
            clerk'[z].id = clerk[z].id /\ (z = h \/ clerk[z].step = "committing")
    BY <1>4, <1>5
  <2>4. \A y, z \in Handlers :
            clerk'[y].step = "committing" /\ clerk'[z].step = "committing"
            /\ clerk'[y].id = clerk'[z].id => y = z
    BY <1>1, <1>2, <2>3 DEF CrownsKept
  <2>5. ASSUME founded > 0, "owners" \notin crossing'
        PROVE  /\ \E q \in People : member[q].role = "owner"
               /\ \A y \in Handlers : clerk'[y].step = "committing" /\ T!Dethrones(y) =>
                    /\ \E q \in People : q # clerk'[y].id /\ member[q].role = "owner"
                    /\ \A z \in Handlers : clerk'[z].step = "committing" /\ T!Dethrones(z) => z = y
    <3>1. "owners" \notin crossing
      BY <1>2, <2>5
    <3> QED BY <1>1, <1>2, <2>2, <2>3, <2>5, <3>1 DEF CrownsKept
  <2> QED BY <1>2, <2>1, <2>4, <2>5 DEF CrownsKept
<1>10. AdmittedOnce'
  BY <1>1, <1>2, <1>4, <1>5 DEF AdmittedOnce
<1>11. RecalledOnce'
  BY <1>1, <1>2, <1>4, <1>5 DEF RecalledOnce
<1> QED BY <1>6, <1>7, <1>8, <1>9, <1>10, <1>11 DEF TeamsInv

\* A change that commits was let through by the trigger, and nobody else has
\* taken a crown since.
LEMMA CommitKeeps ==
    ASSUME TeamsInv, NEW h \in Handlers, T!CommitChange(h)
    PROVE  TeamsInv'
<1>1. TeamTypes /\ ClerksSound /\ FoundedOnce /\ CrownsKept /\ AdmittedOnce /\ RecalledOnce
  BY DEF TeamsInv
<1>2. PICK p \in People, role \in T!Roles :
        p = clerk[h].id /\ role = clerk[h].role /\ clerk[h].step = "committing"
  BY <1>1 DEF T!CommitChange, T!At, ClerksSound, TeamTypes, ClerkRecords
<1>3. PICK m : m = [member[p] EXCEPT !.role = role]
  OBVIOUS
<1>4. /\ member' = (IF T!RowKept(h) THEN [member EXCEPT ![p] = m] ELSE member)
      /\ UNCHANGED <<locked, account, platform, invitation, grant,
                     founded, joined, recalled, crossing>>
  BY <1>2, <1>3 DEF T!CommitChange
<1>5. /\ clerk'[h].step = "idle" /\ clerk' \in [Handlers -> ClerkRecords]
      /\ \A z \in Handlers \ {h} : clerk'[z] = clerk[z]
  BY ClerkEnds DEF T!CommitChange
<1>6. /\ member' \in [People -> [role : T!Roles, row : Nat]]
      /\ \A q \in People : member'[q].row = member[q].row
      /\ \A q \in People \ {p} : member'[q] = member[q]
      /\ member'[p].role = IF T!RowKept(h) THEN role ELSE member[p].role
  BY <1>1, <1>3, <1>4 DEF TeamTypes
<1>7. \A q \in People : member'[q].role # "none" => member[q].role # "none"
  BY <1>2, <1>6 DEF T!RowKept
<1>8. TeamTypes'
  BY <1>1, <1>4, <1>5, <1>6 DEF TeamTypes
<1>9. ClerksSound'
  BY <1>1, <1>4, <1>5, <1>6 DEF ClerksSound
<1>10. FoundedOnce'
  BY <1>1, <1>4, <1>5, <1>7 DEF FoundedOnce
<1>11. CrownsKept'
  <2>1. ASSUME NEW z \in Handlers, clerk'[z].step = "committing"
        PROVE  /\ z # h /\ clerk'[z] = clerk[z] /\ clerk[z].id # p /\ clerk[z].id \in People
               /\ T!Dethrones(z)' <=> T!Dethrones(z)
    <3>1. z # h /\ clerk'[z] = clerk[z]
      BY <1>5, <2>1
    <3>2. clerk[z].id # p /\ clerk[z].id \in People
      BY <1>1, <1>2, <2>1, <3>1 DEF CrownsKept, ClerksSound
    <3>3. member'[clerk[z].id] = member[clerk[z].id]
      BY <1>6, <3>2
    <3>4. T!Dethrones(z)' <=> T!Dethrones(z)
      BY <3>1, <3>3 DEF T!Dethrones, T!RowKept, T!Owns
    <3> QED BY <3>1, <3>2, <3>4
  <2>2. \A y, z \in Handlers :
            clerk'[y].step = "committing" /\ clerk'[z].step = "committing"
            /\ clerk'[y].id = clerk'[z].id => y = z
    BY <1>1, <2>1 DEF CrownsKept
  <2>3. ASSUME founded > 0, "owners" \notin crossing
        PROVE  /\ \E q \in People : member'[q].role = "owner"
               /\ \A y \in Handlers : clerk'[y].step = "committing" /\ T!Dethrones(y) =>
                    /\ \E q \in People : q # clerk'[y].id /\ member'[q].role = "owner"
                    /\ \A z \in Handlers : clerk'[z].step = "committing" /\ T!Dethrones(z) => z = y
    <3>1. /\ \E q \in People : member[q].role = "owner"
          /\ \A y \in Handlers : clerk[y].step = "committing" /\ T!Dethrones(y) =>
                /\ \E q \in People : q # clerk[y].id /\ member[q].role = "owner"
                /\ \A z \in Handlers : clerk[z].step = "committing" /\ T!Dethrones(z) => z = y
      BY <1>1, <2>3 DEF CrownsKept
    <3>2. CASE T!Dethrones(h)
      <4>1. PICK q \in People : q # p /\ member[q].role = "owner"
        BY <1>2, <3>1, <3>2
      <4>2. member'[q].role = "owner"
        BY <1>6, <4>1
      <4>3. \A y \in Handlers : clerk'[y].step = "committing" => ~T!Dethrones(y)
        BY <1>2, <2>1, <3>1, <3>2
      <4> QED BY <4>2, <4>3
    <3>3. CASE ~T!Dethrones(h)
      <4>1. \A q \in People : member[q].role = "owner" => member'[q].role = "owner"
        BY <1>2, <1>6, <3>3 DEF T!Dethrones, T!Owns
      <4> QED BY <2>1, <3>1, <4>1
    <3> QED BY <3>2, <3>3
  <2> QED BY <1>4, <2>1, <2>2, <2>3 DEF CrownsKept
<1>12. AdmittedOnce'
  BY <1>1, <1>4, <1>5, <1>7 DEF AdmittedOnce
<1>13. RecalledOnce'
  BY <1>1, <1>4, <1>5 DEF RecalledOnce
<1> QED BY <1>8, <1>9, <1>10, <1>11, <1>12, <1>13 DEF TeamsInv

\* RevokeAccessGrant's transaction keeps the invariant of Teams.
LEMMA RecallKeeps ==
    ASSUME TeamsInv, NEW h \in Handlers, T!RevokeAccessGrant(h)
    PROVE  TeamsInv'
<1>1. TeamTypes /\ ClerksSound /\ FoundedOnce /\ CrownsKept /\ AdmittedOnce /\ RecalledOnce
  BY DEF TeamsInv
<1>2. PICK g \in Grants : g = clerk[h].id /\ clerk[h].step = "recalling"
  BY <1>1 DEF T!RevokeAccessGrant, T!At, ClerksSound
<1>3. /\ grant' = [grant EXCEPT ![g] = "revoked"]
      /\ recalled' = [recalled EXCEPT ![g] = recalled[g] + 1]
      /\ UNCHANGED <<locked, account, platform, member, invitation, founded, joined, crossing>>
  BY <1>2 DEF T!RevokeAccessGrant
<1>4. /\ clerk'[h].step = "idle" /\ clerk' \in [Handlers -> ClerkRecords]
      /\ \A z \in Handlers \ {h} : clerk'[z] = clerk[z]
  BY ClerkEnds DEF T!RevokeAccessGrant
<1>5. TeamTypes'
  BY <1>1, <1>3, <1>4 DEF TeamTypes
<1>6. ClerksSound' /\ FoundedOnce' /\ AdmittedOnce'
  BY <1>1, <1>3, <1>4 DEF ClerksSound, FoundedOnce, AdmittedOnce
<1>7. CrownsKept'
  <2>1. \A z \in Handlers : clerk'[z].step = "committing" =>
            z # h /\ clerk'[z] = clerk[z] /\ (T!Dethrones(z)' <=> T!Dethrones(z))
    BY <1>3, <1>4 DEF T!Dethrones, T!RowKept, T!Owns
  <2> QED BY <1>1, <1>3, <2>1 DEF CrownsKept
<1>8. RecalledOnce'
  <2>1. ASSUME g \notin crossing
        PROVE  /\ grant[g] = "live" /\ recalled[g] = 0
               /\ \A z \in Handlers \ {h} : ~(clerk[z].step = "recalling" /\ clerk[z].id = g)
    BY <1>1, <1>2, <2>1 DEF RecalledOnce
  <2> QED BY <1>1, <1>3, <1>4, <2>1 DEF RecalledOnce, TeamTypes
<1> QED BY <1>5, <1>6, <1>7, <1>8 DEF TeamsInv

\* The invariant of Teams holds in every behaviour of Workspace.
LEMMA TeamsInvariant == Spec => []TeamsInv
<1>1. Init => TeamsInv
  <2> SUFFICES ASSUME Init
               PROVE  TeamsInv
    OBVIOUS
  <2>1. T!TInit
    BY DEF Init
  <2>2. /\ \A h \in Handlers : clerk[h].step = "idle"
        /\ clerk \in [Handlers -> ClerkRecords]
    BY <2>1 DEF T!TInit, T!NoClerk, T!Roles, ClerkRecords
  <2>3. TeamTypes
    BY <2>1, <2>2 DEF T!TInit, T!Roles, TeamTypes
  <2>4. ClerksSound /\ RecalledOnce
    BY <2>1, <2>2 DEF T!TInit, ClerksSound, RecalledOnce
  <2>5. FoundedOnce
    BY <2>1, <2>2 DEF T!TInit, FoundedOnce
  <2>6. CrownsKept
    BY <2>1, <2>2 DEF T!TInit, CrownsKept
  <2>7. AdmittedOnce
    BY <2>1, <2>2 DEF T!TInit, AdmittedOnce
  <2> QED BY <2>3, <2>4, <2>5, <2>6, <2>7 DEF TeamsInv
<1>2. TeamsInv /\ [Next]_vars => TeamsInv'
  <2> SUFFICES ASSUME TeamsInv, [Next]_vars
               PROVE  TeamsInv'
    OBVIOUS
  <2>1. CASE UNCHANGED teams
    BY <2>1 DEF TeamsInv, TeamTypes, ClerkRecords, ClerksSound, FoundedOnce, CrownsKept,
                AdmittedOnce, RecalledOnce, T!Dethrones, T!RowKept, T!Owns, teams
  <2>2. CASE \/ \E p \in People : T!Register(p)
             \/ \E i \in Invitations :
                \/ T!RevokeInvitation(i)
                \/ \E p \in People : \E role \in T!Roles \ {"none"} : T!CreateInvitation(i, p, role)
             \/ \E g \in Grants : T!CreateAccessGrant(g)
    BY <2>2, TeamRowsKeep
  <2>3. ASSUME NEW h \in Handlers,
               \/ \E p \in People : T!Bootstrap(h, p)
               \/ T!AcceptInvitation(h) \/ T!WriteChange(h) \/ T!CommitChange(h)
               \/ T!RevokeAccessGrant(h)
        PROVE  TeamsInv'
    BY <2>3, BootstrapKeeps, AcceptKeeps, WriteKeeps, CommitKeeps, RecallKeeps
  <2>4. ASSUME NEW h \in Handlers,
               \/ T!BeginBootstrap(h) \/ T!Refuse(h)
               \/ \E i \in Invitations : T!BeginAccept(h, i)
               \/ \E p \in People :
                    T!RemoveMember(h, p) \/ \E role \in T!Roles : T!UpdateMemberRole(h, p, role)
               \/ \E g \in Grants : T!BeginRevoke(h, g)
        PROVE  TeamsInv'
    <3>1. "none" \in T!Roles
      BY DEF T!Roles
    <3> QED BY <2>4, <3>1, ClerkMoves DEF T!RemoveMember, T!UpdateMemberRole
  <2> QED BY <2>1, <2>2, <2>3, <2>4, OneAtATime DEF T!TNext
<1> QED BY <1>1, <1>2, PTL DEF Spec

\* The platform is bootstrapped once; the team keeps an owner; an invitation
\* admits once, and only invitations and the founding make members; a grant is
\* revoked once: unless the requests concerned overlapped (Bootstrap,
\* protect_last_team_owner, AcceptInvitation, RevokeAccessGrant).
THEOREM TeamsAreSound == Spec => []TeamsSound
<1>1. TeamsInv => TeamsSound
  <2> SUFFICES ASSUME TeamsInv
               PROVE  TeamsSound
    OBVIOUS
  <2>1. TeamTypes /\ FoundedOnce /\ CrownsKept /\ AdmittedOnce /\ RecalledOnce
    BY DEF TeamsInv
  <2>2. (account # {}) = locked /\ (platform # {}) = locked
    <3>1. (account # {} <=> locked) /\ (platform # {} <=> locked)
      BY <2>1 DEF FoundedOnce
    <3>2. locked \in BOOLEAN
      BY <2>1 DEF TeamTypes
    <3> QED BY <3>1, <3>2
  <2>3. founded <= 1 \/ "founding" \in crossing
    BY <2>1 DEF FoundedOnce
  <2>4. founded > 0 => T!Owners # {} \/ "owners" \in crossing
    BY <2>1 DEF CrownsKept, T!Owners, T!Owns
  <2>5. \A i \in Invitations \ crossing :
            /\ joined[i] <= 1
            /\ joined[i] = 1 => invitation[i].status \in {"accepted", "gone"}
            /\ invitation[i].status = "accepted" => joined[i] = 1
    <3>1. \A i \in Invitations : invitation[i].status \in {"absent", "open", "accepted", "gone"}
      BY <2>1 DEF TeamTypes
    <3> QED BY <2>1, <3>1 DEF AdmittedOnce
  <2>6. \A p \in People \ platform : member[p].role # "none" =>
            \E i \in Invitations : joined[i] > 0 /\ invitation[i].person = p
    BY <2>1 DEF AdmittedOnce
  <2>7. \A g \in Grants \ crossing : recalled[g] <= 1
    BY <2>1 DEF RecalledOnce
  <2> QED BY <2>2, <2>3, <2>4, <2>5, <2>6, <2>7 DEF TeamsSound, T!TeamsSound
<1> QED BY <1>1, TeamsInvariant, PTL

-----------------------------------------------------------------------------
(* Security keys *)

SecurityKeyTabs ==
    [step : {"idle", "registering", "verifying", "recording"},
     ceremony : Ceremonies \cup {NoCeremony},
     key : SecurityKeyIds \cup {NoCeremony}, count : K!Counts]

SecurityKeyTypes ==
    /\ slot \in Ceremonies \cup {NoCeremony}
    /\ ceremony \in [Ceremonies ->
            [kind : {"none", "register", "login"}, allowed : SUBSET SecurityKeyIds]]
    /\ credential \in [SecurityKeyIds ->
            [status : {"none", "active", "disabled"}, count : K!Counts]]
    /\ counter \in [SecurityKeyIds -> K!Counts]
    /\ tab \in [Handlers -> SecurityKeyTabs]
    /\ completed \in [Ceremonies -> Nat]
    /\ accepted \in [SecurityKeyIds -> K!Counts]
    /\ clashed \subseteq SecurityKeyIds

\* A request that took its ceremony, and has not done what it is for.
Took(h) == K!At(h, "registering") \/ K!At(h, "verifying")
Records(h, k) == K!At(h, "recording") /\ tab[h].key = k

TabsSound ==
    \A h \in Handlers : ~K!At(h, "idle") =>
        tab[h].ceremony \in Ceremonies /\ tab[h].key \in SecurityKeyIds

\* A ceremony waits in the slot, then one request has it, then it is done; no
\* two of these at a time.
CeremoniesServeOnce ==
    /\ \A c \in Ceremonies :
        /\ completed[c] <= 1
        /\ ceremony[c].kind = "none" => slot # c /\ completed[c] = 0
        /\ slot = c => completed[c] = 0
    /\ \A h \in Handlers : Took(h) =>
        /\ slot # tab[h].ceremony
        /\ completed[tab[h].ceremony] = 0
        /\ ceremony[tab[h].ceremony].kind # "none"
        /\ \A z \in Handlers : Took(z) /\ tab[z].ceremony = tab[h].ceremony => z = h

\* A sign-in that is about to record its count had an active key; if no other
\* crossed it, its count is the one to be stored.
RecordsAreDue ==
    /\ \A h \in Handlers, k \in SecurityKeyIds : Records(h, k) =>
        /\ credential[k].status # "none"
        /\ K!Active(k) \/ k \in cut
        /\ k \in clashed \/ tab[h].count = accepted[k]
        /\ k \in clashed \/ \A z \in Handlers : Records(z, k) => z = h
    /\ \A k \in SecurityKeyIds :
        \/ credential[k].count = accepted[k]
        \/ k \in clashed
        \/ \E h \in Handlers : Records(h, k)
    /\ unkeyed \subseteq cut

SecurityKeysInv ==
    SecurityKeyTypes /\ TabsSound /\ CeremoniesServeOnce /\ RecordsAreDue

\* A new ceremony was never taken, nor done.
LEMMA CeremonyStarted ==
    ASSUME SecurityKeysInv, NEW c \in Ceremonies,
           K!RegisterStart(c) \/ K!AuthenticateStart(c)
    PROVE  SecurityKeysInv'
<1>1. SecurityKeyTypes /\ TabsSound /\ CeremoniesServeOnce /\ RecordsAreDue
  BY DEF SecurityKeysInv
<1>2. PICK kind \in {"register", "login"}, allowed \in SUBSET SecurityKeyIds :
        K!Start(c, kind, allowed)
  <2>1. CASE K!RegisterStart(c)
    BY <2>1 DEF K!RegisterStart
  <2>2. CASE K!AuthenticateStart(c)
    <3>1. {k \in SecurityKeyIds : K!Active(k)} \in SUBSET SecurityKeyIds
      OBVIOUS
    <3> QED BY <2>2, <3>1 DEF K!AuthenticateStart
  <2> QED BY <2>1, <2>2
<1>3. PICK r \in [kind : {"register", "login"}, allowed : SUBSET SecurityKeyIds] :
        r = [kind |-> kind, allowed |-> allowed]
  OBVIOUS
<1>4. /\ ceremony[c].kind = "none"
      /\ ceremony' = [ceremony EXCEPT ![c] = r] /\ slot' = c
      /\ UNCHANGED <<credential, counter, tab, completed, accepted, clashed, unkeyed, cut>>
  BY <1>2, <1>3 DEF K!Start
<1>5. /\ ceremony'[c].kind # "none" /\ \A z \in Ceremonies \ {c} : ceremony'[z] = ceremony[z]
  BY <1>1, <1>3, <1>4 DEF SecurityKeyTypes
<1>6. SecurityKeyTypes'
  BY <1>1, <1>3, <1>4 DEF SecurityKeyTypes
<1>7. TabsSound' /\ RecordsAreDue'
  BY <1>1, <1>4 DEF TabsSound, RecordsAreDue, Records, K!At, K!Active
<1>8. CeremoniesServeOnce'
  <2>1. \A h \in Handlers : Took(h) => tab[h].ceremony \in Ceremonies \ {c}
    BY <1>1, <1>4 DEF CeremoniesServeOnce, TabsSound, Took, K!At
  <2> QED BY <1>1, <1>4, <1>5, <2>1 DEF CeremoniesServeOnce, Took, K!At
<1> QED BY <1>6, <1>7, <1>8 DEF SecurityKeysInv

\* What was in the slot was neither taken nor done; it is taken from there.
LEMMA CeremonyTaken ==
    ASSUME SecurityKeysInv, NEW c \in Ceremonies, NEW h \in Handlers,
           NEW k \in SecurityKeyIds, NEW kind \in {"register", "login"},
           K!Finish(h, kind, c, k)
    PROVE  SecurityKeysInv'
<1>1. SecurityKeyTypes /\ TabsSound /\ CeremoniesServeOnce /\ RecordsAreDue
  BY DEF SecurityKeysInv
<1>2. counter[k] + 1 \in K!Counts
  BY <1>1, WorkspaceAssumption
  DEF K!Finish, K!KeysAssumption, K!Counts, SecurityKeyTypes
<1>3. PICK n \in K!Counts : n = counter[k] + 1
  BY <1>2
<1>4. PICK r \in SecurityKeyTabs :
        /\ r = [step |-> IF kind = "login" THEN "verifying" ELSE "registering",
                ceremony |-> c, key |-> k, count |-> n]
  <2>1. [step |-> IF kind = "login" THEN "verifying" ELSE "registering",
         ceremony |-> c, key |-> k, count |-> n] \in SecurityKeyTabs
    BY DEF SecurityKeyTabs
  <2> QED BY <2>1
<1>5. /\ K!At(h, "idle") /\ ceremony[c].kind # "none"
      /\ slot' = NoCeremony /\ counter' = [counter EXCEPT ![k] = n]
      /\ \/ slot = c /\ tab' = [tab EXCEPT ![h] = r]
         \/ tab' = tab
      /\ UNCHANGED <<ceremony, credential, completed, accepted, clashed, unkeyed, cut>>
  BY <1>1, <1>3, <1>4 DEF K!Finish, K!popSession, SecurityKeyTypes
<1>6. NoCeremony \notin Ceremonies
  BY WorkspaceAssumption DEF K!KeysAssumption
<1>7. SecurityKeyTypes'
  BY <1>1, <1>5 DEF SecurityKeyTypes
<1>8. CASE tab' = tab
  BY <1>1, <1>5, <1>6, <1>7, <1>8
  DEF SecurityKeysInv, TabsSound, CeremoniesServeOnce, RecordsAreDue, Took, Records,
      K!At, K!Active
<1>9. CASE slot = c /\ tab' = [tab EXCEPT ![h] = r]
  <2>1. /\ tab'[h] = r /\ \A z \in Handlers \ {h} : tab'[z] = tab[z]
        /\ r.ceremony = c /\ r.key = k /\ r.step # "recording" /\ r.step # "idle"
    BY <1>1, <1>4, <1>9 DEF SecurityKeyTypes
  <2>2. TabsSound'
    BY <1>1, <1>5, <2>1 DEF TabsSound, K!At
  <2>3. RecordsAreDue'
    <3>1. \A z \in Handlers, x \in SecurityKeyIds : Records(z, x)' <=> Records(z, x)
      BY <1>5, <2>1 DEF Records, K!At
    <3>2. \A z \in Handlers, x \in SecurityKeyIds : Records(z, x) => tab'[z] = tab[z]
      BY <1>5, <2>1 DEF Records, K!At
    <3> QED BY <1>1, <1>5, <3>1, <3>2 DEF RecordsAreDue, K!Active
  <2>4. CeremoniesServeOnce'
    <3>1. completed[c] = 0
      BY <1>1, <1>9 DEF CeremoniesServeOnce
    <3>2. \A z \in Handlers \ {h} : /\ Took(z)' <=> Took(z)
                                    /\ Took(z) => tab[z].ceremony \in Ceremonies \ {c}
      BY <1>1, <1>9, <2>1 DEF CeremoniesServeOnce, TabsSound, Took, K!At
    <3> QED BY <1>1, <1>5, <1>6, <2>1, <3>1, <3>2 DEF CeremoniesServeOnce
  <2> QED BY <1>7, <2>2, <2>3, <2>4 DEF SecurityKeysInv
<1> QED BY <1>5, <1>8, <1>9

\* A key that is registered was never there, so that no sign-in uses it.
LEMMA KeyRegistered ==
    ASSUME SecurityKeysInv, NEW h \in Handlers, K!RegisterFinish(h)
    PROVE  SecurityKeysInv'
<1>1. SecurityKeyTypes /\ TabsSound /\ CeremoniesServeOnce /\ RecordsAreDue
  BY DEF SecurityKeysInv
<1>2. PICK c \in Ceremonies, k \in SecurityKeyIds, n \in K!Counts :
        c = tab[h].ceremony /\ k = tab[h].key /\ n = tab[h].count
  BY <1>1 DEF K!RegisterFinish, TabsSound, K!At, SecurityKeyTypes, SecurityKeyTabs
<1>3. Took(h) /\ completed[c] = 0
  BY <1>1, <1>2 DEF K!RegisterFinish, CeremoniesServeOnce, Took
<1>4. PICK r : r = [status |-> "active", count |-> n]
  OBVIOUS
<1>5. /\ credential[k].status = "none"
      /\ credential' = [credential EXCEPT ![k] = r]
      /\ completed' = [completed EXCEPT ![c] = 1]
      /\ accepted' = [accepted EXCEPT ![k] = n]
      /\ tab' = [tab EXCEPT ![h] = K!NoTab]
      /\ UNCHANGED <<slot, ceremony, counter, clashed, unkeyed, cut>>
  BY <1>1, <1>2, <1>3, <1>4 DEF K!RegisterFinish, SecurityKeyTypes
<1>6. K!NoTab \in SecurityKeyTabs /\ K!NoTab.step = "idle"
  BY WorkspaceAssumption DEF K!NoTab, SecurityKeyTabs, K!Counts, K!KeysAssumption
<1>7. /\ tab'[h].step = "idle" /\ \A z \in Handlers \ {h} : tab'[z] = tab[z]
      /\ credential'[k] = r /\ r.status = "active" /\ r.count = n
      /\ \A x \in SecurityKeyIds \ {k} : credential'[x] = credential[x]
      /\ accepted'[k] = n /\ \A x \in SecurityKeyIds \ {k} : accepted'[x] = accepted[x]
      /\ completed'[c] = 1 /\ \A x \in Ceremonies \ {c} : completed'[x] = completed[x]
  BY <1>1, <1>4, <1>5, <1>6 DEF SecurityKeyTypes
<1>8. SecurityKeyTypes'
  <2>1. r \in [status : {"none", "active", "disabled"}, count : K!Counts]
    BY <1>4
  <2> QED BY <1>1, <1>5, <1>6, <2>1 DEF SecurityKeyTypes
<1>9. TabsSound'
  BY <1>1, <1>7 DEF TabsSound, K!At
<1>10. CeremoniesServeOnce'
  <2>1. slot # c /\ ceremony[c].kind # "none"
    BY <1>1, <1>2, <1>3 DEF CeremoniesServeOnce
  <2>2. \A z \in Handlers : Took(z)' => z # h /\ Took(z) /\ tab[z].ceremony \in Ceremonies \ {c}
    BY <1>1, <1>2, <1>3, <1>7 DEF CeremoniesServeOnce, TabsSound, Took, K!At
  <2> QED BY <1>1, <1>5, <1>7, <2>1, <2>2 DEF CeremoniesServeOnce
<1>11. RecordsAreDue'
  <2>1. \A z \in Handlers : ~Records(z, k)
    BY <1>1, <1>5 DEF RecordsAreDue
  <2>2. ~K!At(h, "recording")
    BY <1>3 DEF Took, K!At
  <2>3. \A z \in Handlers, x \in SecurityKeyIds : Records(z, x)' <=> Records(z, x)
    BY <1>7, <2>2 DEF Records, K!At
  <2>4. \A z \in Handlers, x \in SecurityKeyIds : Records(z, x) => x # k /\ tab'[z] = tab[z]
    BY <1>7, <2>1, <2>2 DEF Records, K!At
  <2>5. \A x \in SecurityKeyIds \ {k} :
            \/ credential'[x].count = accepted'[x]
            \/ x \in clashed
            \/ \E z \in Handlers : Records(z, x)'
    BY <1>1, <1>7, <2>3 DEF RecordsAreDue
  <2> QED BY <1>1, <1>5, <1>7, <2>3, <2>4, <2>5 DEF RecordsAreDue, K!Active
<1> QED BY <1>8, <1>9, <1>10, <1>11 DEF SecurityKeysInv

\* A sign-in with an active key does what its ceremony is for; if another one
\* with that key has not recorded its count, they clash.
LEMMA LoginValidated ==
    ASSUME SecurityKeysInv, NEW h \in Handlers, K!ValidateLogin(h)
    PROVE  SecurityKeysInv'
<1>1. SecurityKeyTypes /\ TabsSound /\ CeremoniesServeOnce /\ RecordsAreDue
  BY DEF SecurityKeysInv
<1>2. PICK c \in Ceremonies, k \in SecurityKeyIds :
        c = tab[h].ceremony /\ k = tab[h].key
  BY <1>1 DEF K!ValidateLogin, TabsSound, K!At
<1>3. Took(h) /\ completed[c] = 0 /\ K!At(h, "verifying") /\ K!Active(k)
  BY <1>1, <1>2 DEF K!ValidateLogin, CeremoniesServeOnce, Took
<1>4. PICK n \in K!Counts : n = K!Highest(tab[h].count, credential[k].count)
  BY <1>1 DEF K!Highest, SecurityKeyTypes, SecurityKeyTabs
<1>5. PICK m \in K!Counts : m = K!Highest(accepted[k], n)
  BY <1>1 DEF K!Highest, SecurityKeyTypes
<1>6. PICK r \in SecurityKeyTabs : r = [tab[h] EXCEPT !.step = "recording", !.count = n]
  BY <1>1 DEF SecurityKeyTypes, SecurityKeyTabs
<1>7. r.step = "recording" /\ r.key = k /\ r.count = n /\ r.ceremony = c
  BY <1>1, <1>2, <1>6 DEF SecurityKeyTypes, SecurityKeyTabs
<1>8. /\ tab' = [tab EXCEPT ![h] = r]
      /\ accepted' = [accepted EXCEPT ![k] = m]
      /\ completed' = [completed EXCEPT ![c] = 1]
      /\ clashed' = IF \E z \in Handlers \ {h} : Records(z, k)
                    THEN clashed \cup {k} ELSE clashed
      /\ UNCHANGED <<slot, ceremony, credential, counter, unkeyed, cut>>
  <2>1. tab' = [tab EXCEPT ![h] = r]
    BY <1>2, <1>4, <1>6 DEF K!ValidateLogin
  <2>2. accepted' = [accepted EXCEPT ![k] = m]
    BY <1>1, <1>2, <1>4, <1>5 DEF K!ValidateLogin, SecurityKeyTypes
  <2>3. completed' = [completed EXCEPT ![c] = 1]
    BY <1>1, <1>2, <1>3 DEF K!ValidateLogin, SecurityKeyTypes
  <2>4. clashed' = IF \E z \in Handlers \ {h} : Records(z, k)
                   THEN clashed \cup {k} ELSE clashed
    BY <1>2 DEF K!ValidateLogin, Records
  <2> QED BY <2>1, <2>2, <2>3, <2>4 DEF K!ValidateLogin
<1>9. /\ tab'[h] = r /\ \A z \in Handlers \ {h} : tab'[z] = tab[z]
      /\ accepted'[k] = m /\ \A x \in SecurityKeyIds \ {k} : accepted'[x] = accepted[x]
      /\ completed'[c] = 1 /\ \A x \in Ceremonies \ {c} : completed'[x] = completed[x]
  BY <1>1, <1>8 DEF SecurityKeyTypes
<1>10. SecurityKeyTypes'
  BY <1>1, <1>8 DEF SecurityKeyTypes
<1>11. TabsSound'
  BY <1>1, <1>7, <1>9 DEF TabsSound, K!At
<1>12. CeremoniesServeOnce'
  <2>1. slot # c /\ ceremony[c].kind # "none"
    BY <1>1, <1>2, <1>3 DEF CeremoniesServeOnce
  <2>2. \A z \in Handlers : Took(z)' => z # h /\ Took(z) /\ tab[z].ceremony \in Ceremonies \ {c}
    BY <1>1, <1>2, <1>3, <1>7, <1>9 DEF CeremoniesServeOnce, TabsSound, Took, K!At
  <2> QED BY <1>1, <1>8, <1>9, <2>1, <2>2 DEF CeremoniesServeOnce
<1>13. RecordsAreDue'
  <2>1. ~K!At(h, "recording")
    BY <1>3 DEF K!At
  <2>2. /\ Records(h, k)' /\ \A x \in SecurityKeyIds \ {k} : ~Records(h, x)'
        /\ \A z \in Handlers \ {h}, x \in SecurityKeyIds : Records(z, x)' <=> Records(z, x)
        /\ \A z \in Handlers, x \in SecurityKeyIds : Records(z, x) => z # h
    BY <1>7, <1>9, <2>1 DEF Records, K!At
  <2>3. k \in clashed' \/
            /\ \A z \in Handlers \ {h} : ~Records(z, k)
            /\ credential[k].count = accepted[k] /\ m = n
    <3>1. SUFFICES ASSUME k \notin clashed'
                   PROVE  /\ \A z \in Handlers \ {h} : ~Records(z, k)
                          /\ credential[k].count = accepted[k] /\ m = n
      OBVIOUS
    <3>2. k \notin clashed /\ \A z \in Handlers \ {h} : ~Records(z, k)
      BY <1>8, <3>1
    <3>3. credential[k].count = accepted[k]
      BY <1>1, <2>2, <3>2 DEF RecordsAreDue
    <3>4. /\ tab[h].count \in Nat /\ credential[k].count \in Nat /\ accepted[k] \in Nat
      BY <1>1 DEF SecurityKeyTypes, SecurityKeyTabs, K!Counts
    <3>5. n >= accepted[k]
      BY <1>4, <3>3, <3>4 DEF K!Highest
    <3>6. m = n
      BY <1>5, <3>4, <3>5 DEF K!Highest, K!Counts
    <3> QED BY <3>2, <3>3, <3>6
  <2>4. clashed \subseteq clashed' /\ \A x \in SecurityKeyIds \ {k} : x \in clashed' => x \in clashed
    BY <1>8
  <2>5. ASSUME NEW z \in Handlers, NEW x \in SecurityKeyIds, Records(z, x)'
        PROVE  /\ credential'[x].status # "none"
               /\ K!Active(x)' \/ x \in cut'
               /\ x \in clashed' \/ tab'[z].count = accepted'[x]
               /\ x \in clashed' \/ \A y \in Handlers : Records(y, x)' => y = z
    <3>1. CASE x = k
      <4>1. credential'[x].status # "none" /\ (K!Active(x)' \/ x \in cut')
        BY <1>3, <1>8, <3>1 DEF K!Active
      <4>2. x \in clashed' \/ (z = h /\ m = n)
        BY <2>2, <2>3, <2>5, <3>1
      <4>3. x \in clashed' \/ \A y \in Handlers : Records(y, x)' => y = z
        BY <2>2, <2>3, <2>5, <3>1
      <4> QED BY <1>7, <1>9, <3>1, <4>1, <4>2, <4>3
    <3>2. CASE x # k
      <4>1. Records(z, x) /\ z # h
        BY <2>2, <2>5, <3>2
      <4> QED BY <1>1, <1>8, <1>9, <2>2, <2>4, <3>2, <4>1 DEF RecordsAreDue, K!Active
    <3> QED BY <3>1, <3>2
  <2>6. ASSUME NEW x \in SecurityKeyIds
        PROVE  \/ credential'[x].count = accepted'[x]
               \/ x \in clashed'
               \/ \E z \in Handlers : Records(z, x)'
    BY <1>1, <1>8, <1>9, <2>2, <2>4 DEF RecordsAreDue
  <2> QED BY <1>1, <1>8, <2>5, <2>6 DEF RecordsAreDue
<1> QED BY <1>10, <1>11, <1>12, <1>13 DEF SecurityKeysInv

\* The count that is stored, if it is, is the highest that was let through.
LEMMA CountRecorded ==
    ASSUME SecurityKeysInv, NEW h \in Handlers, K!AuthenticateFinish(h) \/ K!LoseCount(h)
    PROVE  SecurityKeysInv'
<1>1. SecurityKeyTypes /\ TabsSound /\ CeremoniesServeOnce /\ RecordsAreDue
  BY DEF SecurityKeysInv
<1>2. PICK k \in SecurityKeyIds : Records(h, k)
  BY <1>1 DEF K!AuthenticateFinish, K!LoseCount, TabsSound, K!At, Records
<1>3. PICK r : r = [credential[k] EXCEPT !.count = tab[h].count]
  OBVIOUS
<1>4. /\ r \in [status : {"none", "active", "disabled"}, count : K!Counts]
      /\ r.status = credential[k].status /\ r.count = tab[h].count
  BY <1>1, <1>3 DEF SecurityKeyTypes, SecurityKeyTabs
<1>5. /\ tab' = [tab EXCEPT ![h] = K!NoTab]
      /\ \/ credential' = [credential EXCEPT ![k] = r] /\ clashed' = clashed
         \/ credential' = credential /\ clashed' = clashed \cup {k}
      /\ unkeyed' = unkeyed \/ unkeyed' = IF K!Active(k) THEN unkeyed ELSE unkeyed \cup {k}
      /\ UNCHANGED <<slot, ceremony, counter, completed, accepted, cut>>
  BY <1>2, <1>3 DEF K!AuthenticateFinish, K!LoseCount, Records
<1>6. K!NoTab \in SecurityKeyTabs /\ K!NoTab.step = "idle"
  BY WorkspaceAssumption DEF K!NoTab, SecurityKeyTabs, K!Counts, K!KeysAssumption
<1>7. /\ tab'[h].step = "idle" /\ \A z \in Handlers \ {h} : tab'[z] = tab[z]
      /\ \A x \in SecurityKeyIds \ {k} : credential'[x] = credential[x]
      /\ credential'[k].status = credential[k].status
      /\ k \in clashed' \/ credential'[k].count = tab[h].count
      /\ clashed \subseteq clashed' /\ \A x \in SecurityKeyIds \ {k} : x \in clashed' => x \in clashed
  BY <1>1, <1>4, <1>5, <1>6 DEF SecurityKeyTypes
<1>8. SecurityKeyTypes'
  BY <1>1, <1>4, <1>5, <1>6 DEF SecurityKeyTypes
<1>9. TabsSound'
  BY <1>1, <1>7 DEF TabsSound, K!At
<1>10. CeremoniesServeOnce'
  <2>1. \A z \in Handlers : Took(z)' => Took(z) /\ tab'[z] = tab[z]
    BY <1>7 DEF Took, K!At
  <2> QED BY <1>1, <1>5, <2>1 DEF CeremoniesServeOnce
<1>11. RecordsAreDue'
  <2>1. \A z \in Handlers, x \in SecurityKeyIds :
            Records(z, x)' => z # h /\ Records(z, x) /\ tab'[z] = tab[z]
    BY <1>7 DEF Records, K!At
  <2>2. \A x \in SecurityKeyIds : /\ credential'[x].status = credential[x].status
                                  /\ K!Active(x)' <=> K!Active(x)
    BY <1>7 DEF K!Active
  <2>3. unkeyed' \subseteq cut'
    BY <1>1, <1>2, <1>5 DEF RecordsAreDue
  <2>4. k \in clashed' \/ credential'[k].count = accepted'[k]
    BY <1>1, <1>2, <1>5, <1>7 DEF RecordsAreDue
  <2>5. ASSUME NEW x \in SecurityKeyIds \ {k}
        PROVE  \/ credential'[x].count = accepted'[x]
               \/ x \in clashed'
               \/ \E z \in Handlers : Records(z, x)'
    <3>1. \A z \in Handlers : Records(z, x) => Records(z, x)'
      BY <1>2, <1>7 DEF Records, K!At
    <3> QED BY <1>1, <1>5, <1>7, <3>1 DEF RecordsAreDue
  <2>6. ASSUME NEW z \in Handlers, NEW x \in SecurityKeyIds, Records(z, x)'
        PROVE  /\ credential'[x].status # "none"
               /\ K!Active(x)' \/ x \in cut'
               /\ x \in clashed' \/ tab'[z].count = accepted'[x]
               /\ x \in clashed' \/ \A y \in Handlers : Records(y, x)' => y = z
    <3>1. Records(z, x) /\ tab'[z] = tab[z]
      BY <2>1, <2>6
    <3> QED BY <1>1, <1>5, <1>7, <2>1, <2>2, <3>1 DEF RecordsAreDue
  <2> QED BY <2>3, <2>4, <2>5, <2>6 DEF RecordsAreDue
<1> QED BY <1>8, <1>9, <1>10, <1>11 DEF SecurityKeysInv

\* A key that is disabled cuts the sign-ins that have not recorded their count.
LEMMA KeyDisabled ==
    ASSUME SecurityKeysInv, NEW k \in SecurityKeyIds, K!DisableCredential(k)
    PROVE  SecurityKeysInv'
<1>1. SecurityKeyTypes /\ TabsSound /\ CeremoniesServeOnce /\ RecordsAreDue
  BY DEF SecurityKeysInv
<1>2. PICK r : r = [credential[k] EXCEPT !.status = "disabled"]
  OBVIOUS
<1>3. /\ r \in [status : {"none", "active", "disabled"}, count : K!Counts]
      /\ r.status = "disabled" /\ r.count = credential[k].count
  BY <1>1, <1>2 DEF SecurityKeyTypes
<1>4. /\ credential' = [credential EXCEPT ![k] = r]
      /\ cut' = IF \E h \in Handlers : Records(h, k) THEN cut \cup {k} ELSE cut
      /\ UNCHANGED <<slot, ceremony, counter, tab, completed, accepted, clashed, unkeyed>>
  BY <1>2 DEF K!DisableCredential, Records
<1>5. credential'[k] = r /\ \A x \in SecurityKeyIds \ {k} : credential'[x] = credential[x]
  BY <1>1, <1>4 DEF SecurityKeyTypes
<1>6. SecurityKeyTypes'
  BY <1>1, <1>3, <1>4 DEF SecurityKeyTypes
<1>7. TabsSound' /\ CeremoniesServeOnce'
  BY <1>1, <1>4 DEF TabsSound, CeremoniesServeOnce, Took, K!At
<1>8. RecordsAreDue'
  <2>1. \A z \in Handlers, x \in SecurityKeyIds : Records(z, x)' <=> Records(z, x)
    BY <1>4 DEF Records, K!At
  <2>2. /\ cut \subseteq cut'
        /\ \A z \in Handlers : Records(z, k) => k \in cut'
    BY <1>4
  <2>3. \A x \in SecurityKeyIds : /\ credential'[x].count = credential[x].count
                                  /\ credential[x].status # "none" => credential'[x].status # "none"
    BY <1>3, <1>5
  <2>4. \A z \in Handlers, x \in SecurityKeyIds : Records(z, x) => K!Active(x)' \/ x \in cut'
    BY <1>1, <1>5, <2>2 DEF RecordsAreDue, K!Active
  <2> QED BY <1>1, <1>4, <2>1, <2>2, <2>3, <2>4 DEF RecordsAreDue
<1> QED BY <1>6, <1>7, <1>8 DEF SecurityKeysInv

\* A request that is refused, and a slot that is emptied, give up a ceremony.
LEMMA CeremonyGivenUp ==
    ASSUME SecurityKeysInv, K!Forget \/ \E h \in Handlers : K!Refuse(h)
    PROVE  SecurityKeysInv'
<1>1. SecurityKeyTypes /\ TabsSound /\ CeremoniesServeOnce /\ RecordsAreDue
  BY DEF SecurityKeysInv
<1>2. NoCeremony \notin Ceremonies
  BY WorkspaceAssumption DEF K!KeysAssumption
<1>3. CASE K!Forget
  <2>1. slot' = NoCeremony
    BY <1>3 DEF K!Forget, K!popSession
  <2>2. UNCHANGED <<ceremony, credential, counter, tab,
                    completed, accepted, clashed, unkeyed, cut>>
    BY <1>3 DEF K!Forget
  <2> QED BY <1>1, <1>2, <2>1, <2>2
          DEF SecurityKeysInv, SecurityKeyTypes, TabsSound, CeremoniesServeOnce, RecordsAreDue,
              Took, Records, K!At, K!Active
<1>4. ASSUME NEW h \in Handlers, K!Refuse(h)
      PROVE  SecurityKeysInv'
  <2>1. /\ Took(h) /\ tab' = [tab EXCEPT ![h] = K!NoTab]
        /\ UNCHANGED <<slot, ceremony, credential, counter,
                       completed, accepted, clashed, unkeyed, cut>>
    BY <1>4 DEF K!Refuse, Took
  <2>2. K!NoTab \in SecurityKeyTabs /\ K!NoTab.step = "idle"
    BY WorkspaceAssumption DEF K!NoTab, SecurityKeyTabs, K!Counts, K!KeysAssumption
  <2>3. tab'[h].step = "idle" /\ \A z \in Handlers \ {h} : tab'[z] = tab[z]
    BY <1>1, <2>1, <2>2 DEF SecurityKeyTypes
  <2>4. SecurityKeyTypes' /\ TabsSound'
    BY <1>1, <2>1, <2>2, <2>3 DEF SecurityKeyTypes, TabsSound, K!At
  <2>5. \A z \in Handlers : Took(z)' => Took(z) /\ tab'[z] = tab[z]
    BY <2>3 DEF Took, K!At
  <2>6. /\ \A z \in Handlers, x \in SecurityKeyIds : Records(z, x)' <=> Records(z, x)
        /\ \A z \in Handlers, x \in SecurityKeyIds : Records(z, x) => tab'[z] = tab[z]
    BY <2>1, <2>3 DEF Took, Records, K!At
  <2>7. CeremoniesServeOnce'
    BY <1>1, <2>1, <2>5 DEF CeremoniesServeOnce
  <2>8. RecordsAreDue'
    BY <1>1, <2>1, <2>6 DEF RecordsAreDue, K!Active
  <2> QED BY <2>4, <2>7, <2>8 DEF SecurityKeysInv
<1> QED BY <1>3, <1>4

\* The ceremonies and keys keep their invariant, whatever else is explored.
LEMMA SecurityKeysInvariant == Spec => []SecurityKeysInv
<1>1. Init => SecurityKeysInv
  <2> SUFFICES ASSUME Init
               PROVE  SecurityKeysInv
    OBVIOUS
  <2>1. K!KInit
    BY DEF Init
  <2>2. K!NoTab \in SecurityKeyTabs /\ K!NoTab.step = "idle"
    BY WorkspaceAssumption DEF K!NoTab, SecurityKeyTabs, K!Counts, K!KeysAssumption
  <2>3. NoCeremony \notin Ceremonies /\ 0 \in K!Counts
    BY WorkspaceAssumption DEF K!Counts, K!KeysAssumption
  <2>4. \A h \in Handlers : tab[h].step = "idle"
    BY <2>1, <2>2 DEF K!KInit
  <2>5. SecurityKeyTypes
    BY <2>1, <2>2, <2>3 DEF K!KInit, SecurityKeyTypes
  <2>6. TabsSound /\ RecordsAreDue
    BY <2>1, <2>4 DEF K!KInit, TabsSound, RecordsAreDue, Records, K!At
  <2>7. CeremoniesServeOnce
    BY <2>1, <2>3, <2>4 DEF K!KInit, CeremoniesServeOnce, Took, K!At
  <2> QED BY <2>5, <2>6, <2>7 DEF SecurityKeysInv
<1>2. SecurityKeysInv /\ [Next]_vars => SecurityKeysInv'
  <2> SUFFICES ASSUME SecurityKeysInv, [Next]_vars
               PROVE  SecurityKeysInv'
    OBVIOUS
  <2>1. CASE UNCHANGED securityKeys
    BY <2>1 DEF SecurityKeysInv, SecurityKeyTypes, TabsSound, CeremoniesServeOnce,
                RecordsAreDue, Took, Records, K!At, K!Active, securityKeys
  <2>2. CASE K!KNext
    BY <2>2, CeremonyStarted, CeremonyTaken, KeyRegistered, LoginValidated, CountRecorded,
       KeyDisabled, CeremonyGivenUp DEF K!KNext
  <2> QED BY <2>1, <2>2, OneAtATime
<1> QED BY <1>1, <1>2, PTL DEF Spec

-----------------------------------------------------------------------------
(* The second factor *)

FactorRows ==
    [status : {"none", "pending", "active", "disabled"}, id : 0 .. MaxEnrolled,
     attempts : F!Attempts, locked : BOOLEAN]

MfaTypes ==
    /\ factor \in FactorRows
    /\ code \in [Codes -> {"absent", "live", "used"}]
    /\ challenge \in [Challenges -> {"absent", "open", "verified"}]
    /\ recent \in BOOLEAN /\ stray \in BOOLEAN
    /\ phone \in [Handlers -> F!Jobs]
    /\ redeemed \in [Codes -> Nat] /\ guesses \in Nat

Redeems(h, c) == F!At(h, "redeeming") /\ phone[h].code = c
Guesses(h) == phone[h].step \in {"checking", "enlisting"}
Changes(h) == phone[h].step \in F!Changing
Vouches(h) == phone[h].step \in {"answering", "redeeming", "checking", "passed", "unmarked"}

\* What was not mingled, one request at a time was about.
Unmingled ==
    /\ \A c \in Codes \ mingled :
        /\ \A h, z \in Handlers : Redeems(h, c) /\ Redeems(z, c) => h = z
        /\ \A h \in Handlers : F!At(h, "unmarked") => phone[h].code # c
    /\ "guess" \notin mingled => \A h, z \in Handlers : Guesses(h) /\ Guesses(z) => h = z
    /\ "change" \notin mingled => \A h, z \in Handlers : Changes(h) /\ Changes(z) => h = z

\* A factor that was never active was never asked about.
FreshFactor ==
    factor.status \in {"none", "pending"} =>
        /\ factor.attempts = 0 /\ guesses = 0
        /\ \A n \in Challenges : challenge[n] = "absent"
        /\ \A h \in Handlers : ~Vouches(h)

\* A code that can be redeemed, or is about to be, was not.
CodesServeOnce ==
    /\ \A h \in Handlers : F!At(h, "redeeming") => phone[h].code \in Codes
    /\ \A c \in Codes \ mingled :
        /\ redeemed[c] <= 1
        /\ code[c] # "used" => redeemed[c] = 0
        /\ \A h \in Handlers : Redeems(h, c) => redeemed[c] = 0

\* The attempts in the row, and those that a request has read, are the guesses.
GuessesCount ==
    "guess" \notin mingled =>
        /\ guesses = factor.attempts
        /\ \A h \in Handlers : F!At(h, "checking") => phone[h].attempts = factor.attempts

\* The row that is about to be activated is there; what only an active factor
\* earns has one behind it, and so has a request that will renew the codes.
FactorBehind ==
    "change" \notin mingled =>
        /\ \A h \in Handlers : F!At(h, "enlisting") =>
            factor.status # "none" /\ phone[h].id = factor.id
        /\ \/ stray
           \/ factor.status = "active"
           \/ /\ ~recent /\ \A c \in Codes : code[c] # "live"
              /\ \A h \in Handlers : phone[h].step \notin {"regenerating", "renewing"}

MfaInv ==
    /\ MfaTypes /\ Unmingled /\ FreshFactor
    /\ CodesServeOnce /\ GuessesCount /\ FactorBehind

\* What overlaps after a step is mingled by it.
LEMMA StepsMingle ==
    ASSUME F!FNext
    PROVE  mingled \subseteq mingled' /\ Unmingled'
<1>1. mingled' = mingled \cup F!Mingling'
  BY DEF F!FNext
<1>2. ASSUME NEW c \in Codes, c \notin mingled'
      PROVE  /\ \A h, z \in Handlers : Redeems(h, c)' /\ Redeems(z, c)' => h = z
             /\ \A h \in Handlers : F!At(h, "unmarked")' => phone'[h].code # c
  <2>1. c \notin F!Mingling'
    BY <1>1, <1>2
  <2>2. ASSUME NEW h \in Handlers, NEW z \in Handlers, Redeems(h, c)', Redeems(z, c)', h # z
        PROVE  FALSE
    <3>1. PICK p \in Handlers \X Handlers : p[1] = h /\ p[2] = z
      <4>1. <<h, z>> \in Handlers \X Handlers /\ <<h, z>>[1] = h /\ <<h, z>>[2] = z
        OBVIOUS
      <4> QED BY <4>1
    <3>2. /\ phone'[p[1]].step \in {"redeeming"} /\ phone'[p[2]].step \in {"redeeming"}
          /\ phone'[p[1]].code = phone'[p[2]].code /\ c = phone'[p[1]].code /\ p[1] # p[2]
      BY <2>2, <3>1 DEF Redeems, F!At
    <3> QED BY <2>1, <3>1, <3>2 DEF F!Mingling
  <2>3. ASSUME NEW h \in Handlers, F!At(h, "unmarked")', phone'[h].code = c
        PROVE  FALSE
    BY <2>1, <2>3 DEF F!Mingling, F!At
  <2> QED BY <2>2, <2>3
<1>3. ASSUME "guess" \notin mingled', NEW h \in Handlers, NEW z \in Handlers,
             Guesses(h)', Guesses(z)', h # z
      PROVE  FALSE
  <2>1. PICK p \in Handlers \X Handlers : p[1] = h /\ p[2] = z
    <3>1. <<h, z>> \in Handlers \X Handlers /\ <<h, z>>[1] = h /\ <<h, z>>[2] = z
      OBVIOUS
    <3> QED BY <3>1
  <2>2. "guess" \notin F!Mingling'
    BY <1>1, <1>3
  <2>3. /\ phone'[p[1]].step \in {"checking", "enlisting"}
        /\ phone'[p[2]].step \in {"checking", "enlisting"} /\ p[1] # p[2]
    BY <1>3, <2>1 DEF Guesses
  <2> QED BY <2>1, <2>2, <2>3 DEF F!Mingling
<1>4. ASSUME "change" \notin mingled', NEW h \in Handlers, NEW z \in Handlers,
             Changes(h)', Changes(z)', h # z
      PROVE  FALSE
  <2>1. PICK p \in Handlers \X Handlers : p[1] = h /\ p[2] = z
    <3>1. <<h, z>> \in Handlers \X Handlers /\ <<h, z>>[1] = h /\ <<h, z>>[2] = z
      OBVIOUS
    <3> QED BY <3>1
  <2>2. "change" \notin F!Mingling'
    BY <1>1, <1>4
  <2>3. phone'[p[1]].step \in F!Changing /\ phone'[p[2]].step \in F!Changing /\ p[1] # p[2]
    BY <1>4, <2>1 DEF Changes, F!Changing
  <2> QED BY <2>1, <2>2, <2>3 DEF F!Mingling
<1> QED BY <1>1, <1>2, <1>3, <1>4 DEF Unmingled

\* A request that reads, or is refused, keeps what it may go on with.
LEMMA PhoneMoves ==
    ASSUME MfaInv, mingled \subseteq mingled', Unmingled',
           NEW h \in Handlers, NEW r \in F!Jobs,
           phone' = [phone EXCEPT ![h] = r],
           UNCHANGED <<factor, code, challenge, recent, redeemed, guesses, stray>>,
           factor.status \in {"none", "pending"} =>
                r.step \notin {"answering", "redeeming", "checking", "passed", "unmarked"},
           r.step = "redeeming" => r.code \in Codes /\ (r.code \in mingled \/ redeemed[r.code] = 0),
           r.step = "checking" => r.attempts = factor.attempts,
           r.step = "enlisting" => factor.status # "none" /\ r.id = factor.id,
           r.step \in {"regenerating", "renewing"} =>
                "change" \in mingled \/ stray \/ factor.status = "active"
    PROVE  MfaInv'
<1>1. /\ MfaTypes /\ Unmingled /\ FreshFactor
      /\ CodesServeOnce /\ GuessesCount /\ FactorBehind
  BY DEF MfaInv
<1>2. phone'[h] = r /\ \A z \in Handlers \ {h} : phone'[z] = phone[z]
  BY <1>1 DEF MfaTypes
<1>3. MfaTypes'
  BY <1>1 DEF MfaTypes
<1>4. FreshFactor'
  BY <1>1, <1>2 DEF FreshFactor, Vouches
<1>5. CodesServeOnce'
  BY <1>1, <1>2 DEF CodesServeOnce, Redeems, F!At
<1>6. GuessesCount'
  BY <1>1, <1>2 DEF GuessesCount, F!At
<1>7. FactorBehind'
  BY <1>1, <1>2 DEF FactorBehind, F!At
<1> QED BY <1>3, <1>4, <1>5, <1>6, <1>7 DEF MfaInv

\* A request with nothing but a step to take is of its type.
LEMMA JobsBegin ==
    /\ F!NoJob \in F!Jobs /\ F!NoJob.step = "idle"
    /\ \A step \in {"inserting", "regenerating", "disabling"} :
        [F!NoJob EXCEPT !.step = step] \in F!Jobs /\ [F!NoJob EXCEPT !.step = step].step = step
<1>1. 0 \in 0 .. MaxEnrolled /\ 0 \in F!Attempts
  BY WorkspaceAssumption DEF F!MfaAssumption, F!Attempts
<1>2. F!NoJob \in F!Jobs /\ F!NoJob.step = "idle"
  BY <1>1 DEF F!NoJob, F!Jobs
<1> QED BY <1>2 DEF F!Jobs

\* What a request reads is so at that moment.
LEMMA RequestMoves ==
    ASSUME MfaInv, mingled \subseteq mingled', Unmingled', NEW h \in Handlers,
           \/ F!BeginVerifyEnrollment(h) \/ F!ReadFactor(h)
           \/ \E c \in Codes : F!ReadCode(h, c)
           \/ \E n \in Challenges : F!BeginVerify(h, n)
           \/ F!BeginRegenerate(h) \/ F!BeginDisable(h) \/ F!Refuse(h)
    PROVE  MfaInv'
<1>1. /\ MfaTypes /\ Unmingled /\ FreshFactor
      /\ CodesServeOnce /\ GuessesCount /\ FactorBehind
  BY DEF MfaInv
<1>2. phone[h] \in F!Jobs
  BY <1>1 DEF MfaTypes
<1>3. UNCHANGED <<factor, code, challenge, recent, redeemed, guesses, stray>>
  BY DEF F!BeginVerifyEnrollment, F!ReadFactor, F!ReadCode, F!BeginVerify, F!BeginRegenerate,
         F!BeginDisable, F!Refuse, F!ledger
<1>4. PICK r \in F!Jobs :
        /\ phone' = [phone EXCEPT ![h] = r]
        /\ factor.status \in {"none", "pending"} =>
                r.step \notin {"answering", "redeeming", "checking", "passed", "unmarked"}
        /\ r.step = "redeeming" => r.code \in Codes /\ (r.code \in mingled \/ redeemed[r.code] = 0)
        /\ r.step = "checking" => r.attempts = factor.attempts
        /\ r.step = "enlisting" => factor.status # "none" /\ r.id = factor.id
        /\ r.step \in {"regenerating", "renewing"} =>
                "change" \in mingled \/ stray \/ factor.status = "active"
  <2>1. CASE F!BeginVerifyEnrollment(h)
    <3>1. PICK id \in 0 .. MaxEnrolled : id = factor.id
      BY <1>1 DEF MfaTypes, FactorRows
    <3>2. PICK r : r = [F!NoJob EXCEPT !.step = "enlisting", !.id = id]
      OBVIOUS
    <3>3. r \in F!Jobs /\ r.step = "enlisting" /\ r.id = factor.id
      BY <3>1, <3>2, JobsBegin DEF F!Jobs
    <3>4. phone' = [phone EXCEPT ![h] = r] /\ factor.status = "pending"
      BY <2>1, <3>1, <3>2 DEF F!BeginVerifyEnrollment
    <3> QED BY <3>3, <3>4
  <2>2. CASE F!ReadFactor(h)
    <3>1. PICK n \in F!Attempts : n = factor.attempts
      BY <1>1 DEF MfaTypes, FactorRows
    <3>2. PICK r : r = [phone[h] EXCEPT !.step = "checking", !.attempts = n]
      OBVIOUS
    <3>3. r \in F!Jobs /\ r.step = "checking" /\ r.attempts = factor.attempts
      BY <1>2, <3>1, <3>2 DEF F!Jobs
    <3>4. phone' = [phone EXCEPT ![h] = r] /\ F!At(h, "answering")
      BY <2>2, <3>1, <3>2 DEF F!ReadFactor
    <3>5. factor.status \notin {"none", "pending"}
      BY <1>1, <3>4 DEF FreshFactor, Vouches, F!At
    <3> QED BY <3>3, <3>4, <3>5
  <2>3. CASE \E c \in Codes : F!ReadCode(h, c)
    <3>1. PICK c \in Codes : F!ReadCode(h, c)
      BY <2>3
    <3>2. PICK r : r = [phone[h] EXCEPT !.step = "redeeming", !.code = c]
      OBVIOUS
    <3>3. r \in F!Jobs /\ r.step = "redeeming" /\ r.code = c
      BY <1>2, <3>2 DEF F!Jobs
    <3>4. phone' = [phone EXCEPT ![h] = r] /\ F!At(h, "answering") /\ code[c] = "live"
      BY <3>1, <3>2 DEF F!ReadCode
    <3>5. factor.status \notin {"none", "pending"}
      BY <1>1, <3>4 DEF FreshFactor, Vouches, F!At
    <3>6. c \in mingled \/ redeemed[c] = 0
      BY <1>1, <3>4 DEF CodesServeOnce
    <3> QED BY <3>3, <3>4, <3>5, <3>6
  <2>4. CASE \E n \in Challenges : F!BeginVerify(h, n)
    <3>1. PICK n \in Challenges : F!BeginVerify(h, n)
      BY <2>4
    <3>2. PICK r : r = [F!NoJob EXCEPT !.step = "answering", !.challenge = n]
      OBVIOUS
    <3>3. r \in F!Jobs /\ r.step = "answering"
      BY <3>2, JobsBegin DEF F!Jobs
    <3>4. phone' = [phone EXCEPT ![h] = r] /\ challenge[n] # "absent"
      BY <3>1, <3>2 DEF F!BeginVerify
    <3>5. factor.status \notin {"none", "pending"}
      BY <1>1, <3>4 DEF FreshFactor
    <3> QED BY <3>3, <3>4, <3>5
  <2>5. CASE F!BeginRegenerate(h) \/ F!BeginDisable(h)
    <3>1. PICK step \in {"regenerating", "disabling"} : F!Begins(h, step)
      BY <2>5 DEF F!BeginRegenerate, F!BeginDisable
    <3>2. PICK r \in F!Jobs : r = [F!NoJob EXCEPT !.step = step] /\ r.step = step
      BY JobsBegin
    <3>3. phone' = [phone EXCEPT ![h] = r]
      BY <3>1, <3>2 DEF F!Begins
    <3>4. recent
      BY <2>5 DEF F!BeginRegenerate, F!BeginDisable
    <3>5. "change" \in mingled \/ stray \/ factor.status = "active"
      BY <1>1, <3>4 DEF FactorBehind
    <3> QED BY <3>2, <3>3, <3>5
  <2>6. CASE F!Refuse(h)
    <3>1. phone' = [phone EXCEPT ![h] = F!NoJob]
      BY <2>6 DEF F!Refuse, F!Ends
    <3> QED BY <3>1, JobsBegin
  <2> QED BY <2>1, <2>2, <2>3, <2>4, <2>5, <2>6
<1> QED BY <1>3, <1>4, PhoneMoves

\* What no request does: a verification is forgotten, a lock ends, a challenge
\* is made while the factor is active.
LEMMA RowsMove ==
    ASSUME MfaInv, mingled \subseteq mingled', Unmingled',
           F!ForgetRecent \/ F!Unlock \/ \E n \in Challenges : F!CreateChallenge(n)
    PROVE  MfaInv'
<1>1. /\ MfaTypes /\ Unmingled /\ FreshFactor
      /\ CodesServeOnce /\ GuessesCount /\ FactorBehind
  BY DEF MfaInv
<1>2. /\ UNCHANGED <<code, phone, redeemed, guesses, stray>>
      /\ recent' = recent \/ recent' = FALSE
  BY DEF F!ForgetRecent, F!Unlock, F!CreateChallenge, F!ledger
<1>3. /\ factor' \in FactorRows
      /\ factor'.status = factor.status /\ factor'.id = factor.id
      /\ factor'.attempts = factor.attempts
  <2>1. CASE F!Unlock
    BY <1>1, <2>1 DEF F!Unlock, MfaTypes, FactorRows
  <2>2. CASE factor' = factor
    BY <1>1, <2>2 DEF MfaTypes
  <2> QED BY <2>1, <2>2 DEF F!ForgetRecent, F!CreateChallenge
<1>4. /\ challenge' \in [Challenges -> {"absent", "open", "verified"}]
      /\ challenge' = challenge \/ factor.status = "active"
  <2>1. ASSUME NEW n \in Challenges, F!CreateChallenge(n)
        PROVE  challenge' = [challenge EXCEPT ![n] = "open"] /\ factor.status = "active"
    BY <2>1 DEF F!CreateChallenge
  <2> QED BY <1>1, <2>1 DEF F!ForgetRecent, F!Unlock, MfaTypes
<1>5. MfaTypes'
  <2>1. recent' \in BOOLEAN /\ stray' \in BOOLEAN
    BY <1>1, <1>2 DEF MfaTypes
  <2> QED BY <1>1, <1>2, <1>3, <1>4, <2>1 DEF MfaTypes
<1>6. FreshFactor'
  BY <1>1, <1>2, <1>3, <1>4 DEF FreshFactor, Vouches
<1>7. CodesServeOnce'
  BY <1>1, <1>2 DEF CodesServeOnce, Redeems, F!At
<1>8. GuessesCount'
  BY <1>1, <1>2, <1>3 DEF GuessesCount, F!At
<1>9. FactorBehind'
  BY <1>1, <1>2, <1>3 DEF FactorBehind, F!At
<1> QED BY <1>5, <1>6, <1>7, <1>8, <1>9 DEF MfaInv

\* A pending factor goes, and one is inserted where there is none, which no
\* request has seen.
LEMMA EnrollmentKeeps ==
    ASSUME MfaInv, mingled \subseteq mingled', Unmingled', NEW h \in Handlers,
           F!BeginEnroll(h) \/ F!EnrollTOTP(h)
    PROVE  MfaInv'
<1>1. /\ MfaTypes /\ Unmingled /\ FreshFactor
      /\ CodesServeOnce /\ GuessesCount /\ FactorBehind
  BY DEF MfaInv
<1>2. /\ UNCHANGED <<code, challenge, recent, redeemed, guesses, stray>>
      /\ factor.status # "active" /\ factor'.status # "active"
      /\ factor' \in FactorRows
      /\ factor'.status \in {"none", "pending"} => factor.status \in {"none", "pending"}
      /\ factor'.attempts = factor.attempts
  <2>1. CASE F!BeginEnroll(h)
    <3>1. CASE factor.status = "pending"
      <4>1. factor' = [factor EXCEPT !.status = "none"]
        BY <2>1, <3>1 DEF F!BeginEnroll
      <4> QED BY <1>1, <2>1, <3>1, <4>1 DEF F!BeginEnroll, F!ledger, MfaTypes, FactorRows
    <3>2. CASE factor' = factor
      BY <1>1, <2>1, <3>2 DEF F!BeginEnroll, F!ledger, MfaTypes, FactorRows
    <3> QED BY <2>1, <3>1, <3>2 DEF F!BeginEnroll
  <2>2. CASE F!EnrollTOTP(h)
    <3>1. factor.status = "none" /\ factor.attempts = 0
      BY <1>1, <2>2 DEF F!EnrollTOTP, FreshFactor
    <3>2. factor.id + 1 \in 0 .. MaxEnrolled /\ 0 \in F!Attempts
      BY <1>1, <2>2, WorkspaceAssumption
      DEF F!EnrollTOTP, F!MfaAssumption, F!Attempts, MfaTypes, FactorRows
    <3>3. factor' = [status |-> "pending", id |-> factor.id + 1, attempts |-> 0, locked |-> FALSE]
      BY <2>2 DEF F!EnrollTOTP
    <3> QED BY <2>2, <3>1, <3>2, <3>3 DEF F!EnrollTOTP, F!ledger, FactorRows
  <2> QED BY <2>1, <2>2
<1>3. PICK r \in F!Jobs :
        /\ phone' = [phone EXCEPT ![h] = r]
        /\ \/ r.step = "inserting"
           \/ r.step = "idle" /\ F!At(h, "inserting")
  <2>1. CASE F!BeginEnroll(h)
    <3>1. PICK r \in F!Jobs : r = [F!NoJob EXCEPT !.step = "inserting"] /\ r.step = "inserting"
      BY JobsBegin
    <3> QED BY <2>1, <3>1 DEF F!BeginEnroll, F!Begins
  <2>2. CASE F!EnrollTOTP(h)
    BY <2>2, JobsBegin DEF F!EnrollTOTP, F!Ends
  <2> QED BY <2>1, <2>2
<1>4. phone'[h] = r /\ \A z \in Handlers \ {h} : phone'[z] = phone[z]
  BY <1>1, <1>3 DEF MfaTypes
<1>5. MfaTypes'
  <2>1. recent' \in BOOLEAN /\ stray' \in BOOLEAN
    BY <1>1, <1>2 DEF MfaTypes
  <2> QED BY <1>1, <1>2, <1>3, <2>1 DEF MfaTypes
<1>6. FreshFactor'
  BY <1>1, <1>2, <1>3, <1>4 DEF FreshFactor, Vouches
<1>7. CodesServeOnce'
  BY <1>1, <1>2, <1>3, <1>4 DEF CodesServeOnce, Redeems, F!At
<1>8. GuessesCount'
  BY <1>1, <1>2, <1>3, <1>4 DEF GuessesCount, F!At
<1>9. FactorBehind'
  <2>1. "change" \notin mingled' => \A z \in Handlers \ {h} : ~F!At(z, "enlisting")
    BY <1>1, <1>3, <1>4 DEF Unmingled, Changes, F!Changing, F!At
  <2> QED BY <1>1, <1>2, <1>3, <1>4, <2>1 DEF FactorBehind, F!At
<1> QED BY <1>5, <1>6, <1>7, <1>8, <1>9 DEF MfaInv

\* Unless another request changed the factor, the row that is activated is the
\* one that the request has seen.
LEMMA ActivationKeeps ==
    ASSUME MfaInv, mingled \subseteq mingled', Unmingled', NEW h \in Handlers,
           NEW c \in Codes, F!VerifyEnrollment(h, c)
    PROVE  MfaInv'
<1>1. /\ MfaTypes /\ Unmingled /\ FreshFactor
      /\ CodesServeOnce /\ GuessesCount /\ FactorBehind
  BY DEF MfaInv
<1>2. /\ F!At(h, "enlisting") /\ code[c] = "absent" /\ code' = [code EXCEPT ![c] = "live"]
      /\ phone' = [phone EXCEPT ![h] = F!NoJob]
      /\ UNCHANGED <<challenge, recent, redeemed, stray>>
  BY DEF F!VerifyEnrollment, F!Ends
<1>3. /\ phone'[h].step = "idle" /\ \A z \in Handlers \ {h} : phone'[z] = phone[z]
      /\ code'[c] = "live" /\ \A d \in Codes \ {c} : code'[d] = code[d]
  BY <1>1, <1>2, JobsBegin DEF MfaTypes
<1>4. /\ factor' \in FactorRows
      /\ \/ UNCHANGED <<factor, guesses>>
         \/ /\ factor'.status = "active" /\ factor'.id = factor.id /\ factor'.attempts = 0
            /\ guesses' = 0
      /\ "change" \notin mingled => factor'.status = "active"
  <2>1. CASE factor.status # "none" /\ factor.id = phone[h].id
    <3>1. factor' = [factor EXCEPT !.status = "active", !.attempts = 0] /\ guesses' = 0
      BY <2>1 DEF F!VerifyEnrollment
    <3>2. 0 \in F!Attempts
      BY WorkspaceAssumption DEF F!MfaAssumption, F!Attempts
    <3> QED BY <1>1, <3>1, <3>2 DEF MfaTypes, FactorRows
  <2>2. CASE ~(factor.status # "none" /\ factor.id = phone[h].id)
    <3>1. UNCHANGED <<factor, guesses>>
      BY <2>2 DEF F!VerifyEnrollment
    <3> QED BY <1>1, <1>2, <2>2, <3>1 DEF MfaTypes, FactorBehind
  <2> QED BY <2>1, <2>2
<1>5. MfaTypes'
  <2>1. recent' \in BOOLEAN /\ stray' \in BOOLEAN
    BY <1>1, <1>2 DEF MfaTypes
  <2> QED BY <1>1, <1>2, <1>4, <2>1, JobsBegin DEF MfaTypes
<1>6. FreshFactor'
  BY <1>1, <1>2, <1>3, <1>4 DEF FreshFactor, Vouches
<1>7. CodesServeOnce'
  BY <1>1, <1>2, <1>3 DEF CodesServeOnce, Redeems, F!At
<1>8. GuessesCount'
  <2>1. "guess" \notin mingled => \A z \in Handlers \ {h} : ~F!At(z, "checking")
    BY <1>1, <1>2 DEF Unmingled, Guesses, F!At
  <2> QED BY <1>1, <1>3, <1>4, <2>1 DEF GuessesCount, F!At
<1>9. FactorBehind'
  <2>1. "change" \notin mingled => \A z \in Handlers \ {h} : ~F!At(z, "enlisting")
    BY <1>1, <1>2 DEF Unmingled, Changes, F!Changing, F!At
  <2> QED BY <1>3, <1>4, <2>1 DEF FactorBehind, F!At
<1> QED BY <1>5, <1>6, <1>7, <1>8, <1>9 DEF MfaInv

\* A code is used when it lets its user pass, or mingled.
LEMMA RedeemKeeps ==
    ASSUME MfaInv, mingled \subseteq mingled', Unmingled', NEW h \in Handlers,
           F!RedeemCode(h)
    PROVE  MfaInv'
<1>1. /\ MfaTypes /\ Unmingled /\ FreshFactor
      /\ CodesServeOnce /\ GuessesCount /\ FactorBehind
  BY DEF MfaInv
<1>2. PICK c \in Codes : c = phone[h].code
  BY <1>1 DEF F!RedeemCode, CodesServeOnce
<1>3. PICK n \in Nat : n = redeemed[c] + 1
  BY <1>1 DEF MfaTypes
<1>4. PICK step \in {"passed", "unmarked"} :
        /\ phone' = [phone EXCEPT ![h].step = step]
        /\ \/ step = "passed" /\ code' = [code EXCEPT ![c] = "used"]
           \/ step = "unmarked" /\ code' = code
  BY <1>2 DEF F!RedeemCode, F!Proceeds
<1>5. PICK r : r = [phone[h] EXCEPT !.step = step]
  OBVIOUS
<1>6. r \in F!Jobs /\ r.step = step /\ r.code = c
  BY <1>1, <1>2, <1>5 DEF MfaTypes, F!Jobs
<1>7. /\ F!At(h, "redeeming") /\ redeemed' = [redeemed EXCEPT ![c] = n]
      /\ phone' = [phone EXCEPT ![h] = r]
      /\ UNCHANGED <<factor, challenge, recent, guesses, stray>>
  BY <1>1, <1>2, <1>3, <1>4, <1>5 DEF F!RedeemCode, MfaTypes
<1>8. /\ phone'[h] = r /\ \A z \in Handlers \ {h} : phone'[z] = phone[z]
      /\ redeemed'[c] = n /\ \A d \in Codes \ {c} : redeemed'[d] = redeemed[d]
      /\ \A d \in Codes \ {c} : code'[d] = code[d]
      /\ step = "passed" => code'[c] = "used"
      /\ \A d \in Codes : code'[d] = "live" => code[d] = "live"
  BY <1>1, <1>4, <1>6, <1>7 DEF MfaTypes
<1>9. MfaTypes'
  <2>1. recent' \in BOOLEAN /\ stray' \in BOOLEAN
    BY <1>1, <1>7 DEF MfaTypes
  <2>2. code' \in [Codes -> {"absent", "live", "used"}]
    BY <1>1, <1>4 DEF MfaTypes
  <2> QED BY <1>1, <1>6, <1>7, <2>1, <2>2 DEF MfaTypes
<1>10. FreshFactor'
  <2>1. factor.status \notin {"none", "pending"}
    BY <1>1, <1>7 DEF FreshFactor, Vouches, F!At
  <2> QED BY <1>7, <2>1 DEF FreshFactor
<1>11. CodesServeOnce'
  <2>1. c \in mingled' \/
            /\ n = 1 /\ code'[c] = "used"
            /\ \A z \in Handlers : ~Redeems(z, c)'
    <3>1. SUFFICES ASSUME c \notin mingled'
                   PROVE  /\ n = 1 /\ code'[c] = "used"
                          /\ \A z \in Handlers : ~Redeems(z, c)'
      OBVIOUS
    <3>2. c \notin mingled /\ Redeems(h, c)
      BY <1>2, <1>7, <3>1 DEF Redeems
    <3>3. redeemed[c] = 0 /\ \A z \in Handlers \ {h} : ~Redeems(z, c)
      BY <1>1, <3>2 DEF CodesServeOnce, Unmingled
    <3>4. step # "unmarked"
      BY <1>6, <1>8, <3>1 DEF Unmingled, F!At
    <3>5. \A z \in Handlers : ~Redeems(z, c)'
      BY <1>6, <1>8, <3>3 DEF Redeems, F!At
    <3> QED BY <1>3, <1>8, <3>3, <3>4, <3>5
  <2>2. \A d \in Codes \ {c} : \A z \in Handlers : Redeems(z, d)' => Redeems(z, d)
    BY <1>6, <1>8 DEF Redeems, F!At
  <2>3. \A z \in Handlers : F!At(z, "redeeming")' => phone'[z].code \in Codes
    BY <1>1, <1>6, <1>8 DEF CodesServeOnce, F!At
  <2>4. ASSUME NEW d \in Codes \ mingled'
        PROVE  /\ redeemed'[d] <= 1
               /\ code'[d] # "used" => redeemed'[d] = 0
               /\ \A z \in Handlers : Redeems(z, d)' => redeemed'[d] = 0
    <3>1. CASE d = c
      BY <1>8, <2>1, <3>1
    <3>2. CASE d # c
      BY <1>1, <1>8, <2>2, <3>2 DEF CodesServeOnce
    <3> QED BY <3>1, <3>2
  <2> QED BY <2>3, <2>4 DEF CodesServeOnce
<1>12. GuessesCount'
  BY <1>1, <1>6, <1>7, <1>8 DEF GuessesCount, F!At
<1>13. FactorBehind'
  BY <1>1, <1>6, <1>7, <1>8 DEF FactorBehind, F!At
<1> QED BY <1>9, <1>10, <1>11, <1>12, <1>13 DEF MfaInv

\* A guess counts from what was read; a right one takes the count back.
LEMMA GuessKeeps ==
    ASSUME MfaInv, mingled \subseteq mingled', Unmingled', NEW h \in Handlers,
           F!RightCode(h) \/ F!WrongCode(h)
    PROVE  MfaInv'
<1>1. /\ MfaTypes /\ Unmingled /\ FreshFactor
      /\ CodesServeOnce /\ GuessesCount /\ FactorBehind
  BY DEF MfaInv
<1>2. /\ F!At(h, "checking")
      /\ UNCHANGED <<code, challenge, recent, redeemed, stray>>
  BY DEF F!RightCode, F!WrongCode
<1>3. PICK r \in F!Jobs :
        phone' = [phone EXCEPT ![h] = r] /\ r.step \in {"passed", "idle"}
  <2>1. CASE F!RightCode(h)
    <3>1. PICK r : r = [phone[h] EXCEPT !.step = "passed"]
      OBVIOUS
    <3>2. r \in F!Jobs /\ r.step = "passed"
      BY <1>1, <3>1 DEF MfaTypes, F!Jobs
    <3> QED BY <2>1, <3>1, <3>2 DEF F!RightCode, F!Proceeds
  <2>2. CASE F!WrongCode(h)
    BY <2>2, JobsBegin DEF F!WrongCode, F!Ends
  <2> QED BY <2>1, <2>2
<1>4. phone'[h] = r /\ \A z \in Handlers \ {h} : phone'[z] = phone[z]
  BY <1>1, <1>3 DEF MfaTypes
<1>5. /\ factor' \in FactorRows /\ guesses' \in Nat
      /\ factor'.status = factor.status /\ factor'.id = factor.id
      /\ "guess" \notin mingled => guesses' = factor'.attempts
  <2>1. CASE F!RightCode(h)
    <3>1. CASE factor' = [factor EXCEPT !.attempts = 0, !.locked = FALSE] /\ guesses' = 0
      <4>1. 0 \in F!Attempts
        BY WorkspaceAssumption DEF F!MfaAssumption, F!Attempts
      <4> QED BY <1>1, <3>1, <4>1 DEF MfaTypes, FactorRows
    <3>2. CASE UNCHANGED <<factor, guesses>>
      BY <1>1, <3>2 DEF MfaTypes, GuessesCount
    <3> QED BY <2>1, <3>1, <3>2 DEF F!RightCode
  <2>2. CASE F!WrongCode(h)
    <3>1. PICK n \in F!Attempts : n = phone[h].attempts + 1
      BY <2>2 DEF F!WrongCode
    <3>2. factor' = [factor EXCEPT !.attempts = n, !.locked = factor.locked \/ n >= MaxFailed]
      BY <2>2, <3>1 DEF F!WrongCode
    <3>3. guesses' = guesses + 1
      BY <2>2 DEF F!WrongCode
    <3>4. (factor.locked \/ n >= MaxFailed) \in BOOLEAN
      OBVIOUS
    <3>5. factor' \in FactorRows
      BY <1>1, <3>2, <3>4 DEF MfaTypes, FactorRows
    <3>6. factor'.status = factor.status /\ factor'.id = factor.id /\ factor'.attempts = n
      BY <1>1, <3>2 DEF MfaTypes, FactorRows
    <3> QED BY <1>1, <1>2, <3>1, <3>3, <3>5, <3>6 DEF MfaTypes, GuessesCount
  <2> QED BY <2>1, <2>2
<1>6. MfaTypes'
  <2>1. recent' \in BOOLEAN /\ stray' \in BOOLEAN
    BY <1>1, <1>2 DEF MfaTypes
  <2> QED BY <1>1, <1>2, <1>3, <1>5, <2>1 DEF MfaTypes
<1>7. FreshFactor'
  <2>1. factor.status \notin {"none", "pending"}
    BY <1>1, <1>2 DEF FreshFactor, Vouches, F!At
  <2> QED BY <1>5, <2>1 DEF FreshFactor
<1>8. CodesServeOnce'
  BY <1>1, <1>2, <1>3, <1>4 DEF CodesServeOnce, Redeems, F!At
<1>9. GuessesCount'
  <2>1. "guess" \notin mingled => \A z \in Handlers \ {h} : ~F!At(z, "checking")
    BY <1>1, <1>2 DEF Unmingled, Guesses, F!At
  <2> QED BY <1>3, <1>4, <1>5, <2>1 DEF GuessesCount, F!At
<1>10. FactorBehind'
  BY <1>1, <1>2, <1>3, <1>4, <1>5 DEF FactorBehind, F!At
<1> QED BY <1>6, <1>7, <1>8, <1>9, <1>10 DEF MfaInv

\* A verification without an active factor strays.
LEMMA VerificationKeeps ==
    ASSUME MfaInv, mingled \subseteq mingled', Unmingled', NEW h \in Handlers,
           F!VerifyChallenge(h)
    PROVE  MfaInv'
<1>1. /\ MfaTypes /\ Unmingled /\ FreshFactor
      /\ CodesServeOnce /\ GuessesCount /\ FactorBehind
  BY DEF MfaInv
<1>2. /\ F!At(h, "passed") \/ F!At(h, "unmarked")
      /\ recent' = TRUE /\ stray' = (stray \/ factor.status # "active")
      /\ phone' = [phone EXCEPT ![h] = F!NoJob]
      /\ UNCHANGED <<factor, code, redeemed, guesses>>
  BY DEF F!VerifyChallenge, F!Ends
<1>3. phone'[h].step = "idle" /\ \A z \in Handlers \ {h} : phone'[z] = phone[z]
  BY <1>1, <1>2, JobsBegin DEF MfaTypes
<1>4. challenge' \in [Challenges -> {"absent", "open", "verified"}]
  BY <1>1 DEF F!VerifyChallenge, MfaTypes
<1>5. MfaTypes'
  <2>1. recent' \in BOOLEAN /\ stray' \in BOOLEAN
    BY <1>2
  <2> QED BY <1>1, <1>2, <1>4, <2>1, JobsBegin DEF MfaTypes
<1>6. FreshFactor'
  <2>1. factor.status \notin {"none", "pending"}
    BY <1>1, <1>2 DEF FreshFactor, Vouches, F!At
  <2> QED BY <1>2, <2>1 DEF FreshFactor
<1>7. CodesServeOnce'
  BY <1>1, <1>2, <1>3 DEF CodesServeOnce, Redeems, F!At
<1>8. GuessesCount'
  BY <1>1, <1>2, <1>3 DEF GuessesCount, F!At
<1>9. FactorBehind'
  BY <1>1, <1>2, <1>3 DEF FactorBehind, F!At
<1> QED BY <1>5, <1>6, <1>7, <1>8, <1>9 DEF MfaInv

\* The codes are renewed by one who had a verification; disabling takes all.
LEMMA RenewalKeeps ==
    ASSUME MfaInv, mingled \subseteq mingled', Unmingled', NEW h \in Handlers,
           \/ F!ExpireCodes(h) \/ F!DisableFactor(h)
           \/ \E c \in Codes : F!RegenerateRecoveryCodes(h, c)
    PROVE  MfaInv'
<1>1. /\ MfaTypes /\ Unmingled /\ FreshFactor
      /\ CodesServeOnce /\ GuessesCount /\ FactorBehind
  BY DEF MfaInv
<1>2. UNCHANGED <<challenge, redeemed, guesses, stray>>
  BY DEF F!ExpireCodes, F!DisableFactor, F!RegenerateRecoveryCodes, F!ledger
<1>3. /\ code' \in [Codes -> {"absent", "live", "used"}]
      /\ \A c \in Codes : code'[c] # "used" => code[c] # "used"
  <2>1. CASE code' = code \/ code' = F!UsedUp
    BY <1>1, <2>1 DEF F!UsedUp, MfaTypes
  <2>2. ASSUME NEW c \in Codes, F!RegenerateRecoveryCodes(h, c)
        PROVE  code[c] = "absent" /\ code' = [code EXCEPT ![c] = "live"]
    BY <2>2 DEF F!RegenerateRecoveryCodes
  <2> QED BY <1>1, <2>1, <2>2 DEF F!ExpireCodes, F!DisableFactor, MfaTypes
<1>4. PICK r \in F!Jobs :
        /\ phone' = [phone EXCEPT ![h] = r]
        /\ r.step = "idle" \/ (F!ExpireCodes(h) /\ r.step = "renewing")
  <2>1. CASE F!ExpireCodes(h)
    <3>1. PICK r : r = [phone[h] EXCEPT !.step = "renewing"]
      OBVIOUS
    <3>2. r \in F!Jobs /\ r.step = "renewing"
      BY <1>1, <3>1 DEF MfaTypes, F!Jobs
    <3> QED BY <2>1, <3>1, <3>2 DEF F!ExpireCodes, F!Proceeds
  <2>2. CASE phone' = [phone EXCEPT ![h] = F!NoJob]
    BY <2>2, JobsBegin
  <2> QED BY <2>1, <2>2 DEF F!DisableFactor, F!RegenerateRecoveryCodes, F!Ends
<1>5. phone'[h] = r /\ \A z \in Handlers \ {h} : phone'[z] = phone[z]
  BY <1>1, <1>4 DEF MfaTypes
<1>6. /\ factor' \in FactorRows
      /\ factor'.attempts = factor.attempts /\ factor'.id = factor.id
      /\ \/ UNCHANGED <<factor, recent>>
         \/ /\ factor'.status = "disabled" /\ recent' = FALSE /\ F!At(h, "disabling")
            /\ code' = F!UsedUp
  <2>1. CASE F!DisableFactor(h)
    <3>1. factor' = [factor EXCEPT !.status = "disabled"]
      BY <2>1 DEF F!DisableFactor
    <3> QED BY <1>1, <2>1, <3>1 DEF F!DisableFactor, MfaTypes, FactorRows
  <2>2. CASE UNCHANGED <<factor, recent>>
    BY <1>1, <2>2 DEF MfaTypes
  <2> QED BY <2>1, <2>2 DEF F!ExpireCodes, F!RegenerateRecoveryCodes
<1>7. MfaTypes'
  <2>1. recent' \in BOOLEAN /\ stray' \in BOOLEAN
    BY <1>1, <1>2, <1>6 DEF MfaTypes
  <2> QED BY <1>1, <1>2, <1>3, <1>4, <1>6, <2>1 DEF MfaTypes
<1>8. FreshFactor'
  BY <1>1, <1>2, <1>4, <1>5, <1>6 DEF FreshFactor, Vouches
<1>9. CodesServeOnce'
  BY <1>1, <1>2, <1>3, <1>4, <1>5 DEF CodesServeOnce, Redeems, F!At
<1>10. GuessesCount'
  BY <1>1, <1>2, <1>4, <1>5, <1>6 DEF GuessesCount, F!At
<1>11. FactorBehind'
  <2>1. CASE factor'.status = "disabled" /\ recent' = FALSE /\ F!At(h, "disabling")
             /\ code' = F!UsedUp
    <3>1. "change" \notin mingled => \A z \in Handlers \ {h} :
            ~F!At(z, "enlisting") /\ ~F!At(z, "regenerating") /\ ~F!At(z, "renewing")
      BY <1>1, <2>1 DEF Unmingled, Changes, F!Changing, F!At
    <3>2. \A c \in Codes : code'[c] # "live"
      BY <1>1, <2>1 DEF F!UsedUp
    <3>3. r.step = "idle"
      BY <1>4, <2>1 DEF F!ExpireCodes, F!At
    <3> QED BY <1>5, <2>1, <3>1, <3>2, <3>3 DEF FactorBehind, F!At
  <2>2. CASE UNCHANGED <<factor, recent>>
    <3>1. F!At(h, "regenerating") \/ F!At(h, "renewing") \/ code' = F!UsedUp
      BY DEF F!ExpireCodes, F!DisableFactor, F!RegenerateRecoveryCodes
    <3>2. ASSUME F!At(h, "regenerating") \/ F!At(h, "renewing"), "change" \notin mingled
          PROVE  stray \/ factor.status = "active"
      BY <1>1, <3>2 DEF FactorBehind, F!At
    <3>3. ASSUME code' = F!UsedUp
          PROVE  \A c \in Codes : code'[c] # "live"
      BY <1>1, <3>3 DEF F!UsedUp
    <3>4. F!ExpireCodes(h) => F!At(h, "regenerating")
      BY DEF F!ExpireCodes
    <3> QED BY <1>1, <1>2, <1>4, <1>5, <2>2, <3>1, <3>2, <3>3, <3>4 DEF FactorBehind, F!At
  <2> QED BY <1>6, <2>1, <2>2
<1> QED BY <1>7, <1>8, <1>9, <1>10, <1>11 DEF MfaInv

\* The factor keeps its invariant, whatever else is explored.
LEMMA MfaInvariant == Spec => []MfaInv
<1>1. Init => MfaInv
  <2> SUFFICES ASSUME Init
               PROVE  MfaInv
    OBVIOUS
  <2>1. F!FInit
    BY DEF Init
  <2>2. \A h \in Handlers : phone[h].step = "idle"
    BY <2>1, JobsBegin DEF F!FInit
  <2>3. MfaTypes
    <3>1. 0 \in F!Attempts /\ 0 \in 0 .. MaxEnrolled
      BY WorkspaceAssumption DEF F!MfaAssumption, F!Attempts
    <3>2. factor \in FactorRows
      BY <2>1, <3>1 DEF F!FInit, FactorRows
    <3> QED BY <2>1, <3>2, JobsBegin DEF F!FInit, MfaTypes
  <2>4. Unmingled
    BY <2>2 DEF Unmingled, Redeems, Guesses, Changes, F!Changing, F!At
  <2>5. FreshFactor /\ CodesServeOnce
    BY <2>1, <2>2 DEF F!FInit, FreshFactor, CodesServeOnce, Vouches, Redeems, F!At
  <2>6. GuessesCount /\ FactorBehind
    BY <2>1, <2>2 DEF F!FInit, GuessesCount, FactorBehind, F!At
  <2> QED BY <2>3, <2>4, <2>5, <2>6 DEF MfaInv
<1>2. MfaInv /\ [Next]_vars => MfaInv'
  <2> SUFFICES ASSUME MfaInv, [Next]_vars
               PROVE  MfaInv'
    OBVIOUS
  <2>1. CASE UNCHANGED mfa
    BY <2>1 DEF MfaInv, MfaTypes, Unmingled, FreshFactor, CodesServeOnce, GuessesCount,
                FactorBehind, Redeems, Guesses, Changes, Vouches, F!At, mfa
  <2>2. CASE F!FNext
    <3>1. mingled \subseteq mingled' /\ Unmingled' /\ F!FStep
      BY <2>2, StepsMingle DEF F!FNext
    <3>2. CASE F!ForgetRecent \/ F!Unlock \/ \E n \in Challenges : F!CreateChallenge(n)
      BY <3>1, <3>2, RowsMove
    <3>3. ASSUME NEW h \in Handlers,
                 \/ F!BeginVerifyEnrollment(h) \/ F!ReadFactor(h)
                 \/ \E c \in Codes : F!ReadCode(h, c)
                 \/ \E n \in Challenges : F!BeginVerify(h, n)
                 \/ F!BeginRegenerate(h) \/ F!BeginDisable(h) \/ F!Refuse(h)
          PROVE  MfaInv'
      BY <3>1, <3>3, RequestMoves
    <3>4. ASSUME NEW h \in Handlers,
                 \/ F!BeginEnroll(h) \/ F!EnrollTOTP(h) \/ F!RedeemCode(h)
                 \/ F!RightCode(h) \/ F!WrongCode(h) \/ F!VerifyChallenge(h)
                 \/ \E c \in Codes : F!VerifyEnrollment(h, c)
          PROVE  MfaInv'
      BY <3>1, <3>4, EnrollmentKeeps, ActivationKeeps, RedeemKeeps, GuessKeeps, VerificationKeeps
    <3>5. ASSUME NEW h \in Handlers,
                 \/ F!ExpireCodes(h) \/ F!DisableFactor(h)
                 \/ \E c \in Codes : F!RegenerateRecoveryCodes(h, c)
          PROVE  MfaInv'
      BY <3>1, <3>5, RenewalKeeps
    <3> QED BY <3>1, <3>2, <3>3, <3>4, <3>5 DEF F!FStep
  <2> QED BY <2>1, <2>2, OneAtATime
<1> QED BY <1>1, <1>2, PTL DEF Spec

\* A recovery code and a ceremony serve once, every wrong guess and every
\* signature counts, what only an active factor earns has one behind it, and a
\* disabled key lets nobody pass: unless the requests concerned overlapped
\* (VerifyChallenge, DisableFactor, AuthenticateFinish, DisableCredential).
THEOREM SecondFactorIsSound == Spec => []SecondFactorSound
<1>1. MfaInv => F!MfaSound
  <2> SUFFICES ASSUME MfaInv
               PROVE  F!MfaSound
    OBVIOUS
  <2>1. /\ \A c \in Codes \ mingled : redeemed[c] <= 1
        /\ "guess" \in mingled \/ guesses = factor.attempts
    BY DEF MfaInv, CodesServeOnce, GuessesCount
  <2>2. recent \/ (\E c \in Codes : code[c] = "live") =>
            factor.status = "active" \/ "change" \in mingled \/ stray
    BY DEF MfaInv, FactorBehind
  <2> QED BY <2>1, <2>2 DEF F!MfaSound
<1>2. SecurityKeysInv => K!KeysSound
  BY DEF SecurityKeysInv, CeremoniesServeOnce, RecordsAreDue, Records, K!KeysSound
<1>3. MfaInv /\ SecurityKeysInv => SecondFactorSound
  BY <1>1, <1>2 DEF SecondFactorSound
<1> QED BY <1>3, MfaInvariant, SecurityKeysInvariant, PTL

-----------------------------------------------------------------------------
(* Sessions *)

TokenRows ==
    [session : SessionIds \cup {Nil}, replaced : TokenIds \cup {Nil}, revoked : BOOLEAN]

SessionTypes ==
    /\ password \in 0 .. MaxPassword
    /\ session \in [SessionIds -> {"absent", "open", "revoked"}]
    /\ token \in [TokenIds -> TokenRows]
    /\ reset \in [ResetIds -> {"absent", "issued", "used"}]
    /\ browser \in [Handlers -> S!Jobs]
    /\ opened \in [SessionIds -> Nat] /\ floor \in Nat
    /\ resets \in [ResetIds -> Nat]

\* What a request needs for its next step it has read, and it is there.
BrowsersSound ==
    /\ \A h \in Handlers :
        /\ browser[h].step \in {"opened", "rotating", "linking", "reused", "disowned",
                                "lost", "revoking"} => browser[h].session # Nil
        /\ browser[h].step \in {"rotating", "linking"} => browser[h].token # Nil
        /\ browser[h].step = "linking" => browser[h].new # Nil
        /\ browser[h].step = "verified" => browser[h].token = Nil
        /\ browser[h].step = "resetting" <=> browser[h].reset # Nil
        /\ browser[h].session # Nil => session[browser[h].session] # "absent"
        /\ browser[h].token # Nil =>
            browser[h].session # Nil /\ token[browser[h].token].session = browser[h].session
    /\ \A t \in TokenIds :
        token[t].session # Nil => session[token[t].session] # "absent"

\* What did not fray, no request ended while another added to it.
Unfrayed ==
    \A s \in SessionIds \ frayed, h \in Handlers :
        /\ S!Adds(h, s) => \A z \in Handlers : ~S!Closes(z, s)
        /\ browser[h].session = s => ~S!At(h, "lost")
        /\ browser[h].session = s /\ S!At(h, "opened") => ~(browser[h].password < floor)

\* Of an ended session, or one that is about to be, every token is revoked; a
\* request adds to an open one.
Shut(s) == \A t \in TokenIds : token[t].session = s => token[t].revoked
EndsSound ==
    \A s \in SessionIds \ frayed :
        /\ session[s] = "revoked" => Shut(s)
        /\ session[s] = "open" => opened[s] >= floor
        /\ \A h \in Handlers :
            /\ S!Adds(h, s) => session[s] = "open"
            /\ S!At(h, "disowned") /\ browser[h].session = s => Shut(s)
            /\ S!At(h, "left") /\ session[s] = "open" => Shut(s)

\* The tokens of a session are a line: one of them at most can be refreshed and
\* is not about to be linked to its successor, one request at most adds to the
\* line, and does so to that token, or to none at all.
Foremost(t, s) ==
    /\ token[t].session = s /\ S!Usable(t)
    /\ \A h \in Handlers : ~(S!At(h, "linking") /\ browser[h].token = t)
RefreshSound ==
    \A s \in SessionIds \ forked :
        /\ \A h, z \in Handlers :
            /\ browser[h].session = s /\ browser[h].token # Nil
               /\ browser[h].token = browser[z].token => h = z
            /\ S!Adds(h, s) /\ S!Adds(z, s) => h = z
        /\ \A h \in Handlers : browser[h].session = s =>
            /\ S!At(h, "opened") => \A t \in TokenIds : token[t].session # s
            /\ S!At(h, "rotating") => \A t \in TokenIds : Foremost(t, s) => t = browser[h].token
        /\ \A t, u \in TokenIds : Foremost(t, s) /\ Foremost(u, s) => t = u

\* A reset token serves the one request that has read it.
ResetsSound ==
    \A r \in ResetIds \ rushed :
        /\ resets[r] <= 1
        /\ reset[r] # "used" => resets[r] = 0
        /\ \A h \in Handlers : browser[h].reset = r => resets[r] = 0
        /\ \A h, z \in Handlers : browser[h].reset = r /\ browser[z].reset = r => h = z

SessionsInv ==
    /\ SessionTypes /\ BrowsersSound /\ Unfrayed
    /\ EndsSound /\ RefreshSound /\ ResetsSound

\* What is no session is none.
LEMMA NilIsNothing == Nil \notin SessionIds /\ Nil \notin TokenIds /\ Nil \notin ResetIds
BY WorkspaceAssumption DEF S!SessionsAssumption

\* Sessions that requests end and add to at once fray.
LEMMA StepsFray ==
    ASSUME S!SNext
    PROVE  frayed \subseteq frayed' /\ Unfrayed'
<1>1. frayed' = frayed \cup S!Fraying'
  BY DEF S!SNext
<1>2. ASSUME NEW s \in SessionIds \ frayed', NEW h \in Handlers
      PROVE  /\ S!Adds(h, s)' => \A z \in Handlers : ~S!Closes(z, s)'
             /\ browser'[h].session = s => ~S!At(h, "lost")'
             /\ browser'[h].session = s /\ S!At(h, "opened")' => ~(browser'[h].password < floor')
  <2>1. s \notin S!Fraying'
    BY <1>1, <1>2
  <2> QED BY <2>1 DEF S!Fraying
<1> QED BY <1>1, <1>2 DEF Unfrayed

\* A line of tokens stays one when some are revoked, and when requests leave.
LEMMA LinesKeep ==
    ASSUME SessionsInv, forked \subseteq forked',
           \A t \in TokenIds :
                /\ token'[t].session = token[t].session
                /\ token'[t].replaced = token[t].replaced
                /\ token[t].revoked => token'[t].revoked,
           \A z \in Handlers :
                \/ browser'[z] = browser[z]
                \/ /\ browser'[z].step \notin {"opened", "rotating", "linking"}
                   /\ browser'[z].token = Nil \/ browser'[z].token = browser[z].token
                   /\ browser'[z].token # Nil => browser'[z].session = browser[z].session
                   /\ browser[z].step = "linking" => browser[z].session \in forked'
    PROVE  RefreshSound'
<1>1. SessionTypes /\ BrowsersSound /\ RefreshSound
  BY DEF SessionsInv
<1>2. ASSUME NEW s \in SessionIds \ forked', NEW t \in TokenIds, Foremost(t, s)'
      PROVE  Foremost(t, s)
  <2>1. token[t].session = s /\ S!Usable(t)
    BY <1>1, <1>2 DEF Foremost, S!Usable, S!Valid, S!Issued
  <2>2. ASSUME NEW z \in Handlers, S!At(z, "linking"), browser[z].token = t
        PROVE  FALSE
    <3>1. browser[z].session = s
      BY <1>1, <2>1, <2>2, NilIsNothing DEF BrowsersSound
    <3>2. browser'[z] = browser[z]
      BY <1>2, <2>2, <3>1 DEF S!At
    <3> QED BY <1>2, <2>2, <3>2 DEF Foremost, S!At
  <2> QED BY <2>1, <2>2 DEF Foremost
<1>3. \A s \in SessionIds, z \in Handlers :
        /\ S!Adds(z, s)' => S!Adds(z, s) /\ browser'[z] = browser[z]
        /\ (S!At(z, "opened") \/ S!At(z, "rotating"))' => browser'[z] = browser[z]
  BY DEF S!Adds, S!At
<1>4. \A s \in SessionIds, z \in Handlers :
        browser'[z].token # Nil =>
            browser'[z].token = browser[z].token /\ browser'[z].session = browser[z].session
  OBVIOUS
<1>5. ASSUME NEW s \in SessionIds \ forked'
      PROVE  /\ \A h, z \in Handlers :
                /\ browser'[h].session = s /\ browser'[h].token # Nil
                   /\ browser'[h].token = browser'[z].token => h = z
                /\ S!Adds(h, s)' /\ S!Adds(z, s)' => h = z
             /\ \A h \in Handlers : browser'[h].session = s =>
                /\ S!At(h, "opened")' => \A t \in TokenIds : token'[t].session # s
                /\ S!At(h, "rotating")' => \A t \in TokenIds : Foremost(t, s)' => t = browser'[h].token
             /\ \A t, u \in TokenIds : Foremost(t, s)' /\ Foremost(u, s)' => t = u
  <2>1. s \notin forked
    BY <1>5
  <2>2. \A h, z \in Handlers :
            /\ browser'[h].session = s /\ browser'[h].token # Nil
               /\ browser'[h].token = browser'[z].token => h = z
            /\ S!Adds(h, s)' /\ S!Adds(z, s)' => h = z
    BY <1>1, <1>3, <1>4, <2>1 DEF RefreshSound
  <2>3. ASSUME NEW h \in Handlers, browser'[h].session = s
        PROVE  /\ S!At(h, "opened")' => \A t \in TokenIds : token'[t].session # s
               /\ S!At(h, "rotating")' => \A t \in TokenIds : Foremost(t, s)' => t = browser'[h].token
    BY <1>1, <1>2, <1>3, <2>1, <2>3 DEF RefreshSound, S!At
  <2>4. \A t, u \in TokenIds : Foremost(t, s)' /\ Foremost(u, s)' => t = u
    BY <1>1, <1>2, <2>1 DEF RefreshSound
  <2> QED BY <2>2, <2>3, <2>4
<1> QED BY <1>5 DEF RefreshSound

\* Nothing changes for a reset token that no request reads or uses.
LEMMA ResetsKeep ==
    ASSUME ResetsSound, resets' = resets, rushed \subseteq rushed',
           \A r \in ResetIds : reset'[r] # "used" => reset[r] # "used",
           \A z \in Handlers : browser'[z].reset = Nil \/ browser'[z].reset = browser[z].reset
    PROVE  ResetsSound'
<1>1. \A r \in ResetIds, z \in Handlers : browser'[z].reset = r => browser[z].reset = r
  BY NilIsNothing
<1> QED BY <1>1 DEF ResetsSound

\* A request that begins, is refused or loses a statement keeps what is known of
\* it; the rest is as it was.
LEMMA BrowserKeeps ==
    ASSUME SessionsInv, Unfrayed', frayed \subseteq frayed', NEW h \in Handlers, NEW r \in S!Jobs,
           browser' = [browser EXCEPT ![h] = r],
           UNCHANGED <<password, session, token, opened, floor, resets>>,
           reset' \in [ResetIds -> {"absent", "issued", "used"}],
           r.step \notin {"opened", "disowned", "left", "linking"},
           r.step \in {"rotating", "reused", "lost", "revoking"} => r.session # Nil,
           r.step = "rotating" => r.token # Nil /\ S!Valid(r.token),
           r.step = "verified" => r.token = Nil,
           r.step = "resetting" <=> r.reset # Nil,
           r.session # Nil => session[r.session] # "absent",
           r.token # Nil => r.session # Nil /\ token[r.token].session = r.session
    PROVE  SessionTypes' /\ BrowsersSound' /\ EndsSound'
<1>1. SessionTypes /\ BrowsersSound /\ EndsSound
  BY DEF SessionsInv
<1>2. browser'[h] = r /\ \A z \in Handlers \ {h} : browser'[z] = browser[z]
  BY <1>1 DEF SessionTypes
<1>3. SessionTypes'
  BY <1>1 DEF SessionTypes
<1>4. BrowsersSound'
  BY <1>1, <1>2 DEF BrowsersSound
<1>5. ASSUME NEW s \in SessionIds \ frayed'
      PROVE  /\ session'[s] = "revoked" => Shut(s)'
             /\ session'[s] = "open" => opened'[s] >= floor'
             /\ \A z \in Handlers :
                /\ S!Adds(z, s)' => session'[s] = "open"
                /\ S!At(z, "disowned")' /\ browser'[z].session = s => Shut(s)'
                /\ S!At(z, "left")' /\ session'[s] = "open" => Shut(s)'
  <2>1. Shut(s)' <=> Shut(s)
    BY DEF Shut
  <2>2. s \in SessionIds \ frayed
    BY <1>5
  <2>3. ASSUME S!Adds(h, s)'
        PROVE  session[s] = "open"
    <3>1. r.step = "rotating" /\ r.session = s
      BY <1>2, <2>3 DEF S!Adds
    <3>2. r.token \in TokenIds /\ token[r.token].session = s /\ ~token[r.token].revoked
      BY <3>1, NilIsNothing DEF S!Jobs, S!Valid
    <3>3. session[s] # "revoked"
      BY <1>1, <2>2, <3>2 DEF EndsSound, Shut
    <3> QED BY <1>1, <3>1, <3>3, NilIsNothing DEF SessionTypes
  <2> QED BY <1>1, <1>2, <2>1, <2>2, <2>3 DEF EndsSound, S!Adds, S!At
<1>6. EndsSound'
  BY <1>5 DEF EndsSound
<1> QED BY <1>3, <1>4, <1>6

\* A request with nothing but a step to take is of its type.
LEMMA VisitsBegin ==
    /\ S!NoJob \in S!Jobs /\ S!NoJob.step = "idle"
    /\ S!NoJob.session = Nil /\ S!NoJob.token = Nil /\ S!NoJob.reset = Nil
BY WorkspaceAssumption DEF S!NoJob, S!Jobs, S!SessionsAssumption

\* Signing in, revoking and giving up leave the lines and the reset tokens.
LEMMA VisitsMove ==
    ASSUME SessionsInv, Unfrayed', frayed \subseteq frayed', NEW h \in Handlers,
           \/ S!BeginLogin(h) \/ S!LoseRevokeFamily(h) \/ S!GiveUp(h)
           \/ \E s \in SessionIds : S!BeginRevoke(h, s)
    PROVE  SessionsInv'
<1>1. SessionTypes /\ BrowsersSound /\ EndsSound /\ ResetsSound
  BY DEF SessionsInv
<1>2. PICK r \in S!Jobs :
        /\ browser' = [browser EXCEPT ![h] = r]
        /\ r.step \in {"verified", "idle"} \/ (r.step \in {"lost", "revoking"} /\ r.session # Nil)
        /\ r.reset = Nil /\ (r.step = "verified" => r.token = Nil)
        /\ r.session # Nil => session[r.session] # "absent"
        /\ r.token # Nil => /\ r.session # Nil /\ token[r.token].session = r.session
                            /\ r.token = browser[h].token /\ r.session = browser[h].session
        /\ browser[h].step = "linking" => S!GiveUp(h)
  <2>1. CASE S!BeginLogin(h)
    <3>1. PICK r : r = [S!NoJob EXCEPT !.step = "verified", !.password = password]
      OBVIOUS
    <3>2. r \in S!Jobs /\ r.step = "verified" /\ r.session = Nil /\ r.token = Nil /\ r.reset = Nil
      BY <1>1, <3>1, VisitsBegin DEF SessionTypes, S!Jobs
    <3>3. browser' = [browser EXCEPT ![h] = r] /\ browser[h].step = "idle"
      BY <2>1, <3>1 DEF S!BeginLogin, S!Begins, S!At
    <3> QED BY <3>2, <3>3
  <2>2. CASE S!LoseRevokeFamily(h)
    <3>1. PICK r : r = [browser[h] EXCEPT !.step = "lost"]
      OBVIOUS
    <3>2. /\ r \in S!Jobs /\ r.step = "lost" /\ r.session = browser[h].session
          /\ r.token = browser[h].token /\ r.reset = browser[h].reset
      BY <1>1, <3>1 DEF SessionTypes, S!Jobs
    <3>3. browser' = [browser EXCEPT ![h] = r] /\ browser[h].step = "reused"
      BY <2>2, <3>1 DEF S!LoseRevokeFamily, S!Proceeds, S!At
    <3> QED BY <1>1, <3>2, <3>3 DEF BrowsersSound
  <2>3. CASE S!GiveUp(h)
    <3>1. browser' = [browser EXCEPT ![h] = S!NoJob]
      BY <2>3 DEF S!GiveUp, S!Ends
    <3> QED BY <2>3, <3>1, VisitsBegin
  <2>4. CASE \E s \in SessionIds : S!BeginRevoke(h, s)
    <3>1. PICK s \in SessionIds : S!BeginRevoke(h, s)
      BY <2>4
    <3>2. PICK r : r = [S!NoJob EXCEPT !.step = "revoking", !.session = s]
      OBVIOUS
    <3>3. r \in S!Jobs /\ r.step = "revoking" /\ r.session = s /\ r.token = Nil /\ r.reset = Nil
      BY <3>2, VisitsBegin DEF S!Jobs
    <3>4. /\ browser' = [browser EXCEPT ![h] = r] /\ browser[h].step = "idle"
          /\ session[s] # "absent"
      BY <3>1, <3>2 DEF S!BeginRevoke, S!Begins, S!At
    <3> QED BY <3>3, <3>4, NilIsNothing
  <2> QED BY <2>1, <2>2, <2>3, <2>4
<1>3. /\ UNCHANGED <<password, session, token, reset, opened, floor, resets, rushed>>
      /\ forked' = forked \/ (S!GiveUp(h) /\ forked' =
            IF S!At(h, "linking") THEN forked \cup {browser[h].session} ELSE forked)
  BY DEF S!BeginLogin, S!LoseRevokeFamily, S!GiveUp, S!BeginRevoke, S!rows, S!history
<1>4. browser'[h] = r /\ \A z \in Handlers \ {h} : browser'[z] = browser[z]
  BY <1>1, <1>2 DEF SessionTypes
<1>5. SessionTypes' /\ BrowsersSound' /\ EndsSound'
  <2>1. /\ reset' \in [ResetIds -> {"absent", "issued", "used"}]
        /\ UNCHANGED <<password, session, token, opened, floor, resets>>
    BY <1>1, <1>3 DEF SessionTypes
  <2>2. /\ r.step \notin {"opened", "disowned", "left", "linking"}
        /\ r.step \in {"rotating", "reused", "lost", "revoking"} => r.session # Nil
        /\ r.step = "rotating" => r.token # Nil /\ S!Valid(r.token)
        /\ r.step = "verified" => r.token = Nil
        /\ r.step = "resetting" <=> r.reset # Nil
        /\ r.session # Nil => session[r.session] # "absent"
        /\ r.token # Nil => r.session # Nil /\ token[r.token].session = r.session
    BY <1>2
  <2> QED BY <1>2, <2>1, <2>2, BrowserKeeps
<1>6. RefreshSound'
  <2>1. /\ forked \subseteq forked'
        /\ browser[h].step = "linking" => browser[h].session \in forked'
    BY <1>2, <1>3 DEF S!GiveUp, S!At
  <2>2. \A t \in TokenIds :
            /\ token'[t].session = token[t].session
            /\ token'[t].replaced = token[t].replaced
            /\ token[t].revoked => token'[t].revoked
    BY <1>3
  <2>3. \A z \in Handlers :
            \/ browser'[z] = browser[z]
            \/ /\ browser'[z].step \notin {"opened", "rotating", "linking"}
               /\ browser'[z].token = Nil \/ browser'[z].token = browser[z].token
               /\ browser'[z].token # Nil => browser'[z].session = browser[z].session
               /\ browser[z].step = "linking" => browser[z].session \in forked'
    BY <1>2, <1>4, <2>1
  <2> QED BY <2>1, <2>2, <2>3, LinesKeep
<1>7. ResetsSound'
  <2>1. \A z \in Handlers : browser'[z].reset = Nil \/ browser'[z].reset = browser[z].reset
    BY <1>2, <1>4
  <2> QED BY <1>1, <1>3, <2>1, ResetsKeep
<1> QED BY <1>5, <1>6, <1>7 DEF SessionsInv

\* A reset token that another request has read is rushed; one that was used is
\* not read.
LEMMA ResetBegins ==
    ASSUME SessionsInv, Unfrayed', frayed \subseteq frayed', NEW h \in Handlers,
           NEW x \in ResetIds, S!BeginReset(h, x)
    PROVE  SessionsInv'
<1>1. SessionTypes /\ BrowsersSound /\ ResetsSound
  BY DEF SessionsInv
<1>2. PICK r : r = [S!NoJob EXCEPT !.step = "resetting", !.reset = x]
  OBVIOUS
<1>3. /\ r \in S!Jobs /\ r.step = "resetting" /\ r.reset = x
      /\ r.session = Nil /\ r.token = Nil
  BY <1>2, VisitsBegin DEF S!Jobs
<1>4. /\ browser[h].step = "idle" /\ reset[x] = "issued"
      /\ browser' = [browser EXCEPT ![h] = r]
      /\ rushed' = IF \E z \in Handlers \ {h} : browser[z].reset = x
                   THEN rushed \cup {x} ELSE rushed
      /\ UNCHANGED <<password, session, token, reset, forked, opened, floor, resets>>
  BY <1>2 DEF S!BeginReset, S!Begins, S!At, S!rows
<1>5. browser'[h] = r /\ \A z \in Handlers \ {h} : browser'[z] = browser[z]
  BY <1>1, <1>3, <1>4 DEF SessionTypes
<1>6. SessionTypes' /\ BrowsersSound' /\ EndsSound'
  <2>1. reset' \in [ResetIds -> {"absent", "issued", "used"}] /\ r.reset # Nil
    BY <1>1, <1>3, <1>4, NilIsNothing DEF SessionTypes
  <2>2. UNCHANGED <<password, session, token, opened, floor, resets>>
    BY <1>4
  <2> QED BY <1>3, <1>4, <2>1, <2>2, BrowserKeeps
<1>7. RefreshSound'
  <2>1. forked \subseteq forked'
    BY <1>4
  <2>2. \A t \in TokenIds :
            /\ token'[t].session = token[t].session
            /\ token'[t].replaced = token[t].replaced
            /\ token[t].revoked => token'[t].revoked
    BY <1>4
  <2>3. \A z \in Handlers :
            \/ browser'[z] = browser[z]
            \/ /\ browser'[z].step \notin {"opened", "rotating", "linking"}
               /\ browser'[z].token = Nil \/ browser'[z].token = browser[z].token
               /\ browser'[z].token # Nil => browser'[z].session = browser[z].session
               /\ browser[z].step = "linking" => browser[z].session \in forked'
    BY <1>3, <1>4, <1>5
  <2> QED BY <2>1, <2>2, <2>3, LinesKeep
<1>8. ResetsSound'
  BY <1>1, <1>3, <1>4, <1>5 DEF ResetsSound
<1> QED BY <1>6, <1>7, <1>8 DEF SessionsInv

\* A token that another request holds forks its line; else it is its end.
LEMMA RefreshBegins ==
    ASSUME SessionsInv, Unfrayed', frayed \subseteq frayed', NEW h \in Handlers,
           NEW t \in TokenIds, S!BeginRefresh(h, t)
    PROVE  SessionsInv'
<1>1. SessionTypes /\ BrowsersSound /\ RefreshSound /\ ResetsSound
  BY DEF SessionsInv
<1>2. PICK s \in SessionIds : s = token[t].session
  BY <1>1 DEF S!BeginRefresh, S!Valid, S!Issued, SessionTypes, TokenRows
<1>3. PICK step \in {"rotating", "reused"} :
        step = IF token[t].replaced = Nil THEN "rotating" ELSE "reused"
  OBVIOUS
<1>4. PICK r : r = [S!NoJob EXCEPT !.token = t, !.session = s, !.step = step]
  OBVIOUS
<1>5. r \in S!Jobs /\ r.step = step /\ r.token = t /\ r.session = s /\ r.reset = Nil
  BY <1>4, VisitsBegin DEF S!Jobs
<1>6. /\ S!Valid(t) /\ browser[h].step = "idle"
      /\ browser' = [browser EXCEPT ![h] = r]
      /\ forked' = IF \E z \in Handlers \ {h} : browser[z].token = t
                   THEN forked \cup {s} ELSE forked
      /\ UNCHANGED <<password, session, token, reset, opened, floor, resets, rushed>>
  BY <1>2, <1>3, <1>4 DEF S!BeginRefresh, S!Begins, S!At, S!rows
<1>7. browser'[h] = r /\ \A z \in Handlers \ {h} : browser'[z] = browser[z]
  BY <1>1, <1>5, <1>6 DEF SessionTypes
<1>8. SessionTypes' /\ BrowsersSound' /\ EndsSound'
  <2>1. session[s] # "absent" /\ s # Nil /\ t # Nil
    BY <1>1, <1>2, NilIsNothing DEF BrowsersSound
  <2>2. reset' \in [ResetIds -> {"absent", "issued", "used"}]
    BY <1>1, <1>6 DEF SessionTypes
  <2>3. /\ r.step \notin {"opened", "disowned", "left", "linking"}
        /\ r.step \in {"rotating", "reused", "lost", "revoking"} => r.session # Nil
        /\ r.step = "rotating" => r.token # Nil /\ S!Valid(r.token)
        /\ r.step = "verified" => r.token = Nil
        /\ r.step = "resetting" <=> r.reset # Nil
        /\ r.session # Nil => session[r.session] # "absent"
        /\ r.token # Nil => r.session # Nil /\ token[r.token].session = r.session
    BY <1>2, <1>3, <1>5, <1>6, <2>1
  <2>4. UNCHANGED <<password, session, token, opened, floor, resets>>
    BY <1>6
  <2> QED BY <1>5, <1>6, <2>2, <2>3, <2>4, BrowserKeeps
<1>9. ResetsSound'
  <2>1. \A z \in Handlers : browser'[z].reset = Nil \/ browser'[z].reset = browser[z].reset
    BY <1>5, <1>7
  <2> QED BY <1>1, <1>6, <2>1, ResetsKeep
<1>10. RefreshSound'
  <2>1. \A u \in TokenIds, x \in SessionIds : Foremost(u, x)' <=> Foremost(u, x)
    BY <1>5, <1>6, <1>7 DEF Foremost, S!At, S!Usable, S!Valid, S!Issued
  <2>2. ASSUME s \notin forked'
        PROVE  /\ \A z \in Handlers \ {h} : browser[z].token # t
               /\ step = "rotating" =>
                    /\ Foremost(t, s)
                    /\ \A z \in Handlers : ~S!Adds(z, s)
    <3>1. \A z \in Handlers \ {h} : browser[z].token # t
      BY <1>6, <2>2
    <3>2. s \notin forked
      BY <1>6, <2>2
    <3>3. ASSUME step = "rotating"
          PROVE  Foremost(t, s) /\ \A z \in Handlers : ~S!Adds(z, s)
      <4>1. Foremost(t, s)
        BY <1>2, <1>3, <1>6, <3>1, <3>3 DEF Foremost, S!Usable, S!At
      <4>2. ASSUME NEW z \in Handlers, S!Adds(z, s)
            PROVE  FALSE
        <5>1. z # h
          BY <1>6, <4>2 DEF S!Adds
        <5>2. S!At(z, "rotating") /\ browser[z].session = s
          BY <1>1, <1>2, <3>2, <4>2 DEF RefreshSound, S!Adds, S!At
        <5> QED BY <1>1, <3>1, <3>2, <4>1, <5>1, <5>2 DEF RefreshSound
      <4> QED BY <4>1, <4>2
    <3> QED BY <3>1, <3>3
  <2>3. ASSUME NEW x \in SessionIds \ forked'
        PROVE  /\ \A y, z \in Handlers :
                    /\ browser'[y].session = x /\ browser'[y].token # Nil
                       /\ browser'[y].token = browser'[z].token => y = z
                    /\ S!Adds(y, x)' /\ S!Adds(z, x)' => y = z
               /\ \A y \in Handlers : browser'[y].session = x =>
                    /\ S!At(y, "opened")' => \A u \in TokenIds : token'[u].session # x
                    /\ S!At(y, "rotating")' => \A u \in TokenIds : Foremost(u, x)' => u = browser'[y].token
               /\ \A u, v \in TokenIds : Foremost(u, x)' /\ Foremost(v, x)' => u = v
    <3>1. x \in SessionIds \ forked
      BY <1>6, <2>3
    <3>2. \A z \in Handlers \ {h} : S!Adds(z, x)' <=> S!Adds(z, x)
      BY <1>7 DEF S!Adds
    <3>3. S!Adds(h, x)' => x = s /\ step = "rotating"
      BY <1>3, <1>5, <1>7 DEF S!Adds
    <3>4. \A y, z \in Handlers : S!Adds(y, x)' /\ S!Adds(z, x)' => y = z
      BY <1>1, <2>2, <2>3, <3>1, <3>2, <3>3 DEF RefreshSound
    <3>5. \A y, z \in Handlers :
            browser'[y].session = x /\ browser'[y].token # Nil
                /\ browser'[y].token = browser'[z].token => y = z
      <4>1. ASSUME NEW z \in Handlers \ {h}, browser[z].token = t
            PROVE  browser[z].session = s
        BY <1>1, <1>2, <4>1, NilIsNothing DEF BrowsersSound
      <4> QED BY <1>1, <1>5, <1>7, <2>2, <2>3, <3>1, <4>1 DEF RefreshSound
    <3>6. \A u, v \in TokenIds : Foremost(u, x)' /\ Foremost(v, x)' => u = v
      BY <1>1, <2>1, <3>1 DEF RefreshSound
    <3>7. ASSUME NEW y \in Handlers \ {h}, browser'[y].session = x
          PROVE  /\ S!At(y, "opened")' => \A u \in TokenIds : token'[u].session # x
                 /\ S!At(y, "rotating")' => \A u \in TokenIds : Foremost(u, x)' => u = browser'[y].token
      BY <1>1, <1>6, <1>7, <2>1, <3>1, <3>7 DEF RefreshSound, S!At
    <3>8. ASSUME browser'[h].session = x
          PROVE  /\ ~S!At(h, "opened")'
                 /\ S!At(h, "rotating")' => \A u \in TokenIds : Foremost(u, x)' => u = browser'[h].token
      <4>1. x = s
        BY <1>5, <1>7, <3>8
      <4> QED BY <1>1, <1>5, <1>7, <2>1, <2>2, <2>3, <3>1, <4>1 DEF RefreshSound, S!At
    <3> QED BY <3>4, <3>5, <3>6, <3>7, <3>8
  <2> QED BY <2>3 DEF RefreshSound
<1> QED BY <1>8, <1>9, <1>10 DEF SessionsInv

\* A session is opened that no request or token was of before.
LEMMA SessionOpens ==
    ASSUME SessionsInv, Unfrayed', frayed \subseteq frayed', NEW h \in Handlers,
           NEW s \in SessionIds, S!OpenSession(h, s)
    PROVE  SessionsInv'
<1>1. SessionTypes /\ BrowsersSound /\ EndsSound /\ RefreshSound /\ ResetsSound
  BY DEF SessionsInv
<1>2. PICK n : n = browser[h].password
  OBVIOUS
<1>3. PICK r : r = [browser[h] EXCEPT !.step = "opened", !.session = s]
  OBVIOUS
<1>4. /\ r \in S!Jobs /\ r.step = "opened" /\ r.session = s /\ r.token = browser[h].token
      /\ r.reset = browser[h].reset /\ r.password = n /\ n \in Nat
  <2>1. browser[h].password \in 0 .. MaxPassword
    BY <1>1 DEF SessionTypes, S!Jobs
  <2>2. n \in Nat
    BY <1>2, <2>1, WorkspaceAssumption DEF S!SessionsAssumption
  <2> QED BY ZenonT(30), <1>1, <1>2, <1>3, <2>2 DEF SessionTypes, S!Jobs
<1>5. /\ browser[h].step = "verified" /\ session[s] = "absent"
      /\ session' = [session EXCEPT ![s] = "open"]
      /\ browser' = [browser EXCEPT ![h] = r]
      /\ opened' = [opened EXCEPT ![s] = n]
      /\ UNCHANGED <<password, token, reset, forked, floor, resets, rushed>>
  BY <1>2, <1>3 DEF S!OpenSession, S!At
<1>6. /\ browser'[h] = r /\ \A z \in Handlers \ {h} : browser'[z] = browser[z]
      /\ session'[s] = "open" /\ \A x \in SessionIds \ {s} : session'[x] = session[x]
      /\ opened'[s] = n /\ \A x \in SessionIds \ {s} : opened'[x] = opened[x]
  BY <1>1, <1>4, <1>5 DEF SessionTypes
<1>7. \A t \in TokenIds : token[t].session # s
  BY <1>1, <1>5, NilIsNothing DEF BrowsersSound
<1>8. \A z \in Handlers : browser[z].session # s
  BY <1>1, <1>5, NilIsNothing DEF BrowsersSound
<1>9. SessionTypes'
  BY <1>1, <1>4, <1>5 DEF SessionTypes
<1>10. browser[h].token = Nil
  BY <1>1, <1>5 DEF BrowsersSound
<1>11. BrowsersSound'
  BY <1>1, <1>4, <1>5, <1>6, <1>7, <1>10, NilIsNothing DEF BrowsersSound
<1>12. EndsSound'
  <2>1. ASSUME NEW x \in SessionIds \ frayed'
        PROVE  /\ session'[x] = "revoked" => Shut(x)'
               /\ session'[x] = "open" => opened'[x] >= floor'
               /\ \A z \in Handlers :
                  /\ S!Adds(z, x)' => session'[x] = "open"
                  /\ S!At(z, "disowned")' /\ browser'[z].session = x => Shut(x)'
                  /\ S!At(z, "left")' /\ session'[x] = "open" => Shut(x)'
    <3>1. x \in SessionIds \ frayed
      BY <2>1
    <3>2. Shut(x)' <=> Shut(x)
      BY <1>5 DEF Shut
    <3>3. CASE x = s
      <4>1. Shut(s)'
        BY <1>5, <1>7 DEF Shut
      <4>2. S!Adds(h, s)' /\ S!At(h, "opened")'
        BY <1>4, <1>6 DEF S!Adds, S!At
      <4>3. ~(n < floor)
        BY <1>4, <1>5, <1>6, <2>1, <3>3, <4>2 DEF Unfrayed
      <4>4. n >= floor
        BY <1>1, <1>4, <4>3 DEF SessionTypes
      <4> QED BY <1>5, <1>6, <3>3, <4>1, <4>4
    <3>4. CASE x # s
      BY <1>1, <1>4, <1>5, <1>6, <3>1, <3>2, <3>4 DEF EndsSound, S!Adds, S!At
    <3> QED BY <3>3, <3>4
  <2> QED BY <2>1 DEF EndsSound
<1>13. RefreshSound'
  <2>1. \A u \in TokenIds, x \in SessionIds : Foremost(u, x)' <=> Foremost(u, x)
    BY <1>4, <1>5, <1>6 DEF Foremost, S!At, S!Usable, S!Valid, S!Issued
  <2>2. \A u \in TokenIds : ~Foremost(u, s)
    BY <1>7 DEF Foremost
  <2>3. /\ \A z \in Handlers \ {h} : ~S!Adds(z, s)'
        /\ \A z \in Handlers \ {h}, x \in SessionIds : S!Adds(z, x)' <=> S!Adds(z, x)
        /\ \A x \in SessionIds \ {s} : ~S!Adds(h, x)'
    BY <1>4, <1>6, <1>8 DEF S!Adds
  <2>4. ASSUME NEW x \in SessionIds \ forked'
        PROVE  /\ \A y, z \in Handlers :
                    /\ browser'[y].session = x /\ browser'[y].token # Nil
                       /\ browser'[y].token = browser'[z].token => y = z
                    /\ S!Adds(y, x)' /\ S!Adds(z, x)' => y = z
               /\ \A y \in Handlers : browser'[y].session = x =>
                    /\ S!At(y, "opened")' => \A u \in TokenIds : token'[u].session # x
                    /\ S!At(y, "rotating")' => \A u \in TokenIds : Foremost(u, x)' => u = browser'[y].token
               /\ \A u, v \in TokenIds : Foremost(u, x)' /\ Foremost(v, x)' => u = v
    <3>1. x \in SessionIds \ forked
      BY <1>5, <2>4
    <3>2. \A y, z \in Handlers :
            /\ browser'[y].session = x /\ browser'[y].token # Nil
               /\ browser'[y].token = browser'[z].token => y = z
      BY <1>1, <1>4, <1>6, <1>10, <3>1 DEF RefreshSound
    <3>3. \A y, z \in Handlers : S!Adds(y, x)' /\ S!Adds(z, x)' => y = z
      BY <1>1, <2>3, <3>1 DEF RefreshSound
    <3>4. \A u, v \in TokenIds : Foremost(u, x)' /\ Foremost(v, x)' => u = v
      BY <1>1, <2>1, <3>1 DEF RefreshSound
    <3>5. ASSUME NEW y \in Handlers \ {h}, browser'[y].session = x
          PROVE  /\ S!At(y, "opened")' => \A u \in TokenIds : token'[u].session # x
                 /\ S!At(y, "rotating")' => \A u \in TokenIds : Foremost(u, x)' => u = browser'[y].token
      BY <1>1, <1>5, <1>6, <2>1, <3>1, <3>5 DEF RefreshSound, S!At
    <3>6. ASSUME browser'[h].session = x
          PROVE  /\ \A u \in TokenIds : token'[u].session # x
                 /\ ~S!At(h, "rotating")'
      BY <1>4, <1>5, <1>6, <1>7, <3>6 DEF S!At
    <3> QED BY <3>2, <3>3, <3>4, <3>5, <3>6
  <2> QED BY <2>4 DEF RefreshSound
<1>14. ResetsSound'
  <2>1. \A z \in Handlers : browser'[z].reset = Nil \/ browser'[z].reset = browser[z].reset
    BY <1>4, <1>6
  <2> QED BY <1>1, <1>5, <2>1, ResetsKeep
<1> QED BY <1>9, <1>11, <1>12, <1>13, <1>14 DEF SessionsInv

\* A token is added to the session of a request that has opened it, or that
\* rotates another token of it.
TokenAdded(h, t, s, r, d) ==
    /\ S!Adds(h, s) /\ S!Unissued(t)
    /\ token' = [token EXCEPT ![t] = d]
    /\ d.session = s /\ d.replaced = token[t].replaced /\ d.revoked = token[t].revoked
    /\ browser' = [browser EXCEPT ![h] = r]
    /\ \/ r.step = "idle" /\ r.session = Nil /\ r.token = Nil /\ r.reset = Nil
       \/ /\ r.step = "linking" /\ r.session = s
          /\ r.token = browser[h].token /\ r.token # Nil /\ r.new # Nil /\ r.reset = Nil
    /\ UNCHANGED <<password, session, reset, opened, floor, resets, rushed>>

\* The session is open, and nobody is about to end it, or it has frayed.
LEMMA TokenKeeps ==
    ASSUME SessionsInv, Unfrayed', frayed \subseteq frayed',
           NEW h \in Handlers, NEW t \in TokenIds, NEW s \in SessionIds,
           NEW r \in S!Jobs, NEW d \in TokenRows, TokenAdded(h, t, s, r, d)
    PROVE  /\ SessionTypes' /\ BrowsersSound' /\ EndsSound' /\ ResetsSound'
           /\ token'[t].session = s /\ \A u \in TokenIds \ {t} : token'[u] = token[u]
           /\ browser'[h] = r /\ \A z \in Handlers \ {h} : browser'[z] = browser[z]
<1> USE DEF TokenAdded
<1>1. SessionTypes /\ BrowsersSound /\ EndsSound /\ ResetsSound /\ Unfrayed
  BY DEF SessionsInv
<1>2. /\ token'[t] = d /\ \A u \in TokenIds \ {t} : token'[u] = token[u]
      /\ browser'[h] = r /\ \A z \in Handlers \ {h} : browser'[z] = browser[z]
  BY <1>1 DEF SessionTypes
<1>3. SessionTypes'
  BY <1>1 DEF SessionTypes
<1>4. token[t].session = Nil
  BY DEF S!Unissued, S!Issued
<1>5. session[s] # "absent"
  BY <1>1 DEF S!Adds, BrowsersSound
<1>6. BrowsersSound'
  <2>1. ASSUME NEW z \in Handlers \ {h}
        PROVE  browser[z].token # t
    BY <1>1, <1>4, NilIsNothing DEF BrowsersSound
  <2>2. ASSUME NEW u \in TokenIds, token'[u].session # Nil
        PROVE  session[token'[u].session] # "absent"
    BY <1>1, <1>2, <1>5, <2>2 DEF BrowsersSound
  <2>3. browser[h].session = s /\ browser[h].token # t
    BY <1>1, <1>4, NilIsNothing DEF BrowsersSound, S!Adds
  <2>4. r.token # Nil => token[r.token].session = s /\ r.token \in TokenIds /\ r.token # t
    BY <1>1, <2>3 DEF BrowsersSound, S!Jobs
  <2>5. ASSUME NEW z \in Handlers \ {h}, browser[z].token # Nil
        PROVE  token'[browser[z].token].session = browser[z].session
    <3>1. browser[z].token \in TokenIds \ {t}
      BY <1>1, <2>1, <2>5 DEF SessionTypes, S!Jobs
    <3> QED BY <1>1, <1>2, <2>5, <3>1 DEF BrowsersSound
  <2> QED BY <1>1, <1>2, <1>5, <2>2, <2>4, <2>5, NilIsNothing DEF BrowsersSound
<1>7. EndsSound'
  <2>1. ASSUME NEW x \in SessionIds \ frayed'
        PROVE  /\ session'[x] = "revoked" => Shut(x)'
               /\ session'[x] = "open" => opened'[x] >= floor'
               /\ \A z \in Handlers :
                  /\ S!Adds(z, x)' => session'[x] = "open"
                  /\ S!At(z, "disowned")' /\ browser'[z].session = x => Shut(x)'
                  /\ S!At(z, "left")' /\ session'[x] = "open" => Shut(x)'
    <3>1. x \in SessionIds \ frayed
      BY <2>1
    <3>2. CASE x = s
      <4>1. session[s] = "open"
        BY <1>1, <3>1, <3>2 DEF EndsSound
      <4>2. \A z \in Handlers : ~S!Closes(z, s)
        BY <1>1, <3>1, <3>2 DEF Unfrayed
      <4>3. \A z \in Handlers : S!Adds(z, x)' => S!Adds(z, x)
        BY <1>2 DEF S!Adds
      <4>4. \A z \in Handlers :
                ~(S!At(z, "disowned")' /\ browser'[z].session = s) /\ ~S!At(z, "left")'
        BY <1>2, <4>2 DEF S!Closes, S!At
      <4> QED BY <1>1, <3>1, <3>2, <4>1, <4>4 DEF EndsSound
    <3>3. CASE x # s
      <4>1. Shut(x) => Shut(x)'
        BY <1>2, <3>3 DEF Shut
      <4> QED BY <1>1, <1>2, <3>1, <3>3, <4>1 DEF EndsSound, S!Adds, S!At
    <3> QED BY <3>2, <3>3
  <2> QED BY <2>1 DEF EndsSound
<1>8. ResetsSound'
  <2>1. \A z \in Handlers : browser'[z].reset = Nil \/ browser'[z].reset = browser[z].reset
    BY <1>2
  <2> QED BY <1>1, <2>1, ResetsKeep
<1> QED BY <1>2, <1>3, <1>6, <1>7, <1>8

\* The first token of a session is the end of its line.
LEMMA SessionCreated ==
    ASSUME SessionsInv, Unfrayed', frayed \subseteq frayed', NEW h \in Handlers,
           NEW t \in TokenIds, S!CreateSession(h, t)
    PROVE  SessionsInv'
<1>1. SessionTypes /\ BrowsersSound /\ RefreshSound
  BY DEF SessionsInv
<1>2. PICK s \in SessionIds : s = browser[h].session
  BY <1>1 DEF S!CreateSession, S!At, BrowsersSound, SessionTypes, S!Jobs
<1>3. /\ S!Adds(h, s) /\ S!At(h, "opened") /\ S!Unissued(t)
      /\ token' = [token EXCEPT ![t].session = s]
      /\ browser' = [browser EXCEPT ![h] = S!NoJob]
      /\ UNCHANGED <<password, session, reset, forked, opened, floor, resets, rushed>>
  BY <1>2 DEF S!CreateSession, S!Ends, S!history, S!Adds, S!At
<1>4. /\ SessionTypes' /\ BrowsersSound' /\ EndsSound' /\ ResetsSound'
      /\ token'[t].session = s /\ \A u \in TokenIds \ {t} : token'[u] = token[u]
      /\ browser'[h].step = "idle" /\ browser'[h].token = Nil
      /\ \A z \in Handlers \ {h} : browser'[z] = browser[z]
  <2>1. PICK r \in S!Jobs : r = S!NoJob
    BY VisitsBegin
  <2>2. PICK d : d = [token[t] EXCEPT !.session = s]
    OBVIOUS
  <2>3. /\ d \in TokenRows /\ d.session = s /\ d.replaced = token[t].replaced
        /\ d.revoked = token[t].revoked
    BY <1>1, <2>2 DEF SessionTypes, TokenRows
  <2>4. TokenAdded(h, t, s, r, d)
    BY <1>3, <2>1, <2>2, <2>3, VisitsBegin DEF TokenAdded
  <2> QED BY <2>1, <2>3, <2>4, VisitsBegin, TokenKeeps
<1>5. ASSUME NEW x \in SessionIds \ forked'
      PROVE  /\ \A y, z \in Handlers :
                  /\ browser'[y].session = x /\ browser'[y].token # Nil
                     /\ browser'[y].token = browser'[z].token => y = z
                  /\ S!Adds(y, x)' /\ S!Adds(z, x)' => y = z
             /\ \A y \in Handlers : browser'[y].session = x =>
                  /\ S!At(y, "opened")' => \A u \in TokenIds : token'[u].session # x
                  /\ S!At(y, "rotating")' => \A u \in TokenIds : Foremost(u, x)' => u = browser'[y].token
             /\ \A u, v \in TokenIds : Foremost(u, x)' /\ Foremost(v, x)' => u = v
  <2>1. x \in SessionIds \ forked
    BY <1>3, <1>5
  <2>2. \A u \in TokenIds \ {t} : Foremost(u, x)' => Foremost(u, x)
    BY <1>3, <1>4 DEF Foremost, S!At, S!Usable, S!Valid, S!Issued
  <2>3. /\ \A z \in Handlers : S!Adds(z, x)' => z # h /\ S!Adds(z, x)
        /\ Foremost(t, x)' => x = s
    BY <1>4 DEF S!Adds, Foremost
  <2>4. x = s => /\ \A u \in TokenIds : ~Foremost(u, s)
                 /\ \A z \in Handlers : ~S!Adds(z, s)'
    <3>1. SUFFICES ASSUME x = s
                   PROVE  /\ \A u \in TokenIds : ~Foremost(u, s)
                          /\ \A z \in Handlers : ~S!Adds(z, s)'
      OBVIOUS
    <3>2. \A u \in TokenIds : ~Foremost(u, s)
      BY <1>1, <1>2, <1>3, <2>1, <3>1 DEF RefreshSound, Foremost
    <3> QED BY <1>1, <1>3, <2>1, <2>3, <3>1, <3>2 DEF RefreshSound
  <2>5. \A y, z \in Handlers :
            /\ browser'[y].session = x /\ browser'[y].token # Nil
               /\ browser'[y].token = browser'[z].token => y = z
            /\ S!Adds(y, x)' /\ S!Adds(z, x)' => y = z
    BY <1>1, <1>4, <2>1, <2>3 DEF RefreshSound
  <2>6. ASSUME NEW y \in Handlers, browser'[y].session = x
        PROVE  /\ S!At(y, "opened")' => \A u \in TokenIds : token'[u].session # x
               /\ S!At(y, "rotating")' => \A u \in TokenIds : Foremost(u, x)' => u = browser'[y].token
    <3>1. CASE x = s
      BY <2>4, <2>6, <3>1 DEF S!Adds, S!At
    <3>2. CASE x # s
      BY <1>1, <1>4, <2>1, <2>2, <2>3, <2>6, <3>2 DEF RefreshSound, S!At
    <3> QED BY <3>1, <3>2
  <2>7. \A u, v \in TokenIds : Foremost(u, x)' /\ Foremost(v, x)' => u = v
    BY <1>1, <2>1, <2>2, <2>3, <2>4 DEF RefreshSound
  <2> QED BY <2>5, <2>6, <2>7
<1>6. RefreshSound'
  BY <1>5 DEF RefreshSound
<1> QED BY <1>4, <1>6 DEF SessionsInv

\* The successor of a token becomes the end of the line; the request is about
\* to link the old one to it.
LEMMA TokenRotated ==
    ASSUME SessionsInv, Unfrayed', frayed \subseteq frayed', NEW h \in Handlers,
           NEW t \in TokenIds, S!InsertNew(h, t)
    PROVE  SessionsInv'
<1>1. SessionTypes /\ BrowsersSound /\ RefreshSound
  BY DEF SessionsInv
<1>2. PICK s \in SessionIds : s = browser[h].session
  BY <1>1 DEF S!InsertNew, S!At, BrowsersSound, SessionTypes, S!Jobs
<1>3. PICK r : r = [browser[h] EXCEPT !.step = "linking", !.new = t]
  OBVIOUS
<1>4. /\ r \in S!Jobs /\ r.step = "linking" /\ r.session = s /\ r.token = browser[h].token
      /\ r.new = t /\ r.reset = browser[h].reset
  BY <1>1, <1>2, <1>3 DEF SessionTypes, S!Jobs
<1>5. /\ S!Adds(h, s) /\ S!At(h, "rotating") /\ S!Unissued(t)
      /\ token' = [token EXCEPT ![t].session = s]
      /\ browser' = [browser EXCEPT ![h] = r]
      /\ UNCHANGED <<password, session, reset, forked, opened, floor, resets, rushed>>
  BY <1>2, <1>3 DEF S!InsertNew, S!history, S!Adds, S!At
<1>6. r.token # Nil /\ r.reset = Nil /\ r.new # Nil /\ r.token # t
  <2>1. browser[h].token # Nil /\ browser[h].reset = Nil
    BY <1>1, <1>5 DEF BrowsersSound, S!At
  <2>2. token[browser[h].token].session # Nil
    BY <1>1, <2>1 DEF BrowsersSound
  <2> QED BY <1>4, <1>5, <2>1, <2>2, NilIsNothing DEF S!Unissued, S!Issued
<1>7. /\ SessionTypes' /\ BrowsersSound' /\ EndsSound' /\ ResetsSound'
      /\ token'[t].session = s /\ \A u \in TokenIds \ {t} : token'[u] = token[u]
      /\ browser'[h] = r /\ \A z \in Handlers \ {h} : browser'[z] = browser[z]
  <2>1. PICK d : d = [token[t] EXCEPT !.session = s]
    OBVIOUS
  <2>2. /\ d \in TokenRows /\ d.session = s /\ d.replaced = token[t].replaced
        /\ d.revoked = token[t].revoked
    BY <1>1, <2>1 DEF SessionTypes, TokenRows
  <2>3. TokenAdded(h, t, s, r, d)
    BY <1>4, <1>5, <1>6, <2>1, <2>2 DEF TokenAdded
  <2> QED BY <1>4, <2>2, <2>3, TokenKeeps
<1>8. ASSUME NEW x \in SessionIds \ forked'
      PROVE  /\ \A y, z \in Handlers :
                  /\ browser'[y].session = x /\ browser'[y].token # Nil
                     /\ browser'[y].token = browser'[z].token => y = z
                  /\ S!Adds(y, x)' /\ S!Adds(z, x)' => y = z
             /\ \A y \in Handlers : browser'[y].session = x =>
                  /\ S!At(y, "opened")' => \A u \in TokenIds : token'[u].session # x
                  /\ S!At(y, "rotating")' => \A u \in TokenIds : Foremost(u, x)' => u = browser'[y].token
             /\ \A u, v \in TokenIds : Foremost(u, x)' /\ Foremost(v, x)' => u = v
  <2>1. x \in SessionIds \ forked
    BY <1>5, <1>8
  <2>2. \A u \in TokenIds \ {t} : Foremost(u, x)' => Foremost(u, x) /\ u # r.token
    <3>1. ASSUME NEW u \in TokenIds \ {t}, Foremost(u, x)'
          PROVE  /\ token[u].session = x /\ S!Usable(u)
                 /\ \A z \in Handlers \ {h} : ~(S!At(z, "linking") /\ browser[z].token = u)
                 /\ u # r.token
      BY <1>4, <1>7, <3>1 DEF Foremost, S!At, S!Usable, S!Valid, S!Issued
    <3> QED BY <1>5, <3>1 DEF Foremost, S!At
  <2>3. /\ \A z \in Handlers : S!Adds(z, x)' => z # h /\ S!Adds(z, x)
        /\ Foremost(t, x)' => x = s
    BY <1>4, <1>7 DEF S!Adds, Foremost
  <2>4. x = s => /\ \A u \in TokenIds \ {t} : ~Foremost(u, s)'
                 /\ \A z \in Handlers : ~S!Adds(z, s)'
    <3>1. SUFFICES ASSUME x = s
                   PROVE  /\ \A u \in TokenIds \ {t} : ~Foremost(u, s)'
                          /\ \A z \in Handlers : ~S!Adds(z, s)'
      OBVIOUS
    <3>2. \A u \in TokenIds : Foremost(u, s) => u = r.token
      BY <1>1, <1>2, <1>4, <1>5, <2>1, <3>1 DEF RefreshSound
    <3>3. \A z \in Handlers : ~S!Adds(z, s)'
      BY <1>1, <1>5, <2>1, <2>3, <3>1 DEF RefreshSound
    <3> QED BY <2>2, <3>1, <3>2, <3>3
  <2>5. \A y, z \in Handlers :
            /\ browser'[y].session = x /\ browser'[y].token # Nil
               /\ browser'[y].token = browser'[z].token => y = z
            /\ S!Adds(y, x)' /\ S!Adds(z, x)' => y = z
    BY <1>1, <1>2, <1>4, <1>7, <2>1, <2>3 DEF RefreshSound
  <2>6. ASSUME NEW y \in Handlers, browser'[y].session = x
        PROVE  /\ S!At(y, "opened")' => \A u \in TokenIds : token'[u].session # x
               /\ S!At(y, "rotating")' => \A u \in TokenIds : Foremost(u, x)' => u = browser'[y].token
    <3>1. CASE x = s
      BY <2>4, <2>6, <3>1 DEF S!Adds, S!At
    <3>2. CASE x # s
      BY <1>1, <1>4, <1>7, <2>1, <2>2, <2>3, <2>6, <3>2 DEF RefreshSound, S!At
    <3> QED BY <3>1, <3>2
  <2>7. \A u, v \in TokenIds : Foremost(u, x)' /\ Foremost(v, x)' => u = v
    BY <1>1, <2>1, <2>2, <2>3, <2>4 DEF RefreshSound
  <2> QED BY <2>5, <2>6, <2>7
<1>9. RefreshSound'
  BY <1>8 DEF RefreshSound
<1> QED BY <1>7, <1>9 DEF SessionsInv

\* The old token is linked, and cannot be refreshed any more.
LEMMA TokenLinked ==
    ASSUME SessionsInv, Unfrayed', frayed \subseteq frayed', NEW h \in Handlers, S!LinkOld(h)
    PROVE  SessionsInv'
<1>1. SessionTypes /\ BrowsersSound /\ EndsSound /\ RefreshSound /\ ResetsSound
  BY DEF SessionsInv
<1>2. PICK t \in TokenIds, new \in TokenIds :
        t = browser[h].token /\ new = browser[h].new
  BY <1>1 DEF S!LinkOld, S!At, BrowsersSound, SessionTypes, S!Jobs
<1>3. PICK d : d = [token[t] EXCEPT !.replaced = new]
  OBVIOUS
<1>4. /\ d \in TokenRows /\ d.session = token[t].session /\ d.replaced = new
      /\ d.revoked = token[t].revoked
  BY <1>1, <1>3 DEF SessionTypes, TokenRows
<1>5. /\ S!At(h, "linking") /\ token' = [token EXCEPT ![t] = d]
      /\ browser' = [browser EXCEPT ![h] = S!NoJob]
      /\ UNCHANGED <<password, session, reset, forked, opened, floor, resets, rushed>>
  BY <1>2, <1>3 DEF S!LinkOld, S!Ends, S!history
<1>6. /\ token'[t] = d /\ \A u \in TokenIds \ {t} : token'[u] = token[u]
      /\ browser'[h] = S!NoJob /\ \A z \in Handlers \ {h} : browser'[z] = browser[z]
  BY <1>1, <1>4, <1>5, VisitsBegin DEF SessionTypes
<1>7. \A u \in TokenIds : token'[u].session = token[u].session /\ token'[u].revoked = token[u].revoked
  BY <1>4, <1>6
<1>8. SessionTypes'
  BY <1>1, <1>4, <1>5, VisitsBegin DEF SessionTypes
<1>9. BrowsersSound'
  <2>1. \A z \in Handlers : browser[z].token # Nil => browser[z].token \in TokenIds
    BY <1>1 DEF SessionTypes, S!Jobs
  <2> QED BY <1>1, <1>5, <1>6, <1>7, <2>1, VisitsBegin DEF BrowsersSound
<1>10. EndsSound'
  <2>1. \A x \in SessionIds : Shut(x)' <=> Shut(x)
    BY <1>7 DEF Shut
  <2> QED BY <1>1, <1>5, <1>6, <2>1, VisitsBegin DEF EndsSound, S!Adds, S!At
<1>11. RefreshSound'
  <2>1. ASSUME NEW x \in SessionIds, NEW u \in TokenIds, Foremost(u, x)'
        PROVE  Foremost(u, x)
    <3>1. u # t
      BY <1>4, <1>6, <2>1, NilIsNothing DEF Foremost, S!Usable
    <3> QED BY <1>2, <1>6, <2>1, <3>1 DEF Foremost, S!At, S!Usable, S!Valid, S!Issued
  <2>2. \A z \in Handlers, x \in SessionIds : S!Adds(z, x)' => z # h /\ S!Adds(z, x)
    BY <1>6, VisitsBegin DEF S!Adds
  <2>3. ASSUME NEW x \in SessionIds \ forked'
        PROVE  /\ \A y, z \in Handlers :
                    /\ browser'[y].session = x /\ browser'[y].token # Nil
                       /\ browser'[y].token = browser'[z].token => y = z
                    /\ S!Adds(y, x)' /\ S!Adds(z, x)' => y = z
               /\ \A y \in Handlers : browser'[y].session = x =>
                    /\ S!At(y, "opened")' => \A u \in TokenIds : token'[u].session # x
                    /\ S!At(y, "rotating")' => \A u \in TokenIds : Foremost(u, x)' => u = browser'[y].token
               /\ \A u, v \in TokenIds : Foremost(u, x)' /\ Foremost(v, x)' => u = v
    <3>1. x \in SessionIds \ forked
      BY <1>5, <2>3
    <3>2. \A y, z \in Handlers :
            /\ browser'[y].session = x /\ browser'[y].token # Nil
               /\ browser'[y].token = browser'[z].token => y = z
            /\ S!Adds(y, x)' /\ S!Adds(z, x)' => y = z
      BY <1>1, <1>6, <2>2, <3>1, VisitsBegin DEF RefreshSound
    <3>3. ASSUME NEW y \in Handlers, browser'[y].session = x
          PROVE  /\ S!At(y, "opened")' => \A u \in TokenIds : token'[u].session # x
                 /\ S!At(y, "rotating")' => \A u \in TokenIds : Foremost(u, x)' => u = browser'[y].token
      <4>1. y # h /\ browser'[y] = browser[y]
        BY <1>6, <3>3, VisitsBegin, NilIsNothing
      <4> QED BY <1>1, <1>7, <2>1, <3>1, <3>3, <4>1 DEF RefreshSound, S!At
    <3>4. \A u, v \in TokenIds : Foremost(u, x)' /\ Foremost(v, x)' => u = v
      BY <1>1, <2>1, <3>1 DEF RefreshSound
    <3> QED BY <3>2, <3>3, <3>4
  <2> QED BY <2>3 DEF RefreshSound
<1>12. ResetsSound'
  <2>1. \A z \in Handlers : browser'[z].reset = Nil \/ browser'[z].reset = browser[z].reset
    BY <1>6, VisitsBegin
  <2> QED BY <1>1, <1>5, <2>1, ResetsKeep
<1> QED BY <1>8, <1>9, <1>10, <1>11, <1>12 DEF SessionsInv

\* A step towards the end of sessions: tokens are revoked, or sessions are, of
\* which every token is by then and that no request adds to, unless they frayed.
Ending(h, r) ==
    /\ browser' = [browser EXCEPT ![h] = r]
    /\ browser[h].step # "linking"
    /\ r.step \in {"idle", "disowned", "left"} /\ r.reset = Nil
    /\ r.step = "disowned" => r.session # Nil
    /\ r.session # Nil => r.session = browser[h].session
    /\ r.token # Nil => r.token = browser[h].token /\ r.session = browser[h].session
    /\ token' \in [TokenIds -> TokenRows]
    /\ \A t \in TokenIds :
        /\ token'[t].session = token[t].session
        /\ token'[t].replaced = token[t].replaced
        /\ token[t].revoked => token'[t].revoked
    /\ session' \in [SessionIds -> {"absent", "open", "revoked"}]
    /\ \A s \in SessionIds :
        \/ session'[s] = session[s] /\ (floor' = floor \/ session[s] # "open")
        \/ /\ session'[s] = "revoked" /\ session[s] # "absent"
           /\ s \notin frayed => Shut(s)' /\ \A z \in Handlers : ~S!Adds(z, s)
    /\ r.step = "disowned" => Shut(r.session)'
    /\ r.step = "left" => \A s \in SessionIds : session'[s] = "open" => Shut(s)'
    /\ UNCHANGED <<opened, forked>>

\* Such a step keeps what is known of the requests, the ends and the lines.
LEMMA EndingKeeps ==
    ASSUME SessionsInv, Unfrayed', frayed \subseteq frayed',
           NEW h \in Handlers, NEW r \in S!Jobs, Ending(h, r)
    PROVE  /\ browser' \in [Handlers -> S!Jobs]
           /\ browser'[h] = r /\ \A z \in Handlers \ {h} : browser'[z] = browser[z]
           /\ BrowsersSound' /\ EndsSound' /\ RefreshSound'
<1>1. SessionTypes /\ BrowsersSound /\ EndsSound
  BY DEF SessionsInv
<1>2. /\ browser' \in [Handlers -> S!Jobs]
      /\ browser'[h] = r /\ \A z \in Handlers \ {h} : browser'[z] = browser[z]
  BY <1>1 DEF SessionTypes, Ending
<1>3. BrowsersSound'
  <2>1. \A s \in SessionIds : session[s] # "absent" => session'[s] # "absent"
    BY DEF Ending
  <2>2. \A z \in Handlers : /\ browser[z].session # Nil => browser[z].session \in SessionIds
                            /\ browser[z].token # Nil => browser[z].token \in TokenIds
    BY <1>1 DEF SessionTypes, S!Jobs
  <2>3. \A t \in TokenIds : token[t].session # Nil => token[t].session \in SessionIds
    BY <1>1 DEF SessionTypes, TokenRows
  <2>4. \A t \in TokenIds : token'[t].session # Nil => session'[token'[t].session] # "absent"
    BY <1>1, <2>1, <2>3 DEF BrowsersSound, Ending
  <2>5. /\ r.session # Nil => session'[r.session] # "absent"
        /\ r.token # Nil => r.session # Nil /\ token'[r.token].session = r.session
    BY <1>1, <2>1, <2>2 DEF BrowsersSound, Ending
  <2>6. ASSUME NEW z \in Handlers \ {h}
        PROVE  /\ browser[z].session # Nil => session'[browser[z].session] # "absent"
               /\ browser[z].token # Nil =>
                    browser[z].session # Nil /\ token'[browser[z].token].session = browser[z].session
    BY <1>1, <2>1, <2>2 DEF BrowsersSound, Ending
  <2>7. /\ r.step \notin {"opened", "rotating", "linking", "reused", "lost", "revoking",
                          "verified", "resetting"}
        /\ r.step = "disowned" => r.session # Nil
        /\ r.reset = Nil
    BY DEF Ending
  <2> QED BY <1>1, <1>2, <2>4, <2>5, <2>6, <2>7 DEF BrowsersSound
<1>4. EndsSound'
  <2>1. ASSUME NEW s \in SessionIds \ frayed'
        PROVE  /\ session'[s] = "revoked" => Shut(s)'
               /\ session'[s] = "open" => opened'[s] >= floor'
               /\ \A z \in Handlers :
                  /\ S!Adds(z, s)' => session'[s] = "open"
                  /\ S!At(z, "disowned")' /\ browser'[z].session = s => Shut(s)'
                  /\ S!At(z, "left")' /\ session'[s] = "open" => Shut(s)'
    <3>1. s \in SessionIds \ frayed
      BY <2>1
    <3>2. Shut(s) => Shut(s)'
      BY DEF Shut, Ending
    <3>3. \A z \in Handlers : S!Adds(z, s)' => z # h /\ S!Adds(z, s)
      BY <1>2 DEF S!Adds, Ending
    <3>4. CASE session'[s] = session[s] /\ (floor' = floor \/ session[s] # "open")
      <4>1. /\ session'[s] = "revoked" => Shut(s)'
            /\ session'[s] = "open" => opened'[s] >= floor'
            /\ \A z \in Handlers : S!Adds(z, s)' => session'[s] = "open"
        BY <1>1, <3>1, <3>2, <3>3, <3>4 DEF EndsSound, Ending
      <4>2. ASSUME NEW z \in Handlers \ {h}
            PROVE  /\ S!At(z, "disowned")' /\ browser'[z].session = s => Shut(s)'
                   /\ S!At(z, "left")' /\ session'[s] = "open" => Shut(s)'
        BY <1>1, <1>2, <3>1, <3>2, <3>4 DEF EndsSound, S!At
      <4>3. /\ S!At(h, "disowned")' /\ browser'[h].session = s => Shut(s)'
            /\ S!At(h, "left")' /\ session'[s] = "open" => Shut(s)'
        BY <1>2 DEF S!At, Ending
      <4> QED BY <4>1, <4>2, <4>3
    <3>5. CASE session'[s] = "revoked" /\ Shut(s)' /\ \A z \in Handlers : ~S!Adds(z, s)
      BY <3>3, <3>5
    <3> QED BY <3>1, <3>4, <3>5 DEF Ending
  <2> QED BY <2>1 DEF EndsSound
<1>5. RefreshSound'
  <2>1. \A z \in Handlers :
            \/ browser'[z] = browser[z]
            \/ /\ browser'[z].step \notin {"opened", "rotating", "linking"}
               /\ browser'[z].token = Nil \/ browser'[z].token = browser[z].token
               /\ browser'[z].token # Nil => browser'[z].session = browser[z].session
               /\ browser[z].step = "linking" => browser[z].session \in forked'
    BY <1>2 DEF Ending
  <2>2. /\ forked \subseteq forked'
        /\ \A t \in TokenIds :
            /\ token'[t].session = token[t].session
            /\ token'[t].replaced = token[t].replaced
            /\ token[t].revoked => token'[t].revoked
    BY DEF Ending
  <2> QED BY <2>1, <2>2, LinesKeep
<1> QED BY <1>2, <1>3, <1>4, <1>5

\* What revoking tokens and sessions does.
LEMMA Revocation ==
    ASSUME SessionTypes
    PROVE  /\ \A tokens \in SUBSET TokenIds :
                /\ S!Revoked(tokens) \in [TokenIds -> TokenRows]
                /\ \A t \in TokenIds :
                    /\ S!Revoked(tokens)[t].session = token[t].session
                    /\ S!Revoked(tokens)[t].replaced = token[t].replaced
                    /\ token[t].revoked => S!Revoked(tokens)[t].revoked
                    /\ t \in tokens => S!Revoked(tokens)[t].revoked
           /\ \A ended \in SUBSET SessionIds :
                /\ S!SessionsRevoked(ended) \in [SessionIds -> {"absent", "open", "revoked"}]
                /\ \A s \in SessionIds :
                    \/ /\ S!SessionsRevoked(ended)[s] = session[s]
                       /\ s \notin ended \/ session[s] # "open"
                    \/ /\ s \in ended /\ session[s] = "open"
                       /\ S!SessionsRevoked(ended)[s] = "revoked"
<1>1. ASSUME NEW tokens \in SUBSET TokenIds, NEW t \in TokenIds
      PROVE  /\ S!Revoked(tokens)[t] \in TokenRows
             /\ S!Revoked(tokens)[t].session = token[t].session
             /\ S!Revoked(tokens)[t].replaced = token[t].replaced
             /\ token[t].revoked => S!Revoked(tokens)[t].revoked
             /\ t \in tokens => S!Revoked(tokens)[t].revoked
  <2>1. S!Revoked(tokens)[t] = IF t \in tokens THEN [token[t] EXCEPT !.revoked = TRUE] ELSE token[t]
    BY DEF S!Revoked
  <2> QED BY <2>1 DEF SessionTypes, TokenRows
<1>2. ASSUME NEW tokens \in SUBSET TokenIds
      PROVE  S!Revoked(tokens) \in [TokenIds -> TokenRows]
  BY <1>1 DEF S!Revoked
<1>3. ASSUME NEW ended \in SUBSET SessionIds
      PROVE  /\ S!SessionsRevoked(ended) \in [SessionIds -> {"absent", "open", "revoked"}]
             /\ \A s \in SessionIds :
                    \/ /\ S!SessionsRevoked(ended)[s] = session[s]
                       /\ s \notin ended \/ session[s] # "open"
                    \/ /\ s \in ended /\ session[s] = "open"
                       /\ S!SessionsRevoked(ended)[s] = "revoked"
  BY DEF SessionTypes, S!SessionsRevoked
<1> QED BY <1>1, <1>2, <1>3

\* A family's tokens are revoked, then its session; a logout does so for every
\* open session.  In between, what is added frays.
LEMMA TokensEnd ==
    ASSUME SessionsInv, Unfrayed', frayed \subseteq frayed', NEW h \in Handlers,
           S!RevokeFamily(h) \/ S!LogoutTokens(h)
    PROVE  SessionsInv'
<1>1. SessionTypes /\ BrowsersSound /\ EndsSound /\ ResetsSound
  BY DEF SessionsInv
<1>2. /\ S!At(h, "reused") \/ S!At(h, "idle")
      /\ UNCHANGED <<password, session, reset, forked, opened, floor, resets, rushed>>
  BY DEF S!RevokeFamily, S!LogoutTokens, S!Begins, S!history
<1>3. PICK r \in S!Jobs : Ending(h, r)
  <2>1. CASE S!RevokeFamily(h)
    <3>1. PICK s \in SessionIds : s = browser[h].session
      BY <1>1, <2>1 DEF S!RevokeFamily, S!At, BrowsersSound, SessionTypes, S!Jobs
    <3>2. PICK r : r = [browser[h] EXCEPT !.step = "disowned"]
      OBVIOUS
    <3>3. /\ r \in S!Jobs /\ r.step = "disowned" /\ r.session = s
          /\ r.token = browser[h].token /\ r.reset = browser[h].reset
      BY <1>1, <3>1, <3>2 DEF SessionTypes, S!Jobs
    <3>4. PICK tokens \in SUBSET TokenIds : tokens = S!Of(s)
      BY DEF S!Of
    <3>5. /\ browser' = [browser EXCEPT ![h] = r] /\ token' = S!Revoked(tokens)
          /\ S!At(h, "reused") /\ browser[h].reset = Nil
      BY <1>1, <2>1, <3>1, <3>2, <3>4 DEF S!RevokeFamily, S!Proceeds, S!At, BrowsersSound
    <3>6. Shut(s)'
      BY <1>1, <3>4, <3>5, Revocation DEF Shut, S!Of
    <3>7. /\ token' \in [TokenIds -> TokenRows]
          /\ \A t \in TokenIds :
            /\ token'[t].session = token[t].session
            /\ token'[t].replaced = token[t].replaced
            /\ token[t].revoked => token'[t].revoked
      BY <1>1, <3>5, Revocation
    <3>8. /\ session' \in [SessionIds -> {"absent", "open", "revoked"}]
          /\ \A x \in SessionIds : session'[x] = session[x] /\ floor' = floor
      BY <1>1, <1>2 DEF SessionTypes
    <3>9. Ending(h, r)
      BY <1>2, <3>1, <3>3, <3>5, <3>6, <3>7, <3>8, NilIsNothing DEF Ending, S!At
    <3> QED BY <3>3, <3>9
  <2>2. CASE S!LogoutTokens(h)
    <3>1. PICK r : r = [S!NoJob EXCEPT !.step = "left"]
      OBVIOUS
    <3>2. /\ r \in S!Jobs /\ r.step = "left" /\ r.session = Nil
          /\ r.token = Nil /\ r.reset = Nil
      BY <3>1, VisitsBegin DEF S!Jobs
    <3>3. PICK tokens \in SUBSET TokenIds :
            tokens = {t \in TokenIds : S!Issued(t) /\ session[token[t].session] = "open"}
      OBVIOUS
    <3>4. /\ browser' = [browser EXCEPT ![h] = r] /\ token' = S!Revoked(tokens)
          /\ S!At(h, "idle")
      BY <2>2, <3>1, <3>3 DEF S!LogoutTokens, S!Begins
    <3>5. /\ token' \in [TokenIds -> TokenRows]
          /\ \A t \in TokenIds :
            /\ token'[t].session = token[t].session
            /\ token'[t].replaced = token[t].replaced
            /\ token[t].revoked => token'[t].revoked
            /\ t \in tokens => token'[t].revoked
      BY <1>1, <3>4, Revocation
    <3>6. \A x \in SessionIds : session'[x] = "open" => Shut(x)'
      BY <1>2, <3>3, <3>5, NilIsNothing DEF Shut, S!Issued
    <3>7. /\ session' \in [SessionIds -> {"absent", "open", "revoked"}]
          /\ \A x \in SessionIds : session'[x] = session[x] /\ floor' = floor
      BY <1>1, <1>2 DEF SessionTypes
    <3>8. Ending(h, r)
      BY <1>2, <3>2, <3>4, <3>5, <3>6, <3>7 DEF Ending, S!At
    <3> QED BY <3>2, <3>8
  <2> QED BY <2>1, <2>2
<1>4. /\ browser' \in [Handlers -> S!Jobs]
      /\ browser'[h] = r /\ \A z \in Handlers \ {h} : browser'[z] = browser[z]
      /\ BrowsersSound' /\ EndsSound' /\ RefreshSound'
  BY <1>3, EndingKeeps
<1>5. SessionTypes'
  BY <1>1, <1>2, <1>3, <1>4 DEF SessionTypes, Ending
<1>6. ResetsSound'
  <2>1. \A z \in Handlers : browser'[z].reset = Nil \/ browser'[z].reset = browser[z].reset
    BY <1>3, <1>4 DEF Ending
  <2> QED BY <1>1, <1>2, <2>1, ResetsKeep
<1> QED BY <1>4, <1>5, <1>6 DEF SessionsInv

\* A session that is revoked has no token left, or frayed: who revoked the
\* tokens before is who revokes the session, and nobody adds to it meanwhile.
LEMMA SessionsEnd ==
    ASSUME SessionsInv, Unfrayed', frayed \subseteq frayed', NEW h \in Handlers,
           S!RevokeFamilySession(h) \/ S!LogoutSessions(h)
    PROVE  SessionsInv'
<1>1. SessionTypes /\ BrowsersSound /\ EndsSound /\ ResetsSound /\ Unfrayed
  BY DEF SessionsInv
<1>2. PICK ended \in SUBSET SessionIds :
        /\ session' = S!SessionsRevoked(ended)
        /\ \A s \in ended : S!Closes(h, s)
        /\ \/ (S!At(h, "disowned") \/ S!At(h, "lost")) /\ ended = {browser[h].session}
           \/ S!At(h, "left")
  <2>1. CASE S!RevokeFamilySession(h)
    <3>1. PICK s \in SessionIds : s = browser[h].session
      BY <1>1, <2>1 DEF S!RevokeFamilySession, S!At, BrowsersSound, SessionTypes, S!Jobs
    <3>2. PICK ended \in SUBSET SessionIds : ended = {s}
      OBVIOUS
    <3> QED BY <2>1, <3>1, <3>2 DEF S!RevokeFamilySession, S!Closes, S!At
  <2>2. CASE S!LogoutSessions(h)
    <3>1. PICK ended \in SUBSET SessionIds : ended = SessionIds
      OBVIOUS
    <3> QED BY <2>2, <3>1 DEF S!LogoutSessions, S!Closes, S!At
  <2> QED BY <2>1, <2>2
<1>3. /\ browser' = [browser EXCEPT ![h] = S!NoJob]
      /\ UNCHANGED <<password, token, reset, forked, opened, floor, resets, rushed>>
  BY DEF S!RevokeFamilySession, S!LogoutSessions, S!Ends, S!history
<1>4. ASSUME NEW s \in ended, s \notin frayed, session[s] = "open"
      PROVE  Shut(s)' /\ \A z \in Handlers : ~S!Adds(z, s)
  <2>1. s \in SessionIds \ frayed /\ S!Closes(h, s)
    BY <1>2, <1>4
  <2>2. \A z \in Handlers : ~S!Adds(z, s)
    BY <1>1, <2>1 DEF Unfrayed
  <2>3. ~(S!At(h, "lost") /\ browser[h].session = s)
    BY <1>1, <2>1 DEF Unfrayed
  <2>4. Shut(s)
    BY <1>1, <1>2, <1>4, <2>1, <2>3 DEF EndsSound, S!At
  <2> QED BY <1>3, <2>2, <2>4 DEF Shut
<1>5. /\ session' \in [SessionIds -> {"absent", "open", "revoked"}]
      /\ \A s \in SessionIds :
            \/ session'[s] = session[s] /\ (floor' = floor \/ session[s] # "open")
            \/ /\ session'[s] = "revoked" /\ session[s] # "absent"
               /\ s \notin frayed => Shut(s)' /\ \A z \in Handlers : ~S!Adds(z, s)
  <2>1. /\ session' \in [SessionIds -> {"absent", "open", "revoked"}]
        /\ \A s \in SessionIds :
            \/ session'[s] = session[s]
            \/ s \in ended /\ session[s] = "open" /\ session'[s] = "revoked"
    BY <1>1, <1>2, Revocation
  <2> QED BY <1>3, <1>4, <2>1
<1>6. /\ token' \in [TokenIds -> TokenRows]
      /\ \A t \in TokenIds :
        /\ token'[t].session = token[t].session
        /\ token'[t].replaced = token[t].replaced
        /\ token[t].revoked => token'[t].revoked
  BY <1>1, <1>3 DEF SessionTypes
<1>7. PICK r \in S!Jobs : r = S!NoJob
  BY VisitsBegin
<1>8. Ending(h, r)
  BY <1>2, <1>3, <1>5, <1>6, <1>7, VisitsBegin DEF Ending, S!At
<1>9. /\ browser' \in [Handlers -> S!Jobs]
      /\ browser'[h] = r /\ \A z \in Handlers \ {h} : browser'[z] = browser[z]
      /\ BrowsersSound' /\ EndsSound' /\ RefreshSound'
  BY <1>8, EndingKeeps
<1>10. SessionTypes'
  BY <1>1, <1>3, <1>5, <1>9 DEF SessionTypes
<1>11. ResetsSound'
  <2>1. \A z \in Handlers : browser'[z].reset = Nil \/ browser'[z].reset = browser[z].reset
    BY <1>7, <1>9, VisitsBegin
  <2> QED BY <1>1, <1>3, <2>1, ResetsKeep
<1> QED BY <1>9, <1>10, <1>11 DEF SessionsInv

\* One transaction revokes a session and its tokens.
LEMMA SessionRevoked ==
    ASSUME SessionsInv, Unfrayed', frayed \subseteq frayed', NEW h \in Handlers,
           S!RevokeSession(h)
    PROVE  SessionsInv'
<1>1. SessionTypes /\ BrowsersSound /\ EndsSound /\ ResetsSound /\ Unfrayed
  BY DEF SessionsInv
<1>2. PICK s \in SessionIds : s = browser[h].session
  BY <1>1 DEF S!RevokeSession, S!At, BrowsersSound, SessionTypes, S!Jobs
<1>3. PICK tokens \in SUBSET TokenIds : tokens = S!Of(s)
  BY DEF S!Of
<1>4. /\ S!At(h, "revoking") /\ session' = [session EXCEPT ![s] = "revoked"]
      /\ token' = S!Revoked(tokens) /\ browser' = [browser EXCEPT ![h] = S!NoJob]
      /\ UNCHANGED <<password, reset, forked, opened, floor, resets, rushed>>
  BY <1>2, <1>3 DEF S!RevokeSession, S!Ends, S!history
<1>5. /\ token' \in [TokenIds -> TokenRows]
      /\ \A t \in TokenIds :
        /\ token'[t].session = token[t].session
        /\ token'[t].replaced = token[t].replaced
        /\ token[t].revoked => token'[t].revoked
        /\ t \in tokens => token'[t].revoked
  BY <1>1, <1>4, Revocation
<1>6. Shut(s)' /\ (s \notin frayed => \A z \in Handlers : ~S!Adds(z, s))
  <2>1. Shut(s)'
    BY <1>3, <1>5 DEF Shut, S!Of
  <2>2. S!Closes(h, s)
    BY <1>2, <1>4 DEF S!Closes, S!At
  <2> QED BY <1>1, <2>1, <2>2 DEF Unfrayed
<1>7. /\ session' \in [SessionIds -> {"absent", "open", "revoked"}]
      /\ session[s] # "absent" /\ session'[s] = "revoked"
      /\ \A x \in SessionIds \ {s} : session'[x] = session[x]
  BY <1>1, <1>2, <1>4, NilIsNothing DEF SessionTypes, BrowsersSound
<1>8. PICK r \in S!Jobs : r = S!NoJob
  BY VisitsBegin
<1>9. Ending(h, r)
  BY <1>4, <1>5, <1>6, <1>7, <1>8, VisitsBegin DEF Ending, S!At
<1>10. /\ browser' \in [Handlers -> S!Jobs]
       /\ browser'[h] = r /\ \A z \in Handlers \ {h} : browser'[z] = browser[z]
       /\ BrowsersSound' /\ EndsSound' /\ RefreshSound'
  BY <1>9, EndingKeeps
<1>11. SessionTypes'
  BY <1>1, <1>4, <1>5, <1>7, <1>10 DEF SessionTypes
<1>12. ResetsSound'
  <2>1. \A z \in Handlers : browser'[z].reset = Nil \/ browser'[z].reset = browser[z].reset
    BY <1>8, <1>10, VisitsBegin
  <2> QED BY <1>1, <1>4, <2>1, ResetsKeep
<1> QED BY <1>10, <1>11, <1>12 DEF SessionsInv

\* One transaction sets the password and revokes every session and token; the
\* reset token that it uses was not used, unless it was rushed.
LEMMA PasswordReset ==
    ASSUME SessionsInv, Unfrayed', frayed \subseteq frayed', NEW h \in Handlers,
           S!ResetPassword(h)
    PROVE  SessionsInv'
<1>1. SessionTypes /\ BrowsersSound /\ EndsSound /\ ResetsSound /\ Unfrayed
  BY DEF SessionsInv
<1>2. PICK x \in ResetIds : x = browser[h].reset
  BY <1>1 DEF S!ResetPassword, S!At, BrowsersSound, SessionTypes, S!Jobs
<1>3. PICK tokens \in SUBSET TokenIds : tokens = {t \in TokenIds : S!Issued(t)}
  OBVIOUS
<1>4. PICK n \in Nat : n = resets[x] + 1
  BY <1>1 DEF SessionTypes
<1>5. /\ S!At(h, "resetting") /\ password < MaxPassword /\ password' = password + 1
      /\ reset' = [reset EXCEPT ![x] = "used"]
      /\ session' = S!SessionsRevoked(SessionIds) /\ token' = S!Revoked(tokens)
      /\ floor' = password' /\ resets' = [resets EXCEPT ![x] = n]
      /\ browser' = [browser EXCEPT ![h] = S!NoJob]
      /\ UNCHANGED <<forked, opened, rushed>>
  BY <1>1, <1>2, <1>3, <1>4 DEF S!ResetPassword, S!Ends, SessionTypes
<1>6. /\ token' \in [TokenIds -> TokenRows]
      /\ \A t \in TokenIds :
        /\ token'[t].session = token[t].session
        /\ token'[t].replaced = token[t].replaced
        /\ token[t].revoked => token'[t].revoked
        /\ t \in tokens => token'[t].revoked
  BY <1>1, <1>5, Revocation
<1>7. \A s \in SessionIds : Shut(s)'
  BY <1>3, <1>6, NilIsNothing DEF Shut, S!Issued
<1>8. /\ session' \in [SessionIds -> {"absent", "open", "revoked"}]
      /\ \A s \in SessionIds :
            \/ session'[s] = session[s] /\ session[s] # "open"
            \/ session[s] = "open" /\ session'[s] = "revoked"
  <2>1. SessionIds \in SUBSET SessionIds
    OBVIOUS
  <2> QED BY <1>1, <1>5, <2>1, Revocation
<1>9. \A s \in SessionIds : s \notin frayed => \A z \in Handlers : ~S!Adds(z, s)
  <2>1. \A s \in SessionIds : S!Closes(h, s)
    BY <1>5 DEF S!Closes, S!At
  <2> QED BY <1>1, <2>1 DEF Unfrayed
<1>10. PICK r \in S!Jobs : r = S!NoJob
  BY VisitsBegin
<1>11. Ending(h, r)
  BY <1>5, <1>6, <1>7, <1>8, <1>9, <1>10, VisitsBegin DEF Ending, S!At
<1>12. /\ browser' \in [Handlers -> S!Jobs]
       /\ browser'[h] = r /\ \A z \in Handlers \ {h} : browser'[z] = browser[z]
       /\ BrowsersSound' /\ EndsSound' /\ RefreshSound'
  BY <1>11, EndingKeeps
<1>13. SessionTypes'
  <2>1. password' \in 0 .. MaxPassword /\ floor' \in Nat
    BY <1>1, <1>5, WorkspaceAssumption DEF SessionTypes, S!SessionsAssumption
  <2> QED BY <1>1, <1>4, <1>5, <1>6, <1>8, <1>12, <2>1 DEF SessionTypes
<1>14. ResetsSound'
  <2>1. /\ \A q \in ResetIds, z \in Handlers :
            browser'[z].reset = q => z # h /\ browser[z].reset = q
        /\ reset'[x] = "used" /\ \A q \in ResetIds \ {x} : reset'[q] = reset[q]
        /\ resets'[x] = n /\ \A q \in ResetIds \ {x} : resets'[q] = resets[q]
    BY <1>1, <1>5, <1>10, <1>12, VisitsBegin, NilIsNothing DEF SessionTypes
  <2>2. x \notin rushed =>
            n = 1 /\ \A z \in Handlers \ {h} : browser[z].reset # x
    BY <1>1, <1>2, <1>4 DEF ResetsSound
  <2> QED BY <1>1, <1>5, <2>1, <2>2 DEF ResetsSound
<1> QED BY <1>12, <1>13, <1>14 DEF SessionsInv

\* What no request does: a reset is asked for, the password is changed.
LEMMA AccountMoves ==
    ASSUME SessionsInv, Unfrayed', frayed \subseteq frayed',
           S!ChangePassword \/ \E r \in ResetIds : S!ForgotPassword(r)
    PROVE  SessionsInv'
<1>1. SessionTypes /\ BrowsersSound /\ EndsSound /\ RefreshSound /\ ResetsSound
  BY DEF SessionsInv
<1>2. UNCHANGED <<session, token, browser, forked, opened, floor, resets, rushed>>
  BY DEF S!ChangePassword, S!ForgotPassword, S!history
<1>3. password' \in 0 .. MaxPassword
  BY <1>1, WorkspaceAssumption
  DEF S!ChangePassword, S!ForgotPassword, SessionTypes, S!SessionsAssumption
<1>4. /\ reset' \in [ResetIds -> {"absent", "issued", "used"}]
      /\ \A r \in ResetIds : reset'[r] # "used" => reset[r] # "used"
  <2>1. ASSUME NEW r \in ResetIds, S!ForgotPassword(r)
        PROVE  reset' = [reset EXCEPT ![r] = "issued"] /\ reset[r] = "absent"
    BY <2>1 DEF S!ForgotPassword
  <2> QED BY <1>1, <2>1 DEF S!ChangePassword, SessionTypes
<1>5. SessionTypes'
  BY <1>1, <1>2, <1>3, <1>4 DEF SessionTypes
<1>6. BrowsersSound' /\ EndsSound' /\ RefreshSound'
  BY <1>1, <1>2 DEF BrowsersSound, EndsSound, RefreshSound, Shut, Foremost,
                    S!Adds, S!At, S!Usable, S!Valid, S!Issued
<1>7. ResetsSound'
  BY <1>1, <1>2, <1>4, ResetsKeep
<1> QED BY <1>5, <1>6, <1>7 DEF SessionsInv

\* The sessions keep their invariant, whatever else is explored.
LEMMA SessionsInvariant == Spec => []SessionsInv
<1>1. Init => SessionsInv
  <2> SUFFICES ASSUME Init
               PROVE  SessionsInv
    OBVIOUS
  <2>1. S!SInit
    BY DEF Init
  <2>2. \A h \in Handlers : browser[h] = S!NoJob
    BY <2>1 DEF S!SInit
  <2>3. /\ \A t \in TokenIds : token[t].session = Nil
        /\ token \in [TokenIds -> TokenRows]
    BY <2>1 DEF S!SInit, TokenRows
  <2>4. SessionTypes
    <3>1. password \in 0 .. MaxPassword
      BY <2>1, WorkspaceAssumption DEF S!SInit, S!SessionsAssumption
    <3>2. browser \in [Handlers -> S!Jobs]
      BY <2>1, VisitsBegin DEF S!SInit
    <3> QED BY <2>1, <2>3, <3>1, <3>2 DEF S!SInit, SessionTypes
  <2>5. BrowsersSound
    BY <2>2, <2>3, VisitsBegin DEF BrowsersSound
  <2>6. Unfrayed /\ EndsSound
    BY <2>1, <2>2, VisitsBegin DEF S!SInit, Unfrayed, EndsSound, S!Adds, S!At
  <2>7. RefreshSound
    BY <2>2, <2>3, VisitsBegin, NilIsNothing DEF RefreshSound, Foremost, S!Adds, S!At
  <2>8. ResetsSound
    BY <2>1, <2>2, VisitsBegin, NilIsNothing DEF S!SInit, ResetsSound
  <2> QED BY <2>4, <2>5, <2>6, <2>7, <2>8 DEF SessionsInv
<1>2. SessionsInv /\ [Next]_vars => SessionsInv'
  <2> SUFFICES ASSUME SessionsInv, [Next]_vars
               PROVE  SessionsInv'
    OBVIOUS
  <2>1. CASE UNCHANGED sessions
    BY <2>1 DEF SessionsInv, SessionTypes, BrowsersSound, Unfrayed, EndsSound, RefreshSound,
                ResetsSound, Shut, Foremost, S!Adds, S!Closes, S!At, S!Usable, S!Valid, S!Issued,
                sessions
  <2>2. CASE S!SNext
    <3>1. frayed \subseteq frayed' /\ Unfrayed' /\ S!SStep
      BY <2>2, StepsFray DEF S!SNext
    <3>2. CASE S!ChangePassword \/ \E r \in ResetIds : S!ForgotPassword(r)
      BY <3>1, <3>2, AccountMoves
    <3>3. ASSUME NEW h \in Handlers,
                 \/ S!BeginLogin(h) \/ S!LoseRevokeFamily(h) \/ S!GiveUp(h)
                 \/ \E s \in SessionIds : S!BeginRevoke(h, s)
          PROVE  SessionsInv'
      BY <3>1, <3>3, VisitsMove
    <3>4. ASSUME NEW h \in Handlers,
                 \/ \E s \in SessionIds : S!OpenSession(h, s)
                 \/ \E t \in TokenIds :
                    S!CreateSession(h, t) \/ S!BeginRefresh(h, t) \/ S!InsertNew(h, t)
                 \/ \E r \in ResetIds : S!BeginReset(h, r)
                 \/ S!LinkOld(h)
          PROVE  SessionsInv'
      BY <3>1, <3>4, SessionOpens, SessionCreated, RefreshBegins, TokenRotated, ResetBegins,
         TokenLinked
    <3>5. ASSUME NEW h \in Handlers,
                 \/ S!RevokeFamily(h) \/ S!LogoutTokens(h)
                 \/ S!RevokeFamilySession(h) \/ S!LogoutSessions(h)
                 \/ S!RevokeSession(h) \/ S!ResetPassword(h)
          PROVE  SessionsInv'
      BY <3>1, <3>5, TokensEnd, SessionsEnd, SessionRevoked, PasswordReset
    <3> QED BY <3>1, <3>2, <3>3, <3>4, <3>5 DEF S!SStep
  <2> QED BY <2>1, <2>2, OneAtATime
<1> QED BY <1>1, <1>2, PTL DEF Spec

\* Of the tokens of a session at most one can be refreshed, an ended session
\* leaves none that can, a reset ends every session of an older password, and a
\* reset token serves once: unless the requests concerned overlapped, or a
\* statement was lost (Refresh, Logout, RevokeSession, ResetPassword).
THEOREM SessionsAreSound == Spec => []SessionsSound
<1>1. SessionsInv => SessionsSound
  <2> SUFFICES ASSUME SessionsInv
               PROVE  SessionsSound
    OBVIOUS
  <2>1. SessionTypes /\ BrowsersSound /\ EndsSound /\ RefreshSound /\ ResetsSound
    BY DEF SessionsInv
  <2>2. ASSUME NEW s \in SessionIds \ forked,
               \A h \in Handlers : ~(S!At(h, "linking") /\ browser[h].session = s)
        PROVE  S!Cardinality({t \in S!Of(s) : S!Usable(t)}) <= 1
    <3>1. PICK usable : usable = {t \in S!Of(s) : S!Usable(t)}
      OBVIOUS
    <3>2. S!Cardinality(usable) = Cardinality(usable)
      BY DEF S!Cardinality, Cardinality
    <3>3. ASSUME NEW t \in usable
          PROVE  t \in TokenIds /\ Foremost(t, s)
      <4>1. t \in TokenIds /\ token[t].session = s /\ S!Usable(t)
        BY <3>1, <3>3 DEF S!Of
      <4>2. \A h \in Handlers : browser[h].token = t => browser[h].session = s
        BY <2>1, <4>1, NilIsNothing DEF BrowsersSound
      <4> QED BY <2>2, <4>1, <4>2 DEF Foremost
    <3>4. \A t, u \in usable : t = u
      BY <2>1, <3>3 DEF RefreshSound
    <3>5. CASE usable = {}
      BY <3>1, <3>2, <3>5, FS_EmptySet
    <3>6. ASSUME NEW x \in usable
          PROVE  Cardinality(usable) = 1
      <4>1. usable = {x}
        BY <3>4
      <4> QED BY <4>1, FS_Singleton
    <3> QED BY <3>1, <3>2, <3>5, <3>6
  <2>3. \A s \in SessionIds \ frayed :
            /\ session[s] = "revoked" => \A t \in S!Of(s) : ~S!Valid(t)
            /\ session[s] = "open" => opened[s] >= floor
    BY <2>1 DEF EndsSound, Shut, S!Of, S!Valid
  <2>4. \A r \in ResetIds \ rushed : resets[r] <= 1
    BY <2>1 DEF ResetsSound
  <2> QED BY <2>2, <2>3, <2>4 DEF SessionsSound, S!SessionsSound
<1> QED BY <1>1, SessionsInvariant, PTL
=============================================================================
