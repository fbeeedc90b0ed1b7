----------------------------- MODULE Addresses -----------------------------
(***************************************************************************)
(* The delivery addresses of one user and the default among them           *)
(* (domains/address). Create and update run in a READ COMMITTED            *)
(* transaction against a partial unique index, and run once more when the  *)
(* index refuses them. A statement sees the rows committed when it starts, *)
(* waits for rows that an open transaction wrote, and the index waits for  *)
(* an open transaction that may leave a second default.                    *)
(***************************************************************************)
CONSTANTS
  Ids,      \* address ids
  Callers,  \* slots for requests
  NoId      \* the address of an idle slot

ASSUME AddressesAssumption == NoId \notin Ids

VARIABLES
  row,      \* committed rows: absent, plain, default or deleted
  call      \* the requests in flight, with the writes of their transaction

bookVars == <<row, call>>

Live == {"plain", "default"}
Flags == {"true", "false", "omitted"}  \* isDefault in the body

NoWrites == [i \in {} |-> "plain"]
Idle == [at |-> "idle", op |-> "create", id |-> NoId, flag |-> "omitted",
         retried |-> FALSE, saw |-> "plain", seen |-> {}, writes |-> NoWrites]

BookTypeOK ==
  /\ row \in [Ids -> {"absent", "deleted"} \cup Live]
  /\ \A h \in Callers :
       /\ call[h].at \in {"idle", "begin", "clear", "waiting", "write", "commit", "failed"}
       /\ call[h].op \in {"create", "update"} /\ call[h].flag \in Flags
       /\ call[h].id \in Ids \cup {NoId} /\ call[h].retried \in BOOLEAN
       /\ call[h].saw \in Live /\ call[h].seen \subseteq Ids
       /\ DOMAIN call[h].writes \subseteq Ids
       /\ \A i \in DOMAIN call[h].writes : call[h].writes[i] \in Live

BookInit ==
  /\ row = [i \in Ids |-> "absent"]
  /\ call = [h \in Callers |-> Idle]

-----------------------------------------------------------------------------
(* The database *)

Rows == {i \in Ids : row[i] \in Live}
WrittenBy(h) == DOMAIN call[h].writes
LockedFor(h, i) == \E g \in Callers \ {h} : i \in WrittenBy(g)

Write(h, S, value) ==
  [i \in WrittenBy(h) \cup S |-> IF i \in S THEN value ELSE call[h].writes[i]]

\* addresses_user_default_unique: an open transaction has to end first when a
\* default may come from it, and a committed default refuses a second one.
IndexWaits(h, i) ==
  \E g \in Callers \ {h} : \E j \in WrittenBy(g) \ {i} :
    "default" \in {row[j], call[g].writes[j]}
IndexRefuses(h, i) ==
  \E j \in Rows \ ({i} \cup WrittenBy(h)) : row[j] = "default" /\ ~LockedFor(h, j)

-----------------------------------------------------------------------------
(* createAddress and updateAddress *)

Request(h, op, i, flag) ==
  /\ call[h].at = "idle"
  /\ op = "create" => row[i] = "absent" /\ \A g \in Callers : call[g].id # i
  /\ op = "update" => row[i] # "absent"
  /\ call' = [call EXCEPT ![h] = [Idle EXCEPT !.at = "begin", !.op = op,
                                    !.id = i, !.flag = flag]]
  /\ UNCHANGED row

\* Fault: the stored flag wins over the one in the body.
BecomesStored(c) ==
  IF c.op = "create" /\ c.flag = "true" THEN "default" ELSE c.saw

\* isDefault ?? existing.isDefault, with the row read when the call began;
\* a create saw "default" when the user had no address.
Becomes(c) ==
  CASE c.flag = "true" -> "default"
    [] c.flag = "false" /\ c.op = "update" -> "plain"
    [] OTHER -> c.saw

\* ADDRESS_NOT_FOUND.
NotFound(c) == c.op = "update" /\ c.id \notin Rows

\* The first statement reads; the others are cleared if a default is coming.
Begin(h) ==
  LET c == call[h]
      saw == IF c.op = "create" THEN (IF Rows = {} THEN "default" ELSE "plain")
             ELSE row[c.id]
      clears == Becomes([c EXCEPT !.saw = saw]) = "default"
                  /\ (c.op = "update" => saw = "plain")
  IN
  /\ c.at = "begin"
  /\ call' = [call EXCEPT ![h] =
                IF NotFound(c) THEN Idle
                ELSE [@ EXCEPT !.saw = saw, !.at = IF clears THEN "clear" ELSE "write"]]
  /\ UNCHANGED row

\* UPDATE ... SET is_default = false WHERE user_id: the rows are chosen when
\* the statement starts, and written once nobody else holds any of them.
ClearStarts(h) ==
  /\ call[h].at = "clear"
  /\ call' = [call EXCEPT ![h] = [@ EXCEPT !.at = "waiting", !.seen = Rows]]
  /\ UNCHANGED row

Clear(h) ==
  /\ call[h].at = "waiting"
  /\ \A i \in call[h].seen : ~LockedFor(h, i)
  /\ call' = [call EXCEPT ![h] =
                [@ EXCEPT !.at = "write", !.seen = {},
                          !.writes = Write(h, call[h].seen \cap Rows, "plain")]]
  /\ UNCHANGED row

\* The INSERT or the UPDATE of the row itself. An update of a row that was
\* deleted meanwhile writes nothing.
WriteRow(h) ==
  LET c == call[h] IN
  /\ c.at = "write"
  /\ ~LockedFor(h, c.id)
  /\ \/ /\ c.op = "create" \/ c.id \in Rows
        /\ Becomes(c) = "default" => ~IndexWaits(h, c.id) /\ ~IndexRefuses(h, c.id)
        /\ call' = [call EXCEPT ![h] =
                      [@ EXCEPT !.at = "commit", !.writes = Write(h, {c.id}, Becomes(c))]]
     \/ /\ c.op = "update" /\ c.id \notin Rows
        /\ call' = [call EXCEPT ![h].at = "commit"]
  /\ UNCHANGED row

\* Fault: the transaction is run again as often as the index refuses it.
DefaultRetries(h) ==
  call' = [call EXCEPT ![h] = [Idle EXCEPT !.at = "begin", !.op = call[h].op,
                                 !.id = call[h].id, !.flag = call[h].flag]]

\* withDefaultRetry: the transaction is run once more, then the error is thrown.
DefaultRetry(h) ==
  call' = [call EXCEPT ![h] =
    [Idle EXCEPT !.at = IF call[h].retried THEN "failed" ELSE "begin", !.retried = TRUE,
                 !.op = call[h].op, !.id = call[h].id, !.flag = call[h].flag]]

UniqueViolation(h) ==
  LET c == call[h] IN
  /\ c.at = "write" /\ Becomes(c) = "default"
  /\ c.op = "create" \/ c.id \in Rows
  /\ ~LockedFor(h, c.id) /\ IndexRefuses(h, c.id)
  /\ DefaultRetry(h)
  /\ UNCHANGED row

Commit(h) ==
  /\ call[h].at = "commit"
  /\ row' = [i \in Ids |-> IF i \in WrittenBy(h) THEN call[h].writes[i] ELSE row[i]]
  /\ call' = [call EXCEPT ![h] = Idle]

\* The 500 goes out.
Fails(h) ==
  /\ call[h].at = "failed"
  /\ call' = [call EXCEPT ![h] = Idle]
  /\ UNCHANGED row

\* deleteAddress is one statement; a deleted default has no successor.
DeleteAddress(i) ==
  /\ i \in Rows /\ \A h \in Callers : i \notin WrittenBy(h)
  /\ row' = [row EXCEPT ![i] = "deleted"]
  /\ UNCHANGED call

Crash(h) ==
  /\ call[h].at # "idle"
  /\ call' = [call EXCEPT ![h] = Idle]
  /\ UNCHANGED row

-----------------------------------------------------------------------------
Progress(h) ==
  \/ Begin(h) \/ ClearStarts(h) \/ Clear(h) \/ WriteRow(h) \/ UniqueViolation(h)
  \/ Commit(h) \/ Fails(h)

BookNext ==
  \/ \E h \in Callers :
       \/ Progress(h) \/ Crash(h)
       \/ \E op \in {"create", "update"}, i \in Ids, flag \in Flags : Request(h, op, i, flag)
  \/ \E i \in Ids : DeleteAddress(i)

BookSpec == BookInit /\ [][BookNext]_bookVars

\* A server runs the request it accepted, and the database grants a lock that
\* keeps becoming free.
FairBookSpec == BookSpec /\ \A h \in Callers : SF_bookVars(Progress(h))

-----------------------------------------------------------------------------
Defaults(r) == {i \in Ids : r[i] = "default"}

\* "At most one default per user" (schema/address), and more: a call that asked
\* for the default and succeeds has it, alone, whatever ran beside it.
DefaultIsAsAsked ==
  [][/\ \A i, j \in Defaults(row') : i = j
     /\ \A h \in Callers :
          call[h].at = "commit" /\ call[h].flag = "true" /\ call'[h] = Idle /\ row' # row
            /\ call[h].id \in Rows'
            => Defaults(row') = {call[h].id}]_bookVars

\* No set of requests waits on each other's rows for ever, and the one retry
\* does not turn into an endless one.
CallsReturn == \A h \in Callers : call[h].at # "idle" ~> call[h].at = "idle"

\* address/service: one retry is enough, the conflict is never a 500.
ConflictIsRetried == \A h \in Callers : call[h].at # "failed"

\* address/service.test: the default that was set is listed as the default, so
\* only a request to unset it, another default or a delete takes it away.
DefaultIsNotLost ==
  [][\A h \in Callers :
       Defaults(row) # {} /\ Defaults(row') = {} /\ call[h].at = "commit" /\ call'[h] = Idle
         => call[h].flag = "false"]_bookVars
=============================================================================
