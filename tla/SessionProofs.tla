--------------------------- MODULE SessionProofs ---------------------------
(***************************************************************************)
(* Proofs about Session, for every number of sessions, identities and      *)
(* requests, every batch size and every life span.                         *)
(***************************************************************************)
EXTENDS Session, FiniteSetTheorems, TLAPS

\* What TypeOK says, but for the batches of the bulk statements.
Typed ==
    /\ row \in [Sessions -> Row]
    /\ issued \in SUBSET Sessions
    /\ account \in SUBSET Identities
    /\ now \in 0 .. MaxTime
    /\ kind \in [Requests -> Kinds]
    /\ step \in [Requests -> Steps]
    /\ copy \in [Requests -> Copy]
    /\ wanted \in [Requests -> 0 .. 2]
    /\ read \in [Requests -> Row]
    /\ since \in [Requests -> SUBSET Sessions]

\* What it says of them.
BulkType == batch \in [Requests -> SUBSET Sessions] /\ short \in SUBSET Requests

\* Which request is at which step, and what its copy names there.  Typed needs
\* it: the steps that look up a row look it up by the id of a copy.
StepInv ==
    \A r \in Requests :
        /\ step[r] \in {"authenticate", "hooks"} => kind[r] = "login"
        /\ step[r] = "get" => kind[r] = "settings"
        /\ step[r] \in {"exists", "update", "create"} => kind[r] \in {"login", "settings"}
        /\ step[r] = "write" => kind[r] = "extend"
        /\ step[r] = "batch" => kind[r] \in {"disableAll", "deleteAll"}
        /\ step[r] \in {"get", "exists", "update", "write"} => copy[r].id # None
        /\ step[r] \in {"get", "hooks"} => copy[r].owner # None
        /\ step[r] = "create" /\ copy[r].id = None => copy[r].owner # None

\* A level and the methods behind it: all of the identity i, and AAL2 only by a
\* first and a second factor, or by a provider that vouches for both.
EarnedBy(amr, aal, i) ==
    /\ \A e \in amr : e.by = i
    /\ aal = 2 => \/ \E e \in amr : e.method = "sso"
                  \/ (\E e \in amr : e.method = "first") /\ (\E e \in amr : e.method = "second")

\* A row belongs to somebody and was given out; its methods are its owner's and
\* it lives no longer than from now.
RowsInv ==
    \A s \in Sessions :
        /\ row[s].owner = None => row[s] = NoRow
        /\ s \notin issued => row[s] = NoRow
        /\ EarnedBy(row[s].amr, row[s].aal, row[s].owner)
        /\ row[s].expires <= now + Lifespan

\* A session keeps its owner through deletion and re-creation: whoever holds a copy
\* agrees on it with the row and with every other copy.
HolderInv ==
    /\ \A r \in Requests : copy[r].id # None =>
           /\ copy[r].id \in issued
           /\ copy[r].owner # None
           /\ row[copy[r].id].owner \in {None, copy[r].owner}
    /\ \A q, r \in Requests :
           copy[q].id # None /\ copy[q].id = copy[r].id => copy[q].owner = copy[r].owner

\* A copy's methods are its owner's, and it has all that its request read.
CopyOK(r) ==
    /\ EarnedBy(copy[r].amr, copy[r].aal, copy[r].owner)
    /\ copy[r].expires <= now + Lifespan
    /\ read[r].expires <= now + Lifespan
    /\ step[r] \in {"authenticate", "hooks", "exists", "update", "create"} /\ copy[r].id # None =>
          /\ read[r].amr \subseteq copy[r].amr
          /\ read[r].expires <= copy[r].expires
          /\ copy[r].active => read[r].active
    /\ step[r] = "authenticate" /\ copy[r].id # None => read[r].active
    /\ step[r] = "write" => read[r].expires <= copy[r].expires

CopyInv == \A r \in Requests : CopyOK(r)

\* A sweep was made and its request goes on, or is answered; no row of its last batch
\* was lost.
Answered(r) ==
    /\ r \notin short
    /\ \/ Sweeps(r)
       \/ Destroyer /\ kind[r] = "login" /\ step[r] \in {"exists", "update", "create"}

Complete(r) == \A s \in Swept(r) : Active(s) => s \in since[r]

\* A batch that is not full has every session that is active and was not written
\* active since the sweep began.
Selected(r) ==
    \/ Cardinality(batch[r]) = BatchSize
    \/ \A s \in Sessions : Active(s) => s \in batch[r] \cup since[r]

\* Between the sweep of the hook and the end of its login the same holds as after
\* it, between the sub-select of a batch and its write the batch is full or the last
\* one, and it can be counted because only finitely many ids were given out.
SweptInv ==
    /\ IsFiniteSet(issued)
    /\ \A r \in Requests : Answered(r) => Complete(r)
    /\ \A r \in Requests : step[r] = "batch" /\ r \notin short => Selected(r)

-----------------------------------------------------------------------------
(* Rows and copies *)

\* The two empty records are well typed.
LEMMA EmptyTypes == NoRow \in Row /\ NewInactiveSession \in Copy
  <1>1. 0 \in Times
    BY SessionAssumption DEF Times
  <1> QED
    BY <1>1 DEF NoRow, Row, NewInactiveSession, Copy

\* A copy of a row, and the row of a copy, are well typed.
LEMMA CopyTypes ==
    ASSUME row \in [Sessions -> Row]
    PROVE  /\ \A s \in Sessions : CopyOf(s) \in Copy /\ CopyOf(s).id = s
           /\ \A c \in Copy : RowOf(c) \in Row
  BY DEF CopyOf, Copy, RowOf, Row

\* A session whose row is not NoRow is present, and revoking or deleting rows
\* only takes something away from them.
Reduced ==
    /\ row' \in [Sessions -> Row]
    /\ \A s \in Sessions :
           \/ row'[s] = NoRow
           \/ /\ row'[s].owner = row[s].owner
              /\ row'[s].expires = row[s].expires
              /\ row'[s].amr = row[s].amr
              /\ row'[s].aal = row[s].aal
              /\ row'[s].active => row[s].active
    /\ \A s \in Sessions : row[s] = NoRow => row'[s] = NoRow

\* Revoke, and what it leaves of the rows it names.
LEMMA RevokeReduces ==
    ASSUME row \in [Sessions -> Row], NEW S, Revoke(S)
    PROVE  Reduced /\ \A s \in Sessions : s \in S => ~row'[s].active
  <1>1. \A s \in Sessions : row'[s] = IF s \in S THEN [row[s] EXCEPT !.active = FALSE]
                                      ELSE row[s]
    BY DEF Revoke
  <1>2. \A x \in Row : [x EXCEPT !.active = FALSE] \in Row
    BY DEF Row
  <1>3. row' \in [Sessions -> Row]
    <2>1. \A s \in Sessions : (IF s \in S THEN [row[s] EXCEPT !.active = FALSE]
                                ELSE row[s]) \in Row
      BY <1>2
    <2> DEFINE f(s) == IF s \in S THEN [row[s] EXCEPT !.active = FALSE] ELSE row[s]
    <2>2. row' = [s \in Sessions |-> f(s)]
      BY DEF Revoke
    <2>3. \A s \in Sessions : f(s) \in Row
      BY <2>1
    <2> HIDE DEF f
    <2> QED
      BY <2>2, <2>3
  <1>4. [NoRow EXCEPT !.active = FALSE] = NoRow
    <2>1. ASSUME NEW x \in Row, x.active = FALSE
          PROVE  [x EXCEPT !.active = FALSE] = x
      BY ONLY x \in Row, x.active = FALSE DEF Row
    <2>2. NoRow.active = FALSE
      BY DEF NoRow
    <2> QED
      BY <2>1, <2>2, EmptyTypes
  <1>5. \A s \in Sessions :
           /\ row'[s].owner = row[s].owner
           /\ row'[s].expires = row[s].expires
           /\ row'[s].amr = row[s].amr
           /\ row'[s].aal = row[s].aal
           /\ row'[s].active => row[s].active
           /\ s \in S => ~row'[s].active
    BY <1>1 DEF Row
  <1>6. \A s \in Sessions : row[s] = NoRow => row'[s] = NoRow
    BY <1>1, <1>4
  <1> QED
    BY <1>3, <1>5, <1>6 DEF Reduced

\* Delete.
LEMMA DeleteReduces ==
    ASSUME row \in [Sessions -> Row], NEW S, NEW others, Delete(S, others)
    PROVE  Reduced /\ \A s \in Sessions : s \in S => row'[s] = NoRow
  <1>1. \A s \in Sessions : row'[s] = IF s \in S THEN NoRow ELSE row[s]
    BY DEF Delete
  <1>2. row' \in [Sessions -> Row]
    <2>1. DOMAIN row' = Sessions /\ row' = [s \in Sessions |-> row'[s]]
      BY DEF Delete
    <2>2. \A s \in Sessions : row'[s] \in Row
      BY <1>1, EmptyTypes
    <2> QED
      BY <2>1, <2>2
  <1> QED
    BY <1>1, <1>2 DEF Reduced

\* Nothing was written.
LEMMA UnchangedReduces ==
    ASSUME row \in [Sessions -> Row], UNCHANGED row
    PROVE  Reduced
  BY DEF Reduced

-----------------------------------------------------------------------------
(* Requests *)

\* The methods a session records after one was completed, and the level that
\* follows from them.
LEMMA CompletedAfter ==
    ASSUME NEW c \in Copy, NEW m \in Methods, NEW i \in Identities
    PROVE  /\ Completed(c, m, i) \in Copy
           /\ Completed(c, m, i).id = c.id
           /\ Completed(c, m, i).owner = c.owner
           /\ Completed(c, m, i).active = c.active
           /\ Completed(c, m, i).expires = c.expires
           /\ Completed(c, m, i).amr = c.amr \cup {[method |-> m, by |-> i]}
           /\ Completed(c, m, i).aal = AALOf(c.amr \cup {[method |-> m, by |-> i]})
  <1> DEFINE amr == c.amr \cup {[method |-> m, by |-> i]}
  <1>1. amr \in SUBSET Entry
    BY DEF Entry, Copy
  <1>2. AALOf(amr) \in 0 .. 2
    BY DEF AALOf
  <1> HIDE DEF amr
  <1>3. Completed(c, m, i) = [c EXCEPT !.amr = amr, !.aal = AALOf(amr)]
    BY DEF Completed, amr
  <1> QED
    BY <1>1, <1>2, <1>3 DEF Copy, amr

\* Completing a method earns the level that follows from it.
LEMMA CompletedEarns ==
    ASSUME NEW c \in Copy, NEW m \in Methods, NEW i \in Identities,
           \A e \in c.amr : e.by = i
    PROVE  /\ c.amr \subseteq Completed(c, m, i).amr
           /\ EarnedBy(Completed(c, m, i).amr, Completed(c, m, i).aal, i)
  <1>1. PICK amr : amr = c.amr \cup {[method |-> m, by |-> i]}
    OBVIOUS
  <1>2. \A e \in amr : e.by = i
    BY <1>1
  <1>3. Completed(c, m, i).amr = amr /\ Completed(c, m, i).aal = AALOf(amr)
    BY <1>1, CompletedAfter
  <1> QED
    BY <1>1, <1>2, <1>3 DEF EarnedBy, AALOf

\* Continue.
LEMMA ContinueAfter ==
    ASSUME step \in [Requests -> Steps], NEW r \in Requests, NEW label \in Steps,
           Continue(r, label)
    PROVE  /\ step' \in [Requests -> Steps]
           /\ step'[r] = label
           /\ \A q \in Requests \ {r} : step'[q] = step[q]
  BY DEF Continue

\* Finish.
LEMMA FinishAfter ==
    ASSUME Typed, NEW r \in Requests, NEW label \in Steps, NEW s \in Sessions \cup {None},
           Finish(r, label, s)
    PROVE  /\ step' \in [Requests -> Steps]
           /\ copy' \in [Requests -> Copy]
           /\ read' \in [Requests -> Row]
           /\ step'[r] = label
           /\ copy'[r].id = s /\ copy'[r].owner = copy[r].owner
           /\ copy'[r].amr = {} /\ copy'[r].aal = 0
           /\ read'[r] = NoRow
           /\ \A q \in Requests \ {r} :
                  step'[q] = step[q] /\ copy'[q] = copy[q] /\ read'[q] = read[q]
  <1> DEFINE c == [NewInactiveSession EXCEPT !.id = s, !.owner = copy[r].owner]
  <1>1. copy[r].owner \in Identities \cup {None}
    BY DEF Typed, Copy
  <1>2. /\ c \in Copy
        /\ c.id = s /\ c.owner = copy[r].owner /\ c.amr = {} /\ c.aal = 0
    BY <1>1, EmptyTypes DEF NewInactiveSession, Copy
  <1> HIDE DEF c
  <1>3. copy' = [copy EXCEPT ![r] = c] /\ read' = [read EXCEPT ![r] = NoRow]
    BY DEF Finish, c
  <1>4. /\ step' \in [Requests -> Steps]
        /\ step'[r] = label
        /\ \A q \in Requests \ {r} : step'[q] = step[q]
    BY ContinueAfter DEF Finish, Typed
  <1>5. copy' \in [Requests -> Copy] /\ copy'[r] = c /\ read' \in [Requests -> Row]
    BY <1>2, <1>3, EmptyTypes DEF Typed
  <1> QED
    BY <1>2, <1>3, <1>4, <1>5 DEF Typed

\* Start.
LEMMA StartAfter ==
    ASSUME Typed, NEW r \in Requests, NEW k \in Kinds, NEW label \in Steps, NEW c \in Copy,
           Start(r, k, label, c)
    PROVE  /\ step' \in [Requests -> Steps]
           /\ kind' \in [Requests -> Kinds]
           /\ copy' \in [Requests -> Copy]
           /\ read' \in [Requests -> Row]
           /\ step[r] = "idle" /\ step'[r] = label /\ kind'[r] = k /\ copy'[r] = c
           /\ read'[r] = IF c.id = None THEN NoRow ELSE row[c.id]
           /\ \A q \in Requests \ {r} :
                  /\ step'[q] = step[q] /\ kind'[q] = kind[q]
                  /\ copy'[q] = copy[q] /\ read'[q] = read[q]
  <1>1. c.id \in Sessions \cup {None}
    BY DEF Copy
  <1>2. (IF c.id = None THEN NoRow ELSE row[c.id]) \in Row
    BY <1>1, EmptyTypes DEF Typed
  <1> QED
    BY <1>2, ContinueAfter DEF Start, Typed

\* What the UPDATE of UpsertSession writes: all but the owner, and only where a
\* row is.
LEMMA UpdateAfter ==
    ASSUME Typed, StepInv, NEW r \in Requests, UpsertUpdate(r)
    PROVE  /\ copy[r].id \in Sessions
           /\ row' \in [Sessions -> Row]
           /\ \A s \in Sessions \ {copy[r].id} : row'[s] = row[s]
           /\ ~Present(copy[r].id) => row' = row
           /\ Present(copy[r].id) =>
                  /\ row'[copy[r].id].owner = row[copy[r].id].owner
                  /\ row'[copy[r].id].active = copy[r].active
                  /\ row'[copy[r].id].expires = copy[r].expires
                  /\ row'[copy[r].id].amr = copy[r].amr
                  /\ row'[copy[r].id].aal = copy[r].aal
  <1> DEFINE s == copy[r].id
             y == [row[s] EXCEPT !.active = copy[r].active, !.expires = copy[r].expires,
                                 !.amr = copy[r].amr, !.aal = copy[r].aal]
  <1>1. s \in Sessions
    BY DEF UpsertUpdate, StepInv, Typed, Copy
  <1>2. CASE ~Present(s)
    BY <1>1, <1>2 DEF UpsertUpdate, Typed
  <1>3. CASE Present(s)
    <2>1. row[s] \in Row /\ copy[r] \in Copy
      BY <1>1 DEF Typed
    <2>2. ASSUME NEW x \in Row, NEW c \in Copy
          PROVE  LET z == [x EXCEPT !.active = c.active, !.expires = c.expires,
                                    !.amr = c.amr, !.aal = c.aal]
                 IN  /\ z \in Row
                     /\ z.owner = x.owner /\ z.active = c.active
                     /\ z.expires = c.expires /\ z.amr = c.amr /\ z.aal = c.aal
      BY ONLY x \in Row, c \in Copy DEF Row, Copy
    <2>3. /\ y \in Row
          /\ y.owner = row[s].owner /\ y.active = copy[r].active
          /\ y.expires = copy[r].expires /\ y.amr = copy[r].amr /\ y.aal = copy[r].aal
      BY <2>1, <2>2
    <2>4. row' = [row EXCEPT ![s] = y]
      BY <1>1, <1>3 DEF UpsertUpdate, Typed
    <2> HIDE DEF y
    <2>5. row' \in [Sessions -> Row] /\ row'[s] = y /\ \A t \in Sessions \ {s} : row'[t] = row[t]
      BY <1>1, <2>3, <2>4 DEF Typed
    <2> QED
      BY <1>1, <1>3, <2>3, <2>5
  <1> QED
    BY <1>2, <1>3

\* What the INSERT of UpsertSession writes.
LEMMA CreateAfter ==
    ASSUME Typed, NEW r \in Requests, NEW s \in Sessions, UpsertCreate(r, s)
    PROVE  /\ row' \in [Sessions -> Row]
           /\ \A t \in Sessions \ {s} : row'[t] = row[t]
           /\ row'[s].owner = copy[r].owner
           /\ row'[s].active = copy[r].active
           /\ row'[s].expires = copy[r].expires
           /\ row'[s].amr = copy[r].amr
           /\ row'[s].aal = copy[r].aal
  <1>1. RowOf(copy[r]) \in Row
    BY CopyTypes DEF Typed
  <1>2. row' = [row EXCEPT ![s] = RowOf(copy[r])]
    BY DEF UpsertCreate
  <1>3. row' \in [Sessions -> Row] /\ row'[s] = RowOf(copy[r])
    BY <1>1, <1>2 DEF Typed
  <1> QED
    BY <1>2, <1>3 DEF RowOf, Typed

\* What the UPDATE of ExtendSession writes.
LEMMA WriteAfter ==
    ASSUME Typed, StepInv, NEW r \in Requests, WriteExpiry(r)
    PROVE  /\ copy[r].id \in Sessions
           /\ row' \in [Sessions -> Row]
           /\ \A s \in Sessions \ {copy[r].id} : row'[s] = row[s]
           /\ ~Present(copy[r].id) => row' = row
           /\ Present(copy[r].id) =>
                  /\ row'[copy[r].id].owner = row[copy[r].id].owner
                  /\ row'[copy[r].id].active = row[copy[r].id].active
                  /\ row'[copy[r].id].expires = copy[r].expires
                  /\ row'[copy[r].id].amr = row[copy[r].id].amr
                  /\ row'[copy[r].id].aal = row[copy[r].id].aal
  <1> DEFINE s == copy[r].id
             y == [row[s] EXCEPT !.expires = copy[r].expires]
  <1>1. s \in Sessions
    BY DEF WriteExpiry, StepInv, Typed, Copy
  <1>2. CASE ~Present(s)
    BY <1>1, <1>2 DEF WriteExpiry, Typed
  <1>3. CASE Present(s)
    <2>1. row[s] \in Row /\ copy[r].expires \in Times
      BY <1>1 DEF Typed, Copy
    <2>2. ASSUME NEW x \in Row, NEW n \in Times
          PROVE  LET z == [x EXCEPT !.expires = n]
                 IN  /\ z \in Row
                     /\ z.owner = x.owner /\ z.active = x.active
                     /\ z.expires = n /\ z.amr = x.amr /\ z.aal = x.aal
      BY ONLY x \in Row, n \in Times DEF Row
    <2>3. /\ y \in Row
          /\ y.owner = row[s].owner /\ y.active = row[s].active
          /\ y.expires = copy[r].expires /\ y.amr = row[s].amr /\ y.aal = row[s].aal
      BY <2>1, <2>2
    <2>4. row' = [row EXCEPT ![s] = y]
      BY <1>1, <1>3 DEF WriteExpiry, Typed
    <2> HIDE DEF y
    <2>5. row' \in [Sessions -> Row] /\ row'[s] = y /\ \A t \in Sessions \ {s} : row'[t] = row[t]
      BY <1>1, <2>3, <2>4 DEF Typed
    <2> QED
      BY <1>1, <1>3, <2>3, <2>5
  <1> QED
    BY <1>2, <1>3

\* Wrote.
LEMMA WroteAfter ==
    ASSUME Typed, NEW s \in Sessions, NEW active \in BOOLEAN, Wrote(s, active)
    PROVE  /\ since' \in [Requests -> SUBSET Sessions]
           /\ \A q \in Requests : since[q] \subseteq since'[q]
           /\ \A q \in Requests : active /\ kind[q] \in Sweeping => s \in since'[q]
  BY DEF Wrote, Typed

\* The session a login goes on with: the one of the request, if it belongs to
\* whoever authenticated, or a new one.
LEMMA AuthenticateAfter ==
    ASSUME Typed, NEW r \in Requests, NEW i \in Identities, NEW m \in Methods,
           Authenticate(r, i, m), NEW c, c = SessionFor(copy[r], m, i)
    PROVE  /\ c \in {copy[r], NewInactiveSession}
           /\ c.owner \in {None, i}
           /\ c \in Copy
           /\ copy' \in [Requests -> Copy]
           /\ copy'[r].id = c.id
           /\ copy'[r].owner = i
           /\ copy'[r].expires = now + Lifespan
           /\ (\A e \in c.amr : e.by = i) =>
                  c.amr \subseteq copy'[r].amr /\ EarnedBy(copy'[r].amr, copy'[r].aal, i)
           /\ step' \in [Requests -> Steps]
           /\ step'[r] = IF Destroyer THEN "hooks"
                         ELSE IF c.id = None THEN "create" ELSE "exists"
           /\ \A q \in Requests \ {r} : step'[q] = step[q] /\ copy'[q] = copy[q]
  <1> DEFINE d == Completed(c, m, i)
             a == [d EXCEPT !.owner = i, !.active = TRUE, !.expires = now + Lifespan]
  <1>1. /\ c \in {copy[r], NewInactiveSession}
        /\ c.owner \in {None, i}
    BY DEF SessionFor, NewInactiveSession
  <1>2. c \in Copy
    BY <1>1, EmptyTypes DEF Typed
  <1>3. /\ d \in Copy
        /\ d.id = c.id
        /\ (\A e \in c.amr : e.by = i) => c.amr \subseteq d.amr /\ EarnedBy(d.amr, d.aal, i)
    BY <1>2, CompletedAfter, CompletedEarns
  <1> HIDE DEF d
  <1>4. now + Lifespan \in Times
    BY SessionAssumption DEF Times, Typed
  <1>5. ASSUME NEW x \in Copy, NEW n \in Times
        PROVE  LET z == [x EXCEPT !.owner = i, !.active = TRUE, !.expires = n]
               IN  /\ z \in Copy
                   /\ z.id = x.id /\ z.owner = i /\ z.active = TRUE
                   /\ z.expires = n /\ z.amr = x.amr /\ z.aal = x.aal
    BY ONLY x \in Copy, n \in Times, i \in Identities DEF Copy
  <1>6. /\ a \in Copy
        /\ a.id = d.id /\ a.owner = i /\ a.active = TRUE
        /\ a.expires = now + Lifespan /\ a.amr = d.amr /\ a.aal = d.aal
    BY <1>3, <1>4, <1>5
  <1>7. copy' = [copy EXCEPT ![r] = a]
    BY DEF Authenticate, d
  <1> HIDE DEF a
  <1>8. copy' \in [Requests -> Copy] /\ copy'[r] = a /\ \A q \in Requests \ {r} : copy'[q] = copy[q]
    BY <1>6, <1>7 DEF Typed
  <1>9. /\ step' \in [Requests -> Steps]
        /\ step'[r] = AfterActivation(d)
        /\ \A q \in Requests \ {r} : step'[q] = step[q]
    <2>1. AfterActivation(d) \in Steps
      BY DEF AfterActivation, UpsertSession, Steps
    <2>2. Continue(r, AfterActivation(d))
      BY DEF Authenticate, d
    <2> QED
      BY <2>1, <2>2, ContinueAfter DEF Typed
  <1>10. step'[r] = IF Destroyer THEN "hooks" ELSE IF c.id = None THEN "create" ELSE "exists"
    BY <1>3, <1>9 DEF AfterActivation, UpsertSession
  <1> QED
    BY <1>1, <1>2, <1>3, <1>6, <1>8, <1>9, <1>10

\* The session that the settings add a method to.
LEMMA AddAfter ==
    ASSUME Typed, StepInv, NEW r \in Requests, NEW m \in Methods,
           SessionAddAuthenticationMethods(r, m)
    PROVE  LET s == copy[r].id IN
           /\ s \in Sessions
           /\ copy' \in [Requests -> Copy]
           /\ copy'[r].id = s
           /\ copy'[r].owner = row[s].owner
           /\ copy'[r].active => row[s].active
           /\ copy'[r].expires = row[s].expires
           /\ (\A e \in row[s].amr : e.by = copy[r].owner) =>
                  /\ row[s].amr \subseteq copy'[r].amr
                  /\ EarnedBy(copy'[r].amr, copy'[r].aal, copy[r].owner)
           /\ read' \in [Requests -> Row]
           /\ read'[r] = row[s]
           /\ step' \in [Requests -> Steps]
           /\ step'[r] = "exists"
           /\ \A q \in Requests \ {r} :
                  step'[q] = step[q] /\ copy'[q] = copy[q] /\ read'[q] = read[q]
  <1> DEFINE s == copy[r].id
             c == GetSession(s)
             d == Completed(c, m, copy[r].owner)
  <1>1. s \in Sessions /\ copy[r].owner \in Identities
    BY DEF SessionAddAuthenticationMethods, StepInv, Typed, Copy
  <1>2. /\ c \in Copy /\ c.id = s /\ c.owner = row[s].owner
        /\ c.expires = row[s].expires /\ c.amr = row[s].amr
        /\ c.active => row[s].active
    <2>1. CopyOf(s) \in Copy
      BY <1>1, CopyTypes DEF Typed
    <2>2. PICK b \in BOOLEAN : b = IsActive(s)
      <3>1. IsActive(s) \in BOOLEAN
        BY Zenon DEF IsActive, Active
      <3> QED
        BY <3>1, Zenon
    <2>3. b => row[s].active
      BY <2>2 DEF IsActive, Active
    <2>4. c = [CopyOf(s) EXCEPT !.active = b]
      BY <2>2 DEF GetSession
    <2>5. ASSUME NEW x \in Copy, NEW a \in BOOLEAN
          PROVE  LET z == [x EXCEPT !.active = a]
                 IN  z \in Copy /\ z.active = a /\ z.id = x.id /\ z.owner = x.owner
                     /\ z.expires = x.expires /\ z.amr = x.amr
      BY ONLY x \in Copy, a \in BOOLEAN DEF Copy
    <2>6. /\ c \in Copy /\ c.active = b /\ c.id = CopyOf(s).id /\ c.owner = CopyOf(s).owner
          /\ c.expires = CopyOf(s).expires /\ c.amr = CopyOf(s).amr
      BY <2>1, <2>4, <2>5
    <2> QED
      BY <2>3, <2>6 DEF CopyOf
  <1> HIDE DEF c
  <1>3. /\ d \in Copy
        /\ d.id = c.id /\ d.owner = c.owner /\ d.active = c.active /\ d.expires = c.expires
        /\ (\A e \in c.amr : e.by = copy[r].owner) =>
               c.amr \subseteq d.amr /\ EarnedBy(d.amr, d.aal, copy[r].owner)
    BY <1>1, <1>2, CompletedAfter, CompletedEarns
  <1>4. copy' = [copy EXCEPT ![r] = d] /\ read' = [read EXCEPT ![r] = row[s]]
    BY DEF SessionAddAuthenticationMethods, c
  <1> HIDE DEF d
  <1>5. /\ copy' \in [Requests -> Copy] /\ copy'[r] = d
        /\ \A q \in Requests \ {r} : copy'[q] = copy[q]
    BY <1>3, <1>4 DEF Typed
  <1>6. /\ read' \in [Requests -> Row] /\ read'[r] = row[s]
        /\ \A q \in Requests \ {r} : read'[q] = read[q]
    BY <1>1, <1>4 DEF Typed
  <1>7. /\ step' \in [Requests -> Steps] /\ step'[r] = "exists"
        /\ \A q \in Requests \ {r} : step'[q] = step[q]
    BY ContinueAfter DEF SessionAddAuthenticationMethods, Typed, Steps
  <1> QED
    BY <1>1, <1>2, <1>3, <1>5, <1>6, <1>7

-----------------------------------------------------------------------------
(* Types *)

\* The part of Typed that is about the tables.
DatabaseTypes ==
    /\ row \in [Sessions -> Row]
    /\ issued \in SUBSET Sessions
    /\ account \in SUBSET Identities
    /\ now \in 0 .. MaxTime

\* The first step of a request.
Begin(r) ==
    \/ \E s \in Sessions :
          \/ \E aal \in 1 .. 2, refresh \in BOOLEAN : LoginWithSession(r, s, aal, refresh)
          \/ SettingsWithSession(r, s)
          \/ ExtendSession(r, s)
          \/ \E k \in {"logout", "revokeOthers", "revokeOne"} : OwnSession(r, s, k)
    \/ LoginWithoutSession(r)
    \/ \E k \in {"disableAll", "deleteAll"} : ManageAllSessions(r, k)

\* A request that begins is well typed.
LEMMA StartTypes ==
    ASSUME Typed, StepInv, NEW r \in Requests, Begin(r)
    PROVE  Typed' /\ StepInv'
  <1>1. ASSUME NEW k \in Kinds, NEW label \in {"authenticate", "get", "write", "sweep"},
               NEW c \in Copy, Start(r, k, label, c),
               label = "authenticate" => k = "login",
               label = "get" => k = "settings" /\ c.owner # None,
               label = "write" => k = "extend",
               label \in {"get", "write"} => c.id # None,
               UNCHANGED database, wanted' \in [Requests -> 0 .. 2],
               since' \in [Requests -> SUBSET Sessions]
        PROVE  Typed' /\ StepInv'
    <2>1. label \in Steps
      BY DEF Steps
    <2>2. /\ step' \in [Requests -> Steps]
          /\ kind' \in [Requests -> Kinds]
          /\ copy' \in [Requests -> Copy]
          /\ read' \in [Requests -> Row]
          /\ step'[r] = label /\ kind'[r] = k /\ copy'[r] = c
          /\ \A q \in Requests \ {r} :
                 step'[q] = step[q] /\ kind'[q] = kind[q] /\ copy'[q] = copy[q]
      BY <1>1, <2>1, StartAfter
    <2>3. Typed'
      BY <1>1, <2>2 DEF Typed, database
    <2>4. StepInv'
      BY <1>1, <2>2 DEF StepInv
    <2> QED
      BY <2>3, <2>4
  <1>2. /\ \A s \in Sessions : CopyOf(s) \in Copy /\ CopyOf(s).id = s /\ s # None
                               /\ CopyOf(s).owner = row[s].owner
        /\ NewInactiveSession \in Copy
        /\ NewInactiveSession.id = None
    BY CopyTypes, EmptyTypes, SessionAssumption DEF Typed, NewInactiveSession, CopyOf
  <1>3. CASE \E s \in Sessions, aal \in 1 .. 2, refresh \in BOOLEAN :
                LoginWithSession(r, s, aal, refresh)
    <2> PICK s \in Sessions, aal \in 1 .. 2, refresh \in BOOLEAN :
                LoginWithSession(r, s, aal, refresh)
      BY <1>3
    <2>1. wanted' \in [Requests -> 0 .. 2] /\ since' \in [Requests -> SUBSET Sessions]
      BY DEF LoginWithSession, Typed
    <2>2. Start(r, "login", "authenticate", CopyOf(s)) /\ UNCHANGED database
      BY DEF LoginWithSession
    <2> QED
      BY <1>1, <1>2, <2>1, <2>2 DEF Kinds
  <1>4. CASE \E s \in Sessions : SettingsWithSession(r, s)
    <2> PICK s \in Sessions : SettingsWithSession(r, s)
      BY <1>4
    <2>1. wanted' \in [Requests -> 0 .. 2] /\ since' \in [Requests -> SUBSET Sessions]
      BY DEF SettingsWithSession, Typed
    <2>2. Start(r, "settings", "get", CopyOf(s)) /\ UNCHANGED database
      BY DEF SettingsWithSession
    <2>3. row[s].owner # None
      BY SessionAssumption DEF SettingsWithSession, IsActiveExpanded, Typed
    <2> QED
      BY <1>1, <1>2, <2>1, <2>2, <2>3 DEF Kinds
  <1>5. CASE \E s \in Sessions : ExtendSession(r, s)
    <2> PICK s \in Sessions : ExtendSession(r, s)
      BY <1>5
    <2> DEFINE c == [CopyOf(s) EXCEPT !.expires = now + Lifespan]
    <2>1. wanted' \in [Requests -> 0 .. 2] /\ since' \in [Requests -> SUBSET Sessions]
      BY DEF ExtendSession, Typed
    <2>2. Start(r, "extend", "write", c) /\ UNCHANGED database
      BY DEF ExtendSession
    <2>3. now + Lifespan \in Times
      BY SessionAssumption DEF Times, Typed
    <2>4. c \in Copy /\ c.id # None
      BY <1>2, <2>3 DEF Copy
    <2> QED
      BY <1>1, <2>1, <2>2, <2>4 DEF Kinds
  <1>6. CASE \E s \in Sessions, k \in {"logout", "revokeOthers", "revokeOne"} : OwnSession(r, s, k)
    <2> PICK s \in Sessions, k \in {"logout", "revokeOthers", "revokeOne"} : OwnSession(r, s, k)
      BY <1>6
    <2>1. wanted' \in [Requests -> 0 .. 2] /\ since' \in [Requests -> SUBSET Sessions]
      BY DEF OwnSession, Typed
    <2>2. Start(r, k, "sweep", CopyOf(s)) /\ UNCHANGED database
      BY DEF OwnSession
    <2> QED
      BY <1>1, <1>2, <2>1, <2>2 DEF Kinds
  <1>7. CASE LoginWithoutSession(r)
    <2>1. wanted' \in [Requests -> 0 .. 2] /\ since' \in [Requests -> SUBSET Sessions]
      BY <1>7 DEF LoginWithoutSession, Typed
    <2>2. Start(r, "login", "authenticate", NewInactiveSession) /\ UNCHANGED database
      BY <1>7 DEF LoginWithoutSession
    <2> QED
      BY <1>1, <1>2, <2>1, <2>2 DEF Kinds
  <1>8. CASE \E k \in {"disableAll", "deleteAll"} : ManageAllSessions(r, k)
    <2> PICK k \in {"disableAll", "deleteAll"} : ManageAllSessions(r, k)
      BY <1>8
    <2>1. wanted' \in [Requests -> 0 .. 2] /\ since' \in [Requests -> SUBSET Sessions]
      BY DEF ManageAllSessions, Typed
    <2>2. Start(r, k, "sweep", NewInactiveSession) /\ UNCHANGED database
      BY DEF ManageAllSessions
    <2> QED
      BY <1>1, <1>2, <2>1, <2>2 DEF Kinds
  <1> QED
    BY <1>3, <1>4, <1>5, <1>6, <1>7, <1>8 DEF Begin

\* A request that ends is well typed.
LEMMA FinishTypes ==
    ASSUME Typed, StepInv, NEW r \in Requests, NEW s \in Sessions \cup {None},
           NEW label \in {"done", "failed"}, Finish(r, label, s),
           DatabaseTypes', kind' \in [Requests -> Kinds], wanted' \in [Requests -> 0 .. 2],
           \A q \in Requests \ {r} : kind'[q] = kind[q],
           since' \in [Requests -> SUBSET Sessions]
    PROVE  Typed' /\ StepInv'
  <1>1. label \in Steps
    BY DEF Steps
  <1>2. /\ step' \in [Requests -> Steps]
        /\ copy' \in [Requests -> Copy]
        /\ read' \in [Requests -> Row]
        /\ step'[r] = label
        /\ \A q \in Requests \ {r} : step'[q] = step[q] /\ copy'[q] = copy[q]
    BY <1>1, FinishAfter
  <1>3. Typed'
    BY <1>2 DEF Typed, DatabaseTypes
  <1>4. StepInv'
    BY <1>2 DEF StepInv
  <1> QED
    BY <1>3, <1>4
\* The steps of a request preserve the types.
LEMMA HandleTypes ==
    ASSUME Typed, StepInv, NEW r \in Requests, Handle(r)
    PROVE  Typed' /\ StepInv'
  <1>0. copy[r].id \in Sessions \cup {None}
    BY DEF Typed, Copy
  <1>1. CASE Begin(r)
    BY <1>1, StartTypes
  <1>2. CASE \E s \in Sessions : UpsertCreate(r, s)
    <2> PICK s \in Sessions : UpsertCreate(r, s)
      BY <1>2
    <2>1. row' \in [Sessions -> Row]
      BY CreateAfter
    <2>2. since' \in [Requests -> SUBSET Sessions]
      BY DEF UpsertCreate, Wrote, Typed
    <2>3. DatabaseTypes'
      BY <2>1 DEF UpsertCreate, Typed, DatabaseTypes
    <2> QED
      BY <2>2, <2>3, FinishTypes DEF UpsertCreate, Typed
  <1>3. CASE \E s \in Sessions : DeleteMySession(r, s)
    <2> PICK s \in Sessions : DeleteMySession(r, s)
      BY <1>3
    <2>1. row' \in [Sessions -> Row]
      BY RevokeReduces DEF DeleteMySession, Typed, Reduced
    <2>2. DatabaseTypes'
      BY <2>1 DEF DeleteMySession, Typed, DatabaseTypes
    <2> QED
      BY <1>0, <2>2, FinishTypes DEF DeleteMySession, Typed
  <1>4. CASE \E i \in Identities, m \in Methods : Authenticate(r, i, m)
    <2> PICK i \in Identities, m \in Methods : Authenticate(r, i, m)
      BY <1>4
    <2> PICK c : c = SessionFor(copy[r], m, i)
      OBVIOUS
    <2>0. /\ copy'[r].id = c.id
          /\ step'[r] = IF Destroyer THEN "hooks"
                        ELSE IF c.id = None THEN "create" ELSE "exists"
      BY AuthenticateAfter
    <2>1. /\ copy' \in [Requests -> Copy] /\ step' \in [Requests -> Steps]
          /\ copy'[r].owner = i
          /\ \/ step'[r] = "hooks"
             \/ step'[r] = "create"
             \/ step'[r] = "exists" /\ copy'[r].id # None
          /\ \A q \in Requests \ {r} : step'[q] = step[q] /\ copy'[q] = copy[q]
      BY <2>0, AuthenticateAfter
    <2>2. wanted' \in [Requests -> 0 .. 2]
      BY DEF Authenticate, Typed
    <2>3. Typed'
      BY <2>1, <2>2 DEF Authenticate, Typed, database
    <2>4. kind[r] = "login" /\ kind' = kind
      BY DEF Authenticate, StepInv
    <2>5. StepInv'
      BY <2>1, <2>4, SessionAssumption DEF StepInv
    <2> QED
      BY <2>3, <2>5
  <1>5. CASE SessionDestroyer(r)
    <2>1. row' \in [Sessions -> Row]
      BY <1>5, RevokeReduces DEF SessionDestroyer, RevokeSessionsIdentityExcept, Typed, Reduced
    <2>2. UpsertSession(copy[r]) \in Steps
      BY DEF UpsertSession, Steps
    <2>3. /\ step' \in [Requests -> Steps]
          /\ step'[r] = UpsertSession(copy[r])
          /\ \A q \in Requests \ {r} : step'[q] = step[q]
      BY <1>5, <2>2, ContinueAfter DEF SessionDestroyer, Typed
    <2>4. Typed'
      BY <1>5, <2>1, <2>3 DEF SessionDestroyer, RevokeSessionsIdentityExcept, Typed
    <2>5. kind' = kind /\ copy' = copy /\ kind[r] = "login" /\ copy[r].owner # None
      BY <1>5 DEF SessionDestroyer, RevokeSessionsIdentityExcept, StepInv
    <2>6. StepInv'
      BY <2>3, <2>5 DEF StepInv, UpsertSession
    <2> QED
      BY <2>4, <2>6
  <1>6. CASE \E m \in Methods : SessionAddAuthenticationMethods(r, m)
    <2> PICK m \in Methods : SessionAddAuthenticationMethods(r, m)
      BY <1>6
    <2>1. /\ copy[r].id \in Sessions
          /\ copy' \in [Requests -> Copy] /\ read' \in [Requests -> Row]
          /\ step' \in [Requests -> Steps]
          /\ copy'[r].id = copy[r].id /\ step'[r] = "exists"
          /\ \A q \in Requests \ {r} : step'[q] = step[q] /\ copy'[q] = copy[q]
      BY AddAfter
    <2>2. Typed'
      BY <2>1 DEF SessionAddAuthenticationMethods, Typed, database
    <2>3. kind' = kind /\ kind[r] = "settings"
      BY DEF SessionAddAuthenticationMethods, StepInv
    <2>4. StepInv'
      BY <2>1, <2>3, SessionAssumption DEF StepInv
    <2> QED
      BY <2>2, <2>4
  <1>7. CASE UpsertExists(r)
    <2>1. copy[r].id # None /\ kind[r] \in {"login", "settings"}
      BY <1>7 DEF UpsertExists, StepInv
    <2>2. PICK label \in {"update", "create"} : Continue(r, label)
                  /\ (label = "create" => ~Present(copy[r].id))
      BY <1>7 DEF UpsertExists
    <2>3. /\ step' \in [Requests -> Steps] /\ step'[r] = label
          /\ \A q \in Requests \ {r} : step'[q] = step[q]
      BY <2>2, ContinueAfter DEF Typed, Steps
    <2>4. Typed'
      BY <1>7, <2>3 DEF UpsertExists, Typed, database
    <2>5. StepInv'
      BY <1>7, <2>1, <2>3 DEF UpsertExists, StepInv
    <2> QED
      BY <2>4, <2>5
  <1>8. CASE UpsertUpdate(r)
    <2>1. row' \in [Sessions -> Row] /\ copy[r].id \in Sessions
      BY <1>8, UpdateAfter
    <2>2. since' \in [Requests -> SUBSET Sessions]
      BY <1>8, <2>1 DEF UpsertUpdate, Wrote, Typed
    <2>3. DatabaseTypes'
      BY <1>8, <2>1 DEF UpsertUpdate, Typed, DatabaseTypes
    <2>4. Finish(r, "done", copy[r].id) /\ kind' = kind /\ wanted' = wanted
      BY <1>8 DEF UpsertUpdate
    <2> QED
      BY <1>0, <2>2, <2>3, <2>4, FinishTypes DEF Typed
  <1>9. CASE WriteExpiry(r)
    <2>1. row' \in [Sessions -> Row]
      BY <1>9, WriteAfter
    <2>2. DatabaseTypes'
      BY <1>9, <2>1 DEF WriteExpiry, Typed, DatabaseTypes
    <2> QED
      BY <1>0, <1>9, <2>2, FinishTypes DEF WriteExpiry, Typed
  <1>10. CASE Logout(r)
    <2>1. row' \in [Sessions -> Row]
      BY <1>10, RevokeReduces DEF Logout, Typed, Reduced
    <2>2. DatabaseTypes'
      BY <1>10, <2>1 DEF Logout, Typed, DatabaseTypes
    <2> QED
      BY <1>0, <1>10, <2>2, FinishTypes DEF Logout, Typed
  <1>11. CASE DeleteMySessions(r)
    <2>1. row' \in [Sessions -> Row]
      BY <1>11, RevokeReduces DEF DeleteMySessions, RevokeSessionsIdentityExcept, Typed, Reduced
    <2>2. DatabaseTypes' /\ since' \in [Requests -> SUBSET Sessions]
      BY <1>11, <2>1 DEF DeleteMySessions, RevokeSessionsIdentityExcept, Typed, DatabaseTypes
    <2> QED
      BY <1>0, <1>11, <2>2, FinishTypes
         DEF DeleteMySessions, RevokeSessionsIdentityExcept, Typed
  <1>12. CASE WildcardBatch(r)
    <2>1. PICK label \in {"sweep", "done"} : Continue(r, label)
      BY <1>12 DEF WildcardBatch
    <2>2. row' \in [Sessions -> Row]
      BY <1>12, RevokeReduces, DeleteReduces DEF WildcardBatch, Typed, Reduced
    <2>3. /\ step' \in [Requests -> Steps] /\ step'[r] = label
          /\ \A q \in Requests \ {r} : step'[q] = step[q]
      BY <2>1, ContinueAfter DEF Typed, Steps
    <2>4. Typed'
      BY <1>12, <2>2, <2>3 DEF WildcardBatch, Typed
    <2>5. StepInv'
      BY <1>12, <2>3 DEF WildcardBatch, StepInv
    <2> QED
      BY <2>4, <2>5
  <1>13. CASE Fail(r)
    <2>1. /\ kind' \in [Requests -> Kinds] /\ since' \in [Requests -> SUBSET Sessions]
          /\ \A q \in Requests \ {r} : kind'[q] = kind[q]
      BY <1>13 DEF Fail, Typed, Kinds
    <2>2. DatabaseTypes'
      BY <1>13 DEF Fail, Typed, DatabaseTypes, database
    <2> QED
      BY <1>13, <2>1, <2>2, FinishTypes DEF Fail, Typed
  <1>14. CASE SelectBatch(r)
    <2>1. /\ step' \in [Requests -> Steps] /\ step'[r] = "batch"
          /\ \A q \in Requests \ {r} : step'[q] = step[q]
      BY <1>14, ContinueAfter DEF SelectBatch, Typed, Steps
    <2>2. Typed'
      BY <1>14, <2>1 DEF SelectBatch, Typed, database
    <2>3. StepInv'
      BY <1>14, <2>1 DEF SelectBatch, StepInv
    <2> QED
      BY <2>2, <2>3
  <1> QED
    BY <1>1, <1>2, <1>3, <1>4, <1>5, <1>6, <1>7, <1>8, <1>9, <1>10, <1>11, <1>12, <1>13,
       <1>14 DEF Handle, Begin

\* The steps that are no request's.
Administer ==
    \/ \E s \in Sessions : DisableSession(s) \/ DeleteSessionsByIDs(s)
    \/ \E i \in Identities :
          \/ RevokeSessionsByIdentities(i) \/ DeleteIdentitySessions(i)
          \/ SetAccountState(i)
    \/ DeleteExpiredSessions \/ Tick

\* They only take from the rows, leave the requests alone, and time passes.
LEMMA AdministerAfter ==
    ASSUME Typed, Administer
    PROVE  /\ Reduced
           /\ account' \in SUBSET Identities
           /\ now' \in 0 .. MaxTime /\ now <= now'
           /\ UNCHANGED <<issued, request, read, since>>
  <1>1. CASE \E s \in Sessions : DisableSession(s) \/ DeleteSessionsByIDs(s)
    <2> PICK s \in Sessions : DisableSession(s) \/ DeleteSessionsByIDs(s)
      BY <1>1
    <2>1. Reduced
      BY RevokeReduces, DeleteReduces DEF DisableSession, DeleteSessionsByIDs, Typed
    <2> QED
      BY <2>1 DEF DisableSession, DeleteSessionsByIDs, AdminUnchanged, Typed
  <1>2. CASE \E i \in Identities : RevokeSessionsByIdentities(i) \/ DeleteIdentitySessions(i)
    <2> PICK i \in Identities : RevokeSessionsByIdentities(i) \/ DeleteIdentitySessions(i)
      BY <1>2
    <2>1. Reduced
      BY RevokeReduces, DeleteReduces DEF RevokeSessionsByIdentities, DeleteIdentitySessions, Typed
    <2> QED
      BY <2>1 DEF RevokeSessionsByIdentities, DeleteIdentitySessions, AdminUnchanged, Typed
  <1>3. CASE \E i \in Identities : SetAccountState(i)
    <2> PICK i \in Identities : SetAccountState(i)
      BY <1>3
    <2>1. Reduced
      BY UnchangedReduces DEF SetAccountState, Typed
    <2>2. account' \in SUBSET Identities
      BY DEF SetAccountState, Typed
    <2> QED
      BY <2>1, <2>2 DEF SetAccountState, Typed
  <1>4. CASE DeleteExpiredSessions
    <2>1. Reduced
      BY <1>4, DeleteReduces DEF DeleteExpiredSessions, Typed
    <2> QED
      BY <1>4, <2>1 DEF DeleteExpiredSessions, AdminUnchanged, Typed
  <1>5. CASE Tick
    BY <1>5, UnchangedReduces, SessionAssumption DEF Tick, Typed
  <1> QED
    BY <1>1, <1>2, <1>3, <1>4, <1>5 DEF Administer

\* Every step is one of a request or one of Administer.
LEMMA NextCases == Next <=> (\E r \in Requests : Handle(r)) \/ Administer
  BY DEF Next, Administer

\* Types are inductive together with StepInv.
LEMMA TypesInductive ==
    /\ Init => Typed /\ StepInv
    /\ Typed /\ StepInv /\ [Next]_vars => Typed' /\ StepInv'
  <1>1. ASSUME Init PROVE Typed /\ StepInv
    <2>1. Typed
      <3>1. row \in [Sessions -> Row] /\ copy \in [Requests -> Copy] /\ read \in [Requests -> Row]
        BY <1>1, EmptyTypes DEF Init
      <3>2. /\ kind \in [Requests -> Kinds] /\ step \in [Requests -> Steps]
            /\ wanted \in [Requests -> 0 .. 2] /\ since \in [Requests -> SUBSET Sessions]
        BY <1>1 DEF Init, Kinds, Steps
      <3>3. /\ issued \in SUBSET Sessions /\ account \in SUBSET Identities
            /\ now \in 0 .. MaxTime
        BY <1>1, SessionAssumption DEF Init
      <3> QED
        BY <3>1, <3>2, <3>3 DEF Typed
    <2> QED
      BY <1>1, <2>1 DEF Init, StepInv
  <1>2. ASSUME Typed, StepInv, [Next]_vars PROVE Typed' /\ StepInv'
    <2>1. CASE Administer
      <3>1. Typed'
        BY <1>2, <2>1, AdministerAfter DEF Typed, Reduced, request
      <3>2. StepInv'
        BY <1>2, <2>1, AdministerAfter DEF StepInv, request
      <3> QED
        BY <3>1, <3>2
    <2>2. CASE UNCHANGED vars
      BY <1>2, <2>2 DEF Typed, StepInv, vars, database, request
    <2> QED
      BY <1>2, <2>1, <2>2, HandleTypes, NextCases
  <1> QED
    BY <1>1, <1>2
-----------------------------------------------------------------------------
(* Rows, owners and copies *)

\* The steps of a request that write no row.
Sparing(r) ==
    \/ Begin(r)
    \/ \E i \in Identities, m \in Methods : Authenticate(r, i, m)
    \/ \E m \in Methods : SessionAddAuthenticationMethods(r, m)
    \/ \E s \in Sessions : DeleteMySession(r, s)
    \/ SessionDestroyer(r) \/ UpsertExists(r) \/ SelectBatch(r) \/ WildcardBatch(r)
    \/ Logout(r) \/ DeleteMySessions(r) \/ Fail(r)

\* They only take from the rows.
LEMMA HandleReduces ==
    ASSUME Typed, NEW r \in Requests, Sparing(r)
    PROVE  Reduced /\ UNCHANGED <<issued, account, now>>
  <1>1. CASE UNCHANGED database
    BY <1>1, UnchangedReduces DEF database, Typed
  <1>2. CASE \E s \in Sessions : DeleteMySession(r, s)
    BY <1>2, RevokeReduces DEF DeleteMySession, Typed
  <1>3. CASE SessionDestroyer(r)
    BY <1>3, RevokeReduces DEF SessionDestroyer, RevokeSessionsIdentityExcept, Typed
  <1>4. CASE Logout(r)
    BY <1>4, RevokeReduces DEF Logout, Typed
  <1>5. CASE DeleteMySessions(r)
    BY <1>5, RevokeReduces DEF DeleteMySessions, RevokeSessionsIdentityExcept, Typed
  <1>6. CASE WildcardBatch(r)
    <2>1. PICK S, others : Revoke(S) \/ Delete(S, others)
      BY <1>6 DEF WildcardBatch
    <2>2. Reduced
      BY <2>1, RevokeReduces, DeleteReduces DEF Typed
    <2> QED
      BY <1>6, <2>2 DEF WildcardBatch
  <1> QED
    BY <1>1, <1>2, <1>3, <1>4, <1>5, <1>6
       DEF Sparing, Begin, LoginWithSession, SettingsWithSession, ExtendSession, OwnSession,
           LoginWithoutSession, Authenticate, SessionAddAuthenticationMethods, UpsertExists,
           ManageAllSessions, SelectBatch, Fail

\* Taking from the rows preserves RowsInv.
LEMMA ReducedRows ==
    ASSUME Typed, RowsInv, Reduced, issued' = issued, now' \in 0 .. MaxTime, now <= now'
    PROVE  RowsInv'
  <1>1. NoRow.amr = {} /\ NoRow.aal = 0 /\ NoRow.expires = 0 /\ NoRow.owner = None
    BY DEF NoRow
  <1> SUFFICES ASSUME NEW s \in Sessions
               PROVE  /\ row'[s].owner = None => row'[s] = NoRow
                      /\ s \notin issued => row'[s] = NoRow
                      /\ EarnedBy(row'[s].amr, row'[s].aal, row'[s].owner)
                      /\ row'[s].expires <= now' + Lifespan
    BY DEF RowsInv, EarnedBy
  <1>2. row[s].expires \in Int /\ now \in Int /\ now' \in Int /\ Lifespan \in Nat
    BY SessionAssumption DEF Typed, Row, Times
  <1>3. CASE row'[s] = NoRow
    BY <1>1, <1>2, <1>3, SessionAssumption DEF EarnedBy
  <1>4. CASE row'[s] # NoRow
    BY <1>2, <1>4 DEF RowsInv, Reduced
  <1> QED
    BY <1>3, <1>4

\* RowsInv is preserved.
LEMMA HandleRows ==
    ASSUME Typed, StepInv, RowsInv, HolderInv, CopyInv, NEW r \in Requests, Handle(r)
    PROVE  RowsInv'
  <1>0. now \in 0 .. MaxTime
    BY DEF Typed
  <1>1. CASE Sparing(r)
    BY <1>0, <1>1, HandleReduces, ReducedRows, SessionAssumption
  <1>2. CASE UpsertUpdate(r)
    <2> DEFINE s == copy[r].id
    <2>1. s \in Sessions /\ (\A t \in Sessions \ {s} : row'[t] = row[t])
          /\ issued' = issued /\ now' = now
      BY <1>2, UpdateAfter DEF UpsertUpdate
    <2>2. CASE ~Present(s)
      BY <1>2, <2>1, <2>2, UpdateAfter DEF RowsInv
    <2>3. CASE Present(s)
      <3>1. /\ row'[s].owner = row[s].owner /\ row'[s].expires = copy[r].expires
            /\ row'[s].amr = copy[r].amr /\ row'[s].aal = copy[r].aal
        BY <1>2, <2>3, UpdateAfter
      <3>2. row[s].owner # None /\ s \in issued
        BY <2>1, <2>3 DEF RowsInv, Present
      <3>3. row[s].owner = copy[r].owner
        BY <2>1, <3>2, SessionAssumption DEF HolderInv
      <3>4. /\ EarnedBy(row'[s].amr, row'[s].aal, row'[s].owner)
            /\ row'[s].expires <= now' + Lifespan
        BY <2>1, <3>1, <3>3 DEF CopyInv, CopyOK
      <3> QED
        BY <2>1, <3>1, <3>2, <3>4 DEF RowsInv
    <2> QED
      BY <2>2, <2>3
  <1>3. CASE \E s \in Sessions : UpsertCreate(r, s)
    <2> PICK s \in Sessions : UpsertCreate(r, s)
      BY <1>3
    <2>1. /\ \A t \in Sessions \ {s} : row'[t] = row[t]
          /\ row'[s].owner = copy[r].owner /\ row'[s].expires = copy[r].expires
          /\ row'[s].amr = copy[r].amr /\ row'[s].aal = copy[r].aal
          /\ issued' = issued \cup {s} /\ now' = now
      BY CreateAfter DEF UpsertCreate
    <2>2. copy[r].owner # None
      BY SessionAssumption DEF UpsertCreate, StepInv, HolderInv
    <2>3. /\ EarnedBy(row'[s].amr, row'[s].aal, row'[s].owner)
          /\ row'[s].expires <= now' + Lifespan
      BY <2>1 DEF CopyInv, CopyOK
    <2> QED
      BY <2>1, <2>2, <2>3 DEF RowsInv
  <1>4. CASE WriteExpiry(r)
    <2> DEFINE s == copy[r].id
    <2>1. s \in Sessions /\ (\A t \in Sessions \ {s} : row'[t] = row[t])
          /\ issued' = issued /\ now' = now
      BY <1>4, WriteAfter DEF WriteExpiry
    <2>2. CASE ~Present(s)
      BY <1>4, <2>1, <2>2, WriteAfter DEF RowsInv
    <2>3. CASE Present(s)
      <3>1. /\ row'[s].owner = row[s].owner /\ row'[s].expires = copy[r].expires
            /\ row'[s].amr = row[s].amr /\ row'[s].aal = row[s].aal
        BY <1>4, <2>3, WriteAfter
      <3>2. row[s].owner # None /\ s \in issued
        BY <2>1, <2>3 DEF RowsInv, Present
      <3>3. row'[s].expires <= now' + Lifespan
        BY <2>1, <3>1 DEF CopyInv, CopyOK
      <3> QED
        BY <2>1, <3>1, <3>2, <3>3 DEF RowsInv
    <2> QED
      BY <2>2, <2>3
  <1> QED
    BY <1>1, <1>2, <1>3, <1>4 DEF Handle, Sparing, Begin
\* What a request that begins works on: a new session, or one that is there, as it
\* is now.
LEMMA BeginAfter ==
    ASSUME Typed, NEW r \in Requests, Begin(r)
    PROVE  /\ UNCHANGED database
           /\ step[r] = "idle"
           /\ step'[r] \in {"authenticate", "get", "write", "sweep"}
           /\ \A q \in Requests \ {r} :
                  /\ step'[q] = step[q] /\ kind'[q] = kind[q]
                  /\ copy'[q] = copy[q] /\ read'[q] = read[q] /\ since'[q] = since[q]
           /\ \/ copy'[r] = NewInactiveSession /\ read'[r] = NoRow
                 /\ step'[r] \in {"authenticate", "sweep"}
              \/ \E s \in Sessions :
                     /\ Present(s) /\ read'[r] = row[s]
                     /\ copy'[r].id = s /\ copy'[r].owner = row[s].owner
                     /\ copy'[r].amr = row[s].amr /\ copy'[r].aal = row[s].aal
                     /\ copy'[r].active => row[s].active
                     /\ step'[r] = "authenticate" => row[s].active
                     /\ copy'[r].expires = IF step'[r] = "write" THEN now + Lifespan
                                           ELSE row[s].expires
  <1>1. /\ \A s \in Sessions :
               /\ CopyOf(s) \in Copy
               /\ CopyOf(s).id = s /\ CopyOf(s).owner = row[s].owner
               /\ CopyOf(s).amr = row[s].amr /\ CopyOf(s).aal = row[s].aal
               /\ CopyOf(s).active => row[s].active
               /\ CopyOf(s).expires = row[s].expires
               /\ s # None
        /\ NewInactiveSession \in Copy
        /\ NewInactiveSession.id = None
    BY CopyTypes, EmptyTypes, SessionAssumption DEF Typed, NewInactiveSession, CopyOf
  <1>2. ASSUME NEW k \in Kinds, NEW label \in {"authenticate", "get", "write", "sweep"},
               NEW c \in Copy, Start(r, k, label, c)
        PROVE  /\ step[r] = "idle"
               /\ step'[r] = label /\ copy'[r] = c
               /\ read'[r] = IF c.id = None THEN NoRow ELSE row[c.id]
               /\ \A q \in Requests \ {r} :
                      /\ step'[q] = step[q] /\ kind'[q] = kind[q]
                      /\ copy'[q] = copy[q] /\ read'[q] = read[q]
    <2>1. label \in Steps
      BY DEF Steps
    <2> QED
      BY <1>2, <2>1, StartAfter
  <1>3. \A q \in Requests \ {r} : since'[q] = since[q]
    BY DEF Begin, LoginWithSession, SettingsWithSession, ExtendSession, OwnSession,
           LoginWithoutSession, ManageAllSessions, Typed
  <1>4. CASE LoginWithoutSession(r)
    <2>1. Start(r, "login", "authenticate", NewInactiveSession) /\ UNCHANGED database
      BY <1>4 DEF LoginWithoutSession
    <2> QED
      BY <1>1, <1>2, <1>3, <2>1 DEF Kinds
  <1>5. CASE \E k \in {"disableAll", "deleteAll"} : ManageAllSessions(r, k)
    <2>1. PICK k \in {"disableAll", "deleteAll"} : ManageAllSessions(r, k)
      BY <1>5
    <2>2. Start(r, k, "sweep", NewInactiveSession) /\ UNCHANGED database
      BY <2>1 DEF ManageAllSessions
    <2> QED
      BY <1>1, <1>2, <1>3, <2>2 DEF Kinds
  <1>6. CASE \E s \in Sessions : ExtendSession(r, s)
    <2>1. PICK s \in Sessions : ExtendSession(r, s)
      BY <1>6
    <2> DEFINE c == [CopyOf(s) EXCEPT !.expires = now + Lifespan]
    <2>2. Start(r, "extend", "write", c) /\ UNCHANGED database /\ Present(s)
      BY <2>1 DEF ExtendSession
    <2>3. now + Lifespan \in Times
      BY SessionAssumption DEF Times, Typed
    <2>4. ASSUME NEW x \in Copy, NEW n \in Times
          PROVE  LET z == [x EXCEPT !.expires = n]
                 IN  /\ z \in Copy
                     /\ z.id = x.id /\ z.owner = x.owner /\ z.active = x.active
                     /\ z.expires = n /\ z.amr = x.amr /\ z.aal = x.aal
      BY ONLY x \in Copy, n \in Times DEF Copy
    <2>5. /\ c \in Copy
          /\ c.id = s /\ c.owner = row[s].owner
          /\ c.active => row[s].active
          /\ c.amr = row[s].amr /\ c.aal = row[s].aal /\ c.expires = now + Lifespan
      BY <1>1, <2>3, <2>4
    <2> HIDE DEF c
    <2>6. /\ step[r] = "idle" /\ step'[r] = "write" /\ copy'[r] = c /\ read'[r] = row[s]
          /\ \A q \in Requests \ {r} :
                 /\ step'[q] = step[q] /\ kind'[q] = kind[q]
                 /\ copy'[q] = copy[q] /\ read'[q] = read[q]
      BY <1>1, <1>2, <2>2, <2>5 DEF Kinds
    <2> QED
      BY <1>3, <2>2, <2>5, <2>6
  <1>7. ASSUME NEW s \in Sessions, NEW k \in Kinds, NEW label \in {"authenticate", "get", "sweep"},
               Start(r, k, label, CopyOf(s)), UNCHANGED database, IsActive(s)
        PROVE  /\ step[r] = "idle" /\ step'[r] = label
               /\ copy'[r] = CopyOf(s) /\ read'[r] = row[s]
               /\ Present(s) /\ row[s].active
               /\ \A q \in Requests \ {r} :
                      /\ step'[q] = step[q] /\ kind'[q] = kind[q]
                      /\ copy'[q] = copy[q] /\ read'[q] = read[q]
    BY <1>1, <1>2, <1>7 DEF IsActive, Active
  <1>8. CASE \E s \in Sessions :
                \/ \E aal \in 1 .. 2, refresh \in BOOLEAN : LoginWithSession(r, s, aal, refresh)
                \/ SettingsWithSession(r, s)
                \/ \E k \in {"logout", "revokeOthers", "revokeOne"} : OwnSession(r, s, k)
    <2>1. PICK s \in Sessions :
                \/ \E aal \in 1 .. 2, refresh \in BOOLEAN : LoginWithSession(r, s, aal, refresh)
                \/ SettingsWithSession(r, s)
                \/ \E k \in {"logout", "revokeOthers", "revokeOne"} : OwnSession(r, s, k)
      BY <1>8
    <2>2. IsActive(s) /\ UNCHANGED database
      BY <2>1 DEF LoginWithSession, SettingsWithSession, OwnSession, IsActiveExpanded
    <2>3. PICK k \in Kinds, label \in {"authenticate", "get", "sweep"} :
                  Start(r, k, label, CopyOf(s))
      BY <2>1 DEF LoginWithSession, SettingsWithSession, OwnSession, Kinds
    <2>4. /\ step[r] = "idle" /\ step'[r] = label
          /\ copy'[r] = CopyOf(s) /\ read'[r] = row[s]
          /\ Present(s) /\ row[s].active
          /\ \A q \in Requests \ {r} :
                 /\ step'[q] = step[q] /\ kind'[q] = kind[q]
                 /\ copy'[q] = copy[q] /\ read'[q] = read[q]
      BY <1>7, <2>2, <2>3
    <2> QED
      BY <1>1, <1>3, <2>2, <2>4
  <1> QED
    BY <1>4, <1>5, <1>6, <1>8 DEF Begin
\* The steps with which a request ends, but for the one that creates a row.
Ending(r) ==
    \/ UpsertUpdate(r) \/ WriteExpiry(r) \/ Logout(r) \/ DeleteMySessions(r) \/ Fail(r)
    \/ \E s \in Sessions : DeleteMySession(r, s)

\* Whoever ends keeps the id of the session, or forgets it.
LEMMA EndingAfter ==
    ASSUME Typed, NEW r \in Requests, Ending(r)
    PROVE  /\ step'[r] \in {"done", "failed"}
           /\ copy'[r].id \in {None, copy[r].id} /\ copy'[r].owner = copy[r].owner
           /\ copy'[r].amr = {} /\ copy'[r].aal = 0 /\ copy'[r].expires = 0
           /\ read'[r] = NoRow
           /\ \A q \in Requests \ {r} :
                  step'[q] = step[q] /\ copy'[q] = copy[q] /\ read'[q] = read[q]
           /\ UNCHANGED <<issued, account, now>>
  <1>1. copy[r].id \in Sessions \cup {None}
    BY DEF Typed, Copy
  <1>2. PICK label \in {"done", "failed"}, t \in {None, copy[r].id} : Finish(r, label, t)
    BY DEF Ending, UpsertUpdate, WriteExpiry, Logout, DeleteMySessions, Fail, DeleteMySession
  <1>3. label \in Steps
    BY DEF Steps
  <1>4. /\ step'[r] = label
        /\ copy'[r].id = t /\ copy'[r].owner = copy[r].owner
        /\ copy'[r].amr = {} /\ copy'[r].aal = 0
        /\ read'[r] = NoRow
        /\ \A q \in Requests \ {r} :
               step'[q] = step[q] /\ copy'[q] = copy[q] /\ read'[q] = read[q]
    BY <1>1, <1>2, <1>3, FinishAfter
  <1>5. copy'[r].expires = 0
    BY <1>2 DEF Finish, NewInactiveSession, Typed
  <1>6. UNCHANGED <<issued, account, now>>
    BY DEF Ending, UpsertUpdate, WriteExpiry, Logout, DeleteMySessions, Fail, DeleteMySession,
           RevokeSessionsIdentityExcept, database
  <1> QED
    BY <1>4, <1>5, <1>6

\* HolderInv as long as no row changes hands and no request gets another session.
LEMMA HolderFrame ==
    ASSUME Typed, HolderInv,
           \A s \in Sessions : row'[s].owner \in {None, row[s].owner},
           issued' = issued,
           \A q \in Requests :
               \/ copy'[q].id = None
               \/ copy'[q].id = copy[q].id /\ copy'[q].owner = copy[q].owner
    PROVE  HolderInv'
  <1>1. \A q \in Requests : copy[q].id \in Sessions \cup {None}
    BY DEF Typed, Copy
  <1> QED
    BY <1>1 DEF HolderInv

\* The owner of a row that was only taken from.
LEMMA ReducedOwner ==
    ASSUME Reduced
    PROVE  \A s \in Sessions : row'[s].owner \in {None, row[s].owner}
  BY DEF Reduced, NoRow

\* HolderInv is preserved.
LEMMA HandleHolder ==
    ASSUME Typed, StepInv, RowsInv, HolderInv, NEW r \in Requests, Handle(r)
    PROVE  HolderInv'
  <1>0. \A q \in Requests : copy[q].id \in Sessions \cup {None}
    BY DEF Typed, Copy
  <1>1. CASE Begin(r)
    <2>1. /\ row' = row /\ issued' = issued
          /\ \A q \in Requests \ {r} : copy'[q] = copy[q]
      BY <1>1, BeginAfter DEF database
    <2>2. \/ copy'[r].id = None
          \/ \E s \in Sessions : Present(s) /\ copy'[r].id = s /\ copy'[r].owner = row[s].owner
      BY <1>1, BeginAfter DEF NewInactiveSession
    <2>3. CASE copy'[r].id = None
      BY <2>1, <2>3, HolderFrame
    <2>4. CASE \E s \in Sessions : Present(s) /\ copy'[r].id = s /\ copy'[r].owner = row[s].owner
      <3>1. PICK s \in Sessions : Present(s) /\ copy'[r].id = s /\ copy'[r].owner = row[s].owner
        BY <2>4
      <3>2. s \in issued /\ row[s].owner # None
        BY <3>1 DEF RowsInv, Present
      <3>3. \A q \in Requests : copy[q].id = s => copy[q].owner = row[s].owner
        BY <3>2, SessionAssumption DEF HolderInv
      <3> QED
        BY <2>1, <3>1, <3>2, <3>3 DEF HolderInv
    <2> QED
      BY <2>2, <2>3, <2>4
  <1>2. CASE \E s \in Sessions : UpsertCreate(r, s)
    <2>1. PICK s \in Sessions : UpsertCreate(r, s)
      BY <1>2
    <2>2. /\ \A t \in Sessions \ {s} : row'[t] = row[t]
          /\ row'[s].owner = copy[r].owner
          /\ issued' = issued \cup {s}
      BY <2>1, CreateAfter DEF UpsertCreate
    <2>3. /\ copy'[r].id = s /\ copy'[r].owner = copy[r].owner
          /\ \A q \in Requests \ {r} : copy'[q] = copy[q]
      <3>1. Finish(r, "done", s) /\ "done" \in Steps
        BY <2>1 DEF UpsertCreate, Steps
      <3> QED
        BY <3>1, FinishAfter
    <2>4. copy[r].owner # None
      BY <2>1, SessionAssumption DEF UpsertCreate, StepInv, HolderInv
    <2>5. \A q \in Requests : copy[q].id = s => copy[q].owner = copy[r].owner
      <3>1. CASE s \notin issued
        BY <3>1, SessionAssumption DEF HolderInv
      <3>2. CASE copy[r].id = s
        BY <3>2, SessionAssumption DEF HolderInv
      <3> QED
        BY <2>1, <3>1, <3>2 DEF UpsertCreate
    <2> QED
      BY <1>0, <2>2, <2>3, <2>4, <2>5 DEF HolderInv
  <1>3. CASE Ending(r)
    <2>1. /\ issued' = issued
          /\ \A q \in Requests :
               \/ copy'[q].id = None
               \/ copy'[q].id = copy[q].id /\ copy'[q].owner = copy[q].owner
      BY <1>3, EndingAfter
    <2>2. \A s \in Sessions : row'[s].owner \in {None, row[s].owner}
      <3>1. CASE UpsertUpdate(r)
        BY <3>1, UpdateAfter
      <3>2. CASE WriteExpiry(r)
        BY <3>2, WriteAfter
      <3>3. CASE Sparing(r)
        BY <3>3, HandleReduces, ReducedOwner
      <3> QED
        BY <1>3, <3>1, <3>2, <3>3 DEF Ending, Sparing
    <2> QED
      BY <2>1, <2>2, HolderFrame
  <1>4. CASE \E i \in Identities, m \in Methods : Authenticate(r, i, m)
    <2>1. PICK i \in Identities, m \in Methods : Authenticate(r, i, m)
      BY <1>4
    <2>2. PICK c : c = SessionFor(copy[r], m, i)
      OBVIOUS
    <2>3. /\ c \in {copy[r], NewInactiveSession}
          /\ c.owner \in {None, i}
          /\ copy'[r].id = c.id /\ copy'[r].owner = i
          /\ \A q \in Requests \ {r} : copy'[q] = copy[q]
      BY <2>1, <2>2, AuthenticateAfter
    <2>4. row' = row /\ issued' = issued
      BY <2>1 DEF Authenticate, database
    <2>5. \/ copy'[r].id = None
          \/ copy'[r].id = copy[r].id /\ copy'[r].owner = copy[r].owner
      <3>1. CASE c = copy[r]
        BY <2>3, <3>1 DEF HolderInv
      <3>2. CASE c = NewInactiveSession
        BY <2>3, <3>2 DEF NewInactiveSession
      <3> QED
        BY <2>3, <3>1, <3>2
    <2> QED
      BY <2>3, <2>4, <2>5, HolderFrame
  <1>5. CASE \E m \in Methods : SessionAddAuthenticationMethods(r, m)
    <2>1. PICK m \in Methods : SessionAddAuthenticationMethods(r, m)
      BY <1>5
    <2>2. /\ copy[r].id \in Sessions
          /\ copy'[r].id = copy[r].id
          /\ copy'[r].owner = row[copy[r].id].owner
          /\ \A q \in Requests \ {r} : copy'[q] = copy[q]
      BY <2>1, AddAfter
    <2>3. row' = row /\ issued' = issued /\ Present(copy[r].id)
      BY <2>1 DEF SessionAddAuthenticationMethods, database
    <2>4. copy'[r].owner = copy[r].owner
      BY <2>2, <2>3, SessionAssumption DEF HolderInv, RowsInv, Present
    <2> QED
      BY <2>2, <2>3, <2>4, HolderFrame
  <1>6. CASE SessionDestroyer(r) \/ UpsertExists(r) \/ SelectBatch(r) \/ WildcardBatch(r)
    <2>1. copy' = copy /\ issued' = issued
      BY <1>6 DEF SessionDestroyer, RevokeSessionsIdentityExcept, UpsertExists, SelectBatch,
                  WildcardBatch,
                  database
    <2>2. Reduced
      BY <1>6, HandleReduces DEF Sparing
    <2> QED
      BY <2>1, <2>2, ReducedOwner, HolderFrame
  <1> QED
    BY <1>1, <1>2, <1>3, <1>4, <1>5, <1>6 DEF Handle, Begin, Ending
\* A request that does not move keeps what it has, and time only helps.
LEMMA CopyFrame ==
    ASSUME Typed, NEW q \in Requests, CopyOK(q),
           copy'[q] = copy[q], read'[q] = read[q], step'[q] = step[q],
           now' \in 0 .. MaxTime, now <= now'
    PROVE  CopyOK(q)'
  <1>1. /\ copy[q].expires \in Int /\ read[q].expires \in Int
        /\ now \in Int /\ now' \in Int /\ Lifespan \in Int
    BY SessionAssumption DEF Typed, Copy, Row, Times
  <1>2. \A a, b, c, d \in Int : b <= c /\ a <= b + d => a <= c + d
    OBVIOUS
  <1>3. copy[q].expires <= now' + Lifespan /\ read[q].expires <= now' + Lifespan
    BY <1>1, <1>2 DEF CopyOK
  <1> QED
    BY <1>3 DEF CopyOK, EarnedBy

\* CopyInv is preserved.
LEMMA HandleCopy ==
    ASSUME Typed, StepInv, RowsInv, HolderInv, CopyInv, NEW r \in Requests, Handle(r)
    PROVE  CopyInv'
  <1>0. /\ now \in 0 .. MaxTime /\ now \in Int /\ Lifespan \in Nat /\ 0 <= now + Lifespan
        /\ NoRow.expires = 0 /\ NoRow.amr = {}
    <2>1. /\ now \in 0 .. MaxTime /\ now \in Int /\ Lifespan \in Nat /\ 0 <= now + Lifespan
      BY SessionAssumption DEF Typed
    <2>2. NoRow.expires = 0 /\ NoRow.amr = {}
      BY DEF NoRow
    <2> QED
      BY <2>1, <2>2
  <1>1. CopyOK(r)
    BY DEF CopyInv
  <1>2. ASSUME now' = now, CopyOK(r)',
               \A q \in Requests \ {r} :
                   step'[q] = step[q] /\ copy'[q] = copy[q] /\ read'[q] = read[q]
        PROVE  CopyInv'
    <2>1. \A q \in Requests \ {r} : CopyOK(q)'
      BY <1>0, <1>2, CopyFrame DEF CopyInv
    <2> QED
      BY <1>2, <2>1 DEF CopyInv
  <1>3. CASE Begin(r)
    <2>1. /\ now' = now
          /\ \A q \in Requests \ {r} :
                 step'[q] = step[q] /\ copy'[q] = copy[q] /\ read'[q] = read[q]
      BY <1>3, BeginAfter DEF database
    <2>2. step'[r] \in {"authenticate", "get", "write", "sweep"}
      BY <1>3, BeginAfter
    <2>3. CASE copy'[r] = NewInactiveSession /\ read'[r] = NoRow /\ step'[r] # "write"
      <3>1. /\ copy'[r].id = None /\ copy'[r].amr = {} /\ copy'[r].aal = 0
            /\ copy'[r].expires = 0
        BY <2>3 DEF NewInactiveSession
      <3>2. CopyOK(r)'
        BY <1>0, <2>1, <2>2, <2>3, <3>1 DEF CopyOK, EarnedBy
      <3> QED
        BY <1>2, <2>1, <3>2
    <2>4. CASE \E s \in Sessions :
                     /\ read'[r] = row[s]
                     /\ copy'[r].owner = row[s].owner
                     /\ copy'[r].amr = row[s].amr /\ copy'[r].aal = row[s].aal
                     /\ copy'[r].active => row[s].active
                     /\ step'[r] = "authenticate" => row[s].active
                     /\ copy'[r].expires = IF step'[r] = "write" THEN now + Lifespan
                                           ELSE row[s].expires
      <3>1. PICK s \in Sessions :
                     /\ read'[r] = row[s]
                     /\ copy'[r].owner = row[s].owner
                     /\ copy'[r].amr = row[s].amr /\ copy'[r].aal = row[s].aal
                     /\ copy'[r].active => row[s].active
                     /\ step'[r] = "authenticate" => row[s].active
                     /\ copy'[r].expires = IF step'[r] = "write" THEN now + Lifespan
                                           ELSE row[s].expires
        BY <2>4
      <3>2. /\ EarnedBy(row[s].amr, row[s].aal, row[s].owner)
            /\ row[s].expires <= now + Lifespan /\ row[s].expires \in Int
        BY DEF RowsInv, Typed, Row, Times
      <3>3. EarnedBy(copy[r].amr, copy[r].aal, copy[r].owner)'
        BY <3>1, <3>2 DEF EarnedBy
      <3>4. /\ copy'[r].expires <= now + Lifespan /\ read'[r].expires <= now + Lifespan
            /\ read'[r].expires <= copy'[r].expires
        BY <1>0, <3>1, <3>2
      <3>5. CopyOK(r)'
        BY <2>1, <3>1, <3>3, <3>4 DEF CopyOK
      <3> QED
        BY <1>2, <2>1, <3>5
    <2> QED
      BY <1>3, <2>3, <2>4, BeginAfter
  <1>4. CASE Ending(r) \/ \E s \in Sessions : UpsertCreate(r, s)
    <2>1. /\ step'[r] \in {"done", "failed"}
          /\ copy'[r].amr = {} /\ copy'[r].aal = 0 /\ copy'[r].expires = 0
          /\ read'[r] = NoRow
          /\ \A q \in Requests \ {r} :
                 step'[q] = step[q] /\ copy'[q] = copy[q] /\ read'[q] = read[q]
          /\ now' = now
      <3>1. CASE Ending(r)
        BY <3>1, EndingAfter
      <3>2. CASE \E s \in Sessions : UpsertCreate(r, s)
        <4>1. PICK s \in Sessions : UpsertCreate(r, s)
          BY <3>2
        <4>2. Finish(r, "done", s) /\ "done" \in Steps /\ now' = now
          BY <4>1 DEF UpsertCreate, Steps
        <4>3. copy'[r].expires = 0
          BY <4>2 DEF Finish, NewInactiveSession, Typed
        <4> QED
          BY <4>2, <4>3, FinishAfter
      <3> QED
        BY <1>4, <3>1, <3>2
    <2>2. CopyOK(r)'
      BY <1>0, <2>1 DEF CopyOK, EarnedBy
    <2> QED
      BY <1>2, <2>1, <2>2
  <1>5. CASE \E i \in Identities, m \in Methods : Authenticate(r, i, m)
    <2>1. PICK i \in Identities, m \in Methods : Authenticate(r, i, m)
      BY <1>5
    <2>2. PICK c : c = SessionFor(copy[r], m, i)
      OBVIOUS
    <2>3. /\ c \in {copy[r], NewInactiveSession}
          /\ c.owner \in {None, i} /\ c \in Copy
          /\ copy'[r].id = c.id /\ copy'[r].owner = i
          /\ copy'[r].expires = now + Lifespan
          /\ (\A e \in c.amr : e.by = i) =>
                 c.amr \subseteq copy'[r].amr /\ EarnedBy(copy'[r].amr, copy'[r].aal, i)
          /\ step'[r] \in {"hooks", "create", "exists"}
          /\ \A q \in Requests \ {r} : step'[q] = step[q] /\ copy'[q] = copy[q]
      BY <2>1, <2>2, AuthenticateAfter
    <2>4. now' = now /\ read' = read /\ step[r] = "authenticate"
      BY <2>1 DEF Authenticate, database
    <2>5. EarnedBy(c.amr, c.aal, c.owner)
      <3>1. CASE c = copy[r]
        BY <1>1, <3>1 DEF CopyOK
      <3>2. CASE c = NewInactiveSession
        BY <3>2 DEF NewInactiveSession, EarnedBy
      <3> QED
        BY <2>3, <3>1, <3>2
    <2>6. \A e \in c.amr : e.by = i
      <3>1. ASSUME NEW e \in c.amr PROVE e.by \in Identities /\ e.by = c.owner
        BY <2>3, <2>5, <3>1 DEF Copy, Entry, EarnedBy
      <3> QED
        BY <2>3, <3>1, SessionAssumption
    <2>7. EarnedBy(copy[r].amr, copy[r].aal, copy[r].owner)'
      BY <2>3, <2>6 DEF EarnedBy
    <2>8. copy'[r].id # None => c = copy[r] /\ copy[r].id # None
      <3>1. CASE c = NewInactiveSession
        BY <2>3, <3>1 DEF NewInactiveSession
      <3> QED
        BY <2>3, <3>1
    <2>9. read[r].expires <= now + Lifespan
      BY <1>1 DEF CopyOK
    <2>10. copy'[r].id # None => read'[r].amr \subseteq copy'[r].amr /\ read'[r].active
      BY <1>1, <2>3, <2>4, <2>6, <2>8 DEF CopyOK
    <2>11. now + Lifespan <= now + Lifespan
      BY <1>0
    <2>12. CopyOK(r)'
      BY <2>3, <2>4, <2>7, <2>9, <2>10, <2>11 DEF CopyOK
    <2> QED
      BY <1>2, <2>3, <2>4, <2>12
  <1>6. CASE \E m \in Methods : SessionAddAuthenticationMethods(r, m)
    <2>1. PICK m \in Methods : SessionAddAuthenticationMethods(r, m)
      BY <1>6
    <2> DEFINE s == copy[r].id
    <2>2. /\ s \in Sessions
          /\ copy'[r].owner = row[s].owner
          /\ copy'[r].active => row[s].active
          /\ copy'[r].expires = row[s].expires
          /\ (\A e \in row[s].amr : e.by = copy[r].owner) =>
                  /\ row[s].amr \subseteq copy'[r].amr
                  /\ EarnedBy(copy'[r].amr, copy'[r].aal, copy[r].owner)
          /\ read'[r] = row[s] /\ step'[r] = "exists"
          /\ \A q \in Requests \ {r} :
                  step'[q] = step[q] /\ copy'[q] = copy[q] /\ read'[q] = read[q]
      BY <2>1, AddAfter
    <2>3. now' = now /\ Present(s)
      BY <2>1 DEF SessionAddAuthenticationMethods, database
    <2>4. row[s].owner = copy[r].owner
      BY <2>2, <2>3, SessionAssumption DEF HolderInv, RowsInv, Present
    <2>5. /\ \A e \in row[s].amr : e.by = copy[r].owner
          /\ row[s].expires <= now + Lifespan /\ row[s].expires \in Int
      BY <2>2, <2>4 DEF RowsInv, EarnedBy, Typed, Row, Times
    <2>6. EarnedBy(copy[r].amr, copy[r].aal, copy[r].owner)'
      BY <2>2, <2>4, <2>5 DEF EarnedBy
    <2>7. row[s].expires <= row[s].expires
      BY <2>5
    <2>8. CopyOK(r)'
      BY <2>2, <2>3, <2>5, <2>6, <2>7 DEF CopyOK
    <2> QED
      BY <1>2, <2>2, <2>3, <2>8
  <1>7. CASE SessionDestroyer(r) \/ UpsertExists(r) \/ SelectBatch(r) \/ WildcardBatch(r)
    <2>1. copy' = copy /\ read' = read /\ now' = now
      BY <1>7 DEF SessionDestroyer, RevokeSessionsIdentityExcept, UpsertExists, SelectBatch,
                  WildcardBatch,
                  database
    <2>2. PICK label \in Steps : Continue(r, label)
      BY <1>7 DEF SessionDestroyer, UpsertExists, SelectBatch,
                  WildcardBatch, UpsertSession, Steps
    <2>3. step'[r] = label /\ \A q \in Requests \ {r} : step'[q] = step[q]
      BY <2>2, ContinueAfter DEF Typed
    <2>4. \/ step[r] \in {"hooks", "exists"} /\ step'[r] \in {"exists", "update", "create"}
          \/ step'[r] \in {"sweep", "batch", "done"}
      BY <1>7, <2>3, ContinueAfter
         DEF SessionDestroyer, UpsertExists, SelectBatch,
                  WildcardBatch, UpsertSession, Continue, Typed
    <2>5. CopyOK(r)'
      BY <1>1, <2>1, <2>4 DEF CopyOK
    <2> QED
      BY <1>2, <2>1, <2>3, <2>5
  <1> QED
    BY <1>3, <1>4, <1>5, <1>6, <1>7 DEF Handle, Begin, Ending
-----------------------------------------------------------------------------
(* Batches *)

\* A batch keeps its rows, or is known to have lost one.
Kept(q) == (q \in short => q \in short') /\ (q \in short' \/ batch'[q] = batch[q])

\* Nobody touches a batch.
LEMMA UnchangedBulk ==
    ASSUME BulkType, UNCHANGED bulk
    PROVE  BulkType' /\ \A q \in Requests : Kept(q)
  BY DEF BulkType, bulk, Kept

\* A deletion shrinks the batches of the others, and says so.
LEMMA DeleteBulk ==
    ASSUME BulkType, NEW S, NEW others \in SUBSET Requests, Delete(S, others)
    PROVE  BulkType' /\ \A q \in others : Kept(q)
  BY DEF BulkType, Delete, Kept

\* A step of a request.
LEMMA HandleBulk ==
    ASSUME BulkType, NEW r \in Requests, Handle(r)
    PROVE  BulkType' /\ \A q \in Requests \ {r} : Kept(q)
  <1>1. CASE UNCHANGED bulk
    BY <1>1, UnchangedBulk
  <1>2. CASE SelectBatch(r)
    BY <1>2 DEF SelectBatch, BulkType, Kept
  <1>3. CASE WildcardBatch(r)
    <2>1. CASE Delete(batch[r], Requests \ {r})
      BY <2>1, DeleteBulk
    <2>2. CASE batch' = [batch EXCEPT ![r] = {}] /\ UNCHANGED short
      BY <2>2 DEF BulkType, Kept
    <2> QED
      BY <1>3, <2>1, <2>2 DEF WildcardBatch
  <1>4. CASE Fail(r)
    BY <1>4 DEF Fail, BulkType, Kept
  <1> QED
    BY <1>1, <1>2, <1>3, <1>4
       DEF Handle, LoginWithSession, SettingsWithSession, ExtendSession, OwnSession,
           UpsertCreate, DeleteMySession, LoginWithoutSession, Authenticate, SessionDestroyer,
           RevokeSessionsIdentityExcept, SessionAddAuthenticationMethods, UpsertExists,
           UpsertUpdate, WriteExpiry, Logout, DeleteMySessions, ManageAllSessions

\* A step of nobody's request.
LEMMA AdministerBulk ==
    ASSUME BulkType, Administer
    PROVE  BulkType' /\ \A q \in Requests : Kept(q)
  <1>1. CASE UNCHANGED bulk
    BY <1>1, UnchangedBulk
  <1>2. ASSUME NEW S, Delete(S, Requests) PROVE BulkType' /\ \A q \in Requests : Kept(q)
    BY <1>2, DeleteBulk
  <1> QED
    BY <1>1, <1>2
       DEF Administer, DisableSession, DeleteSessionsByIDs, RevokeSessionsByIdentities,
           DeleteIdentitySessions, SetAccountState, DeleteExpiredSessions, Tick

\* In every reachable state the batches are well typed.
LEMMA BulkTyped == Spec => []BulkType
  <1>1. Init => BulkType
    BY DEF Init, BulkType
  <1>2. BulkType /\ [Next]_vars => BulkType'
    BY HandleBulk, AdministerBulk, NextCases, UnchangedBulk DEF vars
  <1> QED
    BY <1>1, <1>2, PTL DEF Spec

-----------------------------------------------------------------------------
(* Safety *)

\* The inductive invariant.
SessionInv == Typed /\ StepInv /\ RowsInv /\ HolderInv /\ CopyInv

\* It holds at first and is preserved.
LEMMA InvInductive ==
    /\ Init => SessionInv
    /\ SessionInv /\ [Next]_vars => SessionInv'
  <1>1. ASSUME Init PROVE SessionInv
    <2>1. Typed /\ StepInv
      BY <1>1, TypesInductive
    <2>2. NoRow.amr = {} /\ NoRow.aal = 0 /\ NoRow.expires = 0 /\ 0 <= now + Lifespan
      <3>1. NoRow.amr = {} /\ NoRow.aal = 0 /\ NoRow.expires = 0
        BY DEF NoRow
      <3>2. 0 <= now + Lifespan
        BY <1>1, SessionAssumption DEF Init
      <3> QED
        BY <3>1, <3>2
    <2>3. RowsInv
      BY <1>1, <2>2 DEF Init, RowsInv, EarnedBy
    <2>4. /\ NewInactiveSession.id = None /\ NewInactiveSession.amr = {}
          /\ NewInactiveSession.aal = 0 /\ NewInactiveSession.expires = 0
      BY DEF NewInactiveSession
    <2>5. HolderInv
      BY <1>1, <2>4 DEF Init, HolderInv
    <2>6. CopyInv
      BY <1>1, <2>2, <2>4 DEF Init, CopyInv, CopyOK, EarnedBy
    <2> QED
      BY <2>1, <2>3, <2>5, <2>6 DEF SessionInv
  <1>2. ASSUME SessionInv, [Next]_vars PROVE SessionInv'
    <2> USE <1>2 DEF SessionInv
    <2>1. Typed' /\ StepInv'
      BY TypesInductive
    <2>2. CASE \E r \in Requests : Handle(r)
      BY <2>1, <2>2, HandleRows, HandleHolder, HandleCopy
    <2>3. CASE Administer
      <3>1. /\ Reduced /\ issued' = issued
            /\ now' \in 0 .. MaxTime /\ now <= now'
            /\ copy' = copy /\ read' = read /\ step' = step
        BY <2>3, AdministerAfter DEF request
      <3>2. RowsInv'
        BY <3>1, ReducedRows
      <3>3. HolderInv'
        BY <3>1, ReducedOwner, HolderFrame
      <3>4. CopyInv'
        BY <3>1, CopyFrame DEF CopyInv
      <3> QED
        BY <2>1, <3>2, <3>3, <3>4
    <2>4. CASE UNCHANGED vars
      <3>1. RowsInv' /\ HolderInv'
        BY <2>4 DEF RowsInv, HolderInv, EarnedBy, vars, database, request
      <3>2. CopyInv'
        BY <2>4 DEF CopyInv, CopyOK, EarnedBy, vars, database, request
      <3> QED
        BY <2>1, <3>1, <3>2
    <2> QED
      BY <2>2, <2>3, <2>4, NextCases
  <1> QED
    BY <1>1, <1>2

\* The type invariant: every step that looks up a row has an id to look it up by, and
\* no expiry or assurance level leaves its range.
THEOREM SessionTypeCorrect == Spec => []TypeOK
  <1>1. SessionInv /\ BulkType => TypeOK
    BY DEF SessionInv, Typed, BulkType, TypeOK
  <1>2. Spec => []SessionInv
    BY InvInductive, PTL DEF Spec
  <1> QED
    BY <1>1, <1>2, BulkTyped, PTL

\* Whatever a session says was completed, its owner completed, whichever copies of it
\* are written back in whichever order, re-creation after a deletion included.
THEOREM AssuranceEarned == Spec => []AssuranceIsTheOwners
  <1>1. SessionInv => AssuranceIsTheOwners
    BY DEF SessionInv, RowsInv, EarnedBy, AssuranceIsTheOwners
  <1> QED
    BY <1>1, InvInductive, PTL DEF Spec

\* A session that was revoked or deleted comes back only by a login or a settings
\* change that read it while it was active.
THEOREM RevokedComesBackByStaleLogin == Spec => ComesBackByStaleLogin
  <1> DEFINE Good == \A s \in issued : ~Active(s) /\ Active(s)' =>
                        \E r \in Requests :
                            /\ Writes(r, s)
                            /\ kind[r] \in {"login", "settings"}
                            /\ read[r].active
  <1>1. ASSUME SessionInv, [Next]_vars PROVE [Good]_vars
    <2> SUFFICES ASSUME NEW s \in issued, ~Active(s), Active(s)'
                 PROVE  \E r \in Requests :
                            /\ Writes(r, s)
                            /\ kind[r] \in {"login", "settings"}
                            /\ read[r].active
      OBVIOUS
    <2> USE <1>1 DEF SessionInv
    <2>0. s \in Sessions
      BY DEF Typed
    <2>1. row'[s] # NoRow /\ row'[s].active /\ row'[s] # row[s]
      BY DEF Active, Present
    <2>2. ~Reduced
      BY <2>0, <2>1 DEF Reduced, Active, Present
    <2>3. PICK r \in Requests : Handle(r)
      BY <2>1, <2>2, NextCases, AdministerAfter DEF vars, database
    <2>4. ~Sparing(r)
      BY <2>2, HandleReduces
    <2>5. CASE UpsertUpdate(r)
      <3>1. copy[r].id = s
        BY <2>0, <2>1, <2>5, UpdateAfter
      <3>2. Present(s)
        BY <2>1, <2>5, <3>1, UpdateAfter
      <3>3. copy[r].active
        BY <2>1, <2>5, <3>1, <3>2, UpdateAfter
      <3>4. step[r] = "update" /\ Finish(r, "done", s)
        BY <2>5, <3>1 DEF UpsertUpdate
      <3>5. step'[r] = "done" /\ copy'[r].id = s
        BY <2>0, <3>4, FinishAfter DEF Steps
      <3>6. kind[r] \in {"login", "settings"} /\ copy[r].id # None
        BY <3>4 DEF StepInv
      <3>7. read[r].active
        BY <3>3, <3>4, <3>6 DEF CopyInv, CopyOK
      <3> QED
        BY <3>4, <3>5, <3>6, <3>7 DEF Writes
    <2>6. CASE \E t \in Sessions : UpsertCreate(r, t)
      <3>1. PICK t \in Sessions : UpsertCreate(r, t)
        BY <2>6
      <3>2. t = s
        BY <2>0, <2>1, <3>1, CreateAfter
      <3>3. copy[r].active
        BY <2>1, <3>1, <3>2, CreateAfter
      <3>4. step[r] = "create" /\ Finish(r, "done", s) /\ copy[r].id = s
        BY <3>1, <3>2 DEF UpsertCreate
      <3>5. step'[r] = "done" /\ copy'[r].id = s
        BY <2>0, <3>4, FinishAfter DEF Steps
      <3>6. kind[r] \in {"login", "settings"} /\ copy[r].id # None
        BY <2>0, <3>4, SessionAssumption DEF StepInv
      <3>7. read[r].active
        BY <3>3, <3>4, <3>6 DEF CopyInv, CopyOK
      <3> QED
        BY <3>4, <3>5, <3>6, <3>7 DEF Writes
    <2>7. CASE WriteExpiry(r)
      <3>1. copy[r].id = s
        BY <2>0, <2>1, <2>7, WriteAfter
      <3>2. Present(s)
        BY <2>1, <2>7, <3>1, WriteAfter
      <3>3. row'[s].active = row[s].active
        BY <2>7, <3>1, <3>2, WriteAfter
      <3> QED
        BY <2>1, <3>2, <3>3 DEF Active
    <2> QED
      BY <2>3, <2>4, <2>5, <2>6, <2>7 DEF Handle, Sparing, Begin
  <1>2. Spec => []SessionInv
    BY InvInductive, PTL DEF Spec
  <1>3. Spec => [][Good]_vars
    BY <1>1, <1>2, PTL DEF Spec
  <1> QED
    BY <1>3 DEF ComesBackByStaleLogin
\* Methods and time are lost only to a request that read the session before somebody
\* else wrote it.
THEOREM LossesNeedStaleWrite == Spec => LostOnlyToStaleWrite
  <1> DEFINE Lost(s) == ~(row[s].amr \subseteq row'[s].amr) \/ row'[s].expires < row[s].expires
             Good == \A s \in Sessions : Present(s) /\ Present(s)'
                        /\ (~(row[s].amr \subseteq row'[s].amr) \/ row'[s].expires < row[s].expires) =>
                        \E r \in Requests : Writes(r, s) /\ read[r] # row[s]
  <1>1. ASSUME SessionInv, [Next]_vars PROVE [Good]_vars
    <2> SUFFICES ASSUME NEW s \in Sessions, Present(s), Present(s)', Lost(s)
                 PROVE  \E r \in Requests : Writes(r, s) /\ read[r] # row[s]
      OBVIOUS
    <2> USE <1>1 DEF SessionInv
    <2>1. /\ row'[s] # NoRow /\ row[s].expires \in Int
          /\ \A n \in Int : ~(n < n)
      BY DEF Present, Typed, Row, Times
    <2>2. row'[s].amr # row[s].amr \/ row'[s].expires # row[s].expires
      BY <2>1
    <2> HIDE DEF Lost
    <2>3. ~Reduced
      BY <2>1, <2>2 DEF Reduced
    <2>4. PICK r \in Requests : Handle(r)
      BY <2>2, <2>3, NextCases, AdministerAfter DEF vars, database
    <2>5. ~Sparing(r)
      BY <2>3, HandleReduces
    <2>6. \A m, n \in Int : m <= n => ~(n < m)
      OBVIOUS
    <2>7. read[r].expires \in Int /\ copy[r].expires \in Int
      BY DEF Typed, Row, Copy, Times
    <2>8. CASE UpsertUpdate(r)
      <3>1. copy[r].id = s
        BY <2>2, <2>8, UpdateAfter
      <3>2. row'[s].amr = copy[r].amr /\ row'[s].expires = copy[r].expires
        BY <2>8, <3>1, UpdateAfter
      <3>3. step[r] = "update" /\ Finish(r, "done", s)
        BY <2>8, <3>1 DEF UpsertUpdate
      <3>4. step'[r] = "done" /\ copy'[r].id = s
        BY <3>3, FinishAfter DEF Steps
      <3>5. copy[r].id # None
        BY <3>3 DEF StepInv
      <3>6. read[r].amr \subseteq copy[r].amr /\ read[r].expires <= copy[r].expires
        BY <3>3, <3>5 DEF CopyInv, CopyOK
      <3>7. read[r] # row[s]
        BY <2>6, <2>7, <3>2, <3>6 DEF Lost
      <3> QED
        BY <3>3, <3>4, <3>7 DEF Writes
    <2>9. CASE \E t \in Sessions : UpsertCreate(r, t)
      <3>1. PICK t \in Sessions : UpsertCreate(r, t)
        BY <2>9
      <3>2. t = s
        BY <2>2, <3>1, CreateAfter
      <3> QED
        BY <3>1, <3>2 DEF UpsertCreate
    <2>10. CASE WriteExpiry(r)
      <3>1. copy[r].id = s
        BY <2>2, <2>10, WriteAfter
      <3>2. row'[s].amr = row[s].amr /\ row'[s].expires = copy[r].expires
        BY <2>10, <3>1, WriteAfter
      <3>3. step[r] = "write" /\ Finish(r, "done", s)
        BY <2>10, <3>1 DEF WriteExpiry
      <3>4. step'[r] = "done" /\ copy'[r].id = s
        BY <3>3, FinishAfter DEF Steps
      <3>5. read[r].expires <= copy[r].expires
        BY <3>3 DEF CopyInv, CopyOK
      <3>6. read[r] # row[s]
        BY <2>6, <2>7, <3>2, <3>5 DEF Lost
      <3> QED
        BY <3>3, <3>4, <3>6 DEF Writes
    <2> QED
      BY <2>4, <2>5, <2>8, <2>9, <2>10 DEF Handle, Sparing, Begin
  <1>2. Spec => []SessionInv
    BY InvInductive, PTL DEF Spec
  <1>3. Spec => [][Good]_vars
    BY <1>1, <1>2, PTL DEF Spec
  <1> QED
    BY <1>3 DEF LostOnlyToStaleWrite
-----------------------------------------------------------------------------
(* Sweeps *)

\* A step of one request leaves the others where they are.
LEMMA HandleFrame ==
    ASSUME Typed, StepInv, NEW r \in Requests, Handle(r), NEW q \in Requests, q # r
    PROVE  step'[q] = step[q] /\ kind'[q] = kind[q] /\ copy'[q] = copy[q]
  <1>1. kind'[q] = kind[q] \/ Begin(r)
    BY DEF Handle, Begin, DeleteMySession, UpsertCreate, Authenticate, SessionDestroyer,
           RevokeSessionsIdentityExcept, SessionAddAuthenticationMethods, UpsertExists,
           UpsertUpdate, WriteExpiry, Logout, DeleteMySessions, SelectBatch, WildcardBatch,
           Fail, Typed
  <1>2. CASE Begin(r)
    BY <1>2, BeginAfter
  <1>3. CASE Ending(r)
    BY <1>1, <1>3, EndingAfter, BeginAfter
  <1>4. CASE \E s \in Sessions : UpsertCreate(r, s)
    <2>1. PICK s \in Sessions : UpsertCreate(r, s)
      BY <1>4
    <2>2. Finish(r, "done", s) /\ "done" \in Steps /\ kind' = kind
      BY <2>1 DEF UpsertCreate, Steps
    <2> QED
      BY <2>2, FinishAfter
  <1>5. CASE \E i \in Identities, m \in Methods : Authenticate(r, i, m)
    <2>1. PICK i \in Identities, m \in Methods : Authenticate(r, i, m)
      BY <1>5
    <2>2. PICK c : c = SessionFor(copy[r], m, i)
      OBVIOUS
    <2> QED
      BY <2>1, <2>2, AuthenticateAfter DEF Authenticate
  <1>6. CASE \E m \in Methods : SessionAddAuthenticationMethods(r, m)
    <2>1. PICK m \in Methods : SessionAddAuthenticationMethods(r, m)
      BY <1>6
    <2> QED
      BY <2>1, AddAfter DEF SessionAddAuthenticationMethods
  <1>7. CASE SessionDestroyer(r) \/ UpsertExists(r) \/ SelectBatch(r) \/ WildcardBatch(r)
    <2>1. copy' = copy /\ kind' = kind
      BY <1>7 DEF SessionDestroyer, RevokeSessionsIdentityExcept, UpsertExists, SelectBatch,
                  WildcardBatch
    <2>2. PICK label \in Steps : Continue(r, label)
      BY <1>7 DEF SessionDestroyer, UpsertExists, SelectBatch,
                  WildcardBatch, UpsertSession, Steps
    <2> QED
      BY <2>1, <2>2, ContinueAfter DEF Typed
  <1> QED
    BY <1>2, <1>3, <1>4, <1>5, <1>6, <1>7 DEF Handle, Begin, Ending

\* What request q waits for stays so: nobody makes a session active behind its back.
Respects(q) ==
    /\ since[q] \subseteq since'[q]
    /\ \A s \in Sessions :
           Active(s)' => \/ Active(s) /\ row'[s].owner = row[s].owner
                         \/ s \in since'[q]

\* Taking from the rows respects every request.
LEMMA ReducedRespects ==
    ASSUME Reduced, NEW q \in Requests, since[q] \subseteq since'[q]
    PROVE  Respects(q)
  BY DEF Reduced, Respects, Active, Present

\* UpsertSession and ExtendSession respect every request that waits for a sweep.
LEMMA WritesRespect ==
    ASSUME Typed, StepInv, NEW r \in Requests, NEW q \in Requests,
           kind[q] \in Sweeping,
           UpsertUpdate(r) \/ (\E s \in Sessions : UpsertCreate(r, s)) \/ WriteExpiry(r)
    PROVE  Respects(q)
  <1>1. CASE UpsertUpdate(r)
    <2> DEFINE s == copy[r].id
    <2>1. s \in Sessions /\ \A t \in Sessions \ {s} : row'[t] = row[t]
      BY <1>1, UpdateAfter
    <2>2. /\ since[q] \subseteq since'[q]
          /\ Present(s) /\ copy[r].active => s \in since'[q]
      <3>1. PICK b \in BOOLEAN : b = (Present(s) /\ copy[r].active)
        BY Zenon
      <3>2. Wrote(s, b)
        BY <1>1, <3>1 DEF UpsertUpdate
      <3> QED
        BY <2>1, <3>1, <3>2, WroteAfter
    <2>3. CASE ~Present(s)
      BY <1>1, <2>2, <2>3, UpdateAfter DEF Respects, Active, Present
    <2>4. CASE Present(s)
      <3>1. row'[s].active = copy[r].active
        BY <1>1, <2>4, UpdateAfter
      <3> QED
        BY <2>1, <2>2, <2>4, <3>1 DEF Respects, Active, Present
    <2> QED
      BY <2>3, <2>4
  <1>2. CASE \E s \in Sessions : UpsertCreate(r, s)
    <2>1. PICK s \in Sessions : UpsertCreate(r, s)
      BY <1>2
    <2>2. row'[s].active = copy[r].active /\ \A t \in Sessions \ {s} : row'[t] = row[t]
      BY <2>1, CreateAfter
    <2>3. since[q] \subseteq since'[q] /\ (copy[r].active => s \in since'[q])
      BY <2>1, WroteAfter DEF UpsertCreate, Typed, Copy
    <2> QED
      BY <2>2, <2>3 DEF Respects, Active, Present
  <1>3. CASE WriteExpiry(r)
    <2> DEFINE s == copy[r].id
    <2>1. s \in Sessions /\ since' = since /\ \A t \in Sessions \ {s} : row'[t] = row[t]
      BY <1>3, WriteAfter DEF WriteExpiry
    <2>2. CASE ~Present(s)
      BY <1>3, <2>1, <2>2, WriteAfter DEF Respects, Active, Present
    <2>3. CASE Present(s)
      <3>1. row'[s].active = row[s].active /\ row'[s].owner = row[s].owner
        BY <1>3, <2>3, WriteAfter
      <3> QED
        BY <2>1, <2>3, <3>1 DEF Respects, Active, Present
    <2> QED
      BY <2>2, <2>3
  <1> QED
    BY <1>1, <1>2, <1>3

\* A request that has swept stays complete as long as it is respected.
LEMMA CompleteFrame ==
    ASSUME Typed, NEW q \in Requests, Complete(q), Respects(q),
           kind'[q] = kind[q], copy'[q].owner = copy[q].owner,
           copy[q].id \in {None, copy'[q].id}
    PROVE  Complete(q)'
  <1> SUFFICES ASSUME NEW s \in Sessions, s \in Swept(q)', Active(s)'
               PROVE  s \in since'[q]
    BY DEF Complete, Swept, OwnedBy
  <1>1. CASE s \in since'[q]
    BY <1>1
  <1>2. CASE Active(s) /\ row'[s].owner = row[s].owner
    <2>1. s \in Swept(q)
      BY <1>2, SessionAssumption DEF Swept, OwnedBy, Active
    <2> QED
      BY <1>2, <2>1 DEF Complete, Respects
  <1> QED
    BY <1>1, <1>2 DEF Respects
\* Revoking all of a user's sessions but one leaves none of the others active.
LEMMA ExceptCompletes ==
    ASSUME Typed, NEW r \in Requests, RevokeSessionsIdentityExcept(r),
           kind[r] \notin {"disableAll", "deleteAll"},
           copy'[r].id = copy[r].id, copy'[r].owner = copy[r].owner
    PROVE  Complete(r)'
  <1>1. Revoke(OwnedBy(copy[r].owner) \ {copy[r].id}) /\ kind' = kind
    BY DEF RevokeSessionsIdentityExcept
  <1>2. Reduced /\ \A s \in Sessions :
                      s \in OwnedBy(copy[r].owner) \ {copy[r].id} => ~row'[s].active
    BY <1>1, RevokeReduces DEF Typed
  <1> SUFFICES ASSUME NEW s \in Sessions, Present(s)', row'[s].owner = copy[r].owner,
                      s # copy[r].id, Active(s)'
               PROVE  FALSE
    BY <1>1 DEF Complete, Swept, OwnedBy
  <1>3. Present(s) /\ row[s].owner = copy[r].owner
    BY <1>2 DEF Reduced, Present
  <1> QED
    BY <1>2, <1>3 DEF OwnedBy, Active

\* A batch that was selected is full, or has all that is active.
LEMMA SelectSelects ==
    ASSUME Typed, RowsInv, BulkType, IsFiniteSet(issued), NEW r \in Requests, SelectBatch(r)
    PROVE  Selected(r)'
  <1> DEFINE matching == {s \in Sessions : IF kind[r] = "disableAll" THEN Active(s) ELSE Present(s)}
  <1>1. matching \subseteq issued
    BY DEF RowsInv, Active, Present
  <1>2. IsFiniteSet(matching)
    BY <1>1, FS_Subset
  <1>3. PICK S \in SUBSET matching :
            /\ Cardinality(S) = IF Cardinality(matching) < BatchSize
                                THEN Cardinality(matching) ELSE BatchSize
            /\ batch' = [batch EXCEPT ![r] = S]
    BY DEF SelectBatch
  <1>4. batch'[r] = S
    BY <1>3 DEF BulkType
  <1>5. \A s \in Sessions : Active(s)' => s \in matching
    BY DEF SelectBatch, database, Active, Present
  <1> HIDE DEF matching
  <1>6. Cardinality(S) = BatchSize \/ S = matching
    BY <1>2, <1>3, FS_Subset
  <1> QED
    BY <1>4, <1>5, <1>6 DEF Selected

\* It stays so as long as its request is respected and it keeps its rows.
LEMMA SelectedFrame ==
    ASSUME NEW q \in Requests, Selected(q), Respects(q), batch'[q] = batch[q]
    PROVE  Selected(q)'
  BY DEF Selected, Respects

\* The last batch leaves nothing behind: it had room for more than there was.
LEMMA LastBatchCompletes ==
    ASSUME Typed, NEW r \in Requests, WildcardBatch(r), Selected(r), step'[r] = "done"
    PROVE  Complete(r)'
  <1>1. Cardinality(batch[r]) # BatchSize
    BY DEF WildcardBatch, More, Continue, Typed
  <1>2. \A s \in Sessions : Active(s) => s \in batch[r] \cup since[r]
    BY <1>1 DEF Selected
  <1>3. since' = since
    BY DEF WildcardBatch
  <1>4. Reduced /\ \A s \in Sessions : s \in batch[r] => ~Active(s)'
    <2>1. CASE Revoke(batch[r])
      BY <2>1, RevokeReduces DEF Typed, Active
    <2>2. CASE Delete(batch[r], Requests \ {r})
      BY <2>2, DeleteReduces DEF Typed, Active, Present
    <2> QED
      BY <2>1, <2>2 DEF WildcardBatch
  <1>5. ASSUME NEW s \in Sessions, Active(s)' PROVE s \in since'[r]
    <2>1. Active(s)
      BY <1>4, <1>5 DEF Reduced, Active, Present
    <2> QED
      BY <1>2, <1>3, <1>4, <1>5, <2>1
  <1> QED
    BY <1>5 DEF Complete, Swept, OwnedBy

\* SweptInv is preserved.
LEMMA HandleSwept ==
    ASSUME SessionInv, BulkType, SweptInv, NEW r \in Requests, Handle(r)
    PROVE  SweptInv'
  <1> USE DEF SessionInv
  <1>1. IsFiniteSet(issued')
    <2>1. \/ issued' = issued
          \/ \E s \in Sessions : issued' = issued \cup {s}
      <3>1. CASE Sparing(r)
        BY <3>1, HandleReduces
      <3>2. CASE ~Sparing(r)
        BY <3>2 DEF Handle, Sparing, Begin, UpsertCreate, UpsertUpdate, WriteExpiry
      <3> QED
        BY <3>1, <3>2
    <2> QED
      BY <2>1, FS_AddElement DEF SweptInv
  <1>0. ASSUME NEW q \in Requests, q # r, kind[q] \in Sweeping PROVE Respects(q)
    <2>1. CASE Sparing(r)
      <3>1. since'[q] = since[q]
        <4>1. CASE Begin(r)
          BY <1>0, <4>1, BeginAfter
        <4> QED
          BY <1>0, <2>1, <4>1
             DEF Sparing, Authenticate, SessionAddAuthenticationMethods, DeleteMySession,
                 SessionDestroyer, RevokeSessionsIdentityExcept, UpsertExists, SelectBatch,
                 WildcardBatch, Logout, DeleteMySessions, Fail, Typed
      <3> QED
        BY <2>1, <3>1, HandleReduces, ReducedRespects
    <2>2. CASE ~Sparing(r)
      <3>1. UpsertUpdate(r) \/ (\E s \in Sessions : UpsertCreate(r, s)) \/ WriteExpiry(r)
        BY <2>2 DEF Handle, Sparing, Begin
      <3> QED
        BY <1>0, <3>1, WritesRespect
    <2> QED
      BY <2>1, <2>2
  <1>2. ASSUME NEW q \in Requests, q # r, Answered(q)'
        PROVE  Complete(q)'
    <2>1. step'[q] = step[q] /\ kind'[q] = kind[q] /\ copy'[q] = copy[q]
      BY <1>2, HandleFrame
    <2>2. Answered(q)
      BY <1>2, <2>1, HandleBulk DEF Answered, Sweeps, Kept
    <2>3. kind[q] \in Sweeping /\ Complete(q)
      BY <2>2 DEF Answered, Sweeps, Sweeping, SweptInv
    <2> QED
      BY <1>0, <1>2, <2>1, <2>3, CompleteFrame
  <1>3. ASSUME Answered(r)' PROVE Complete(r)'
    <2>1. /\ step'[r] \in {"done", "exists", "update", "create"}
          /\ kind'[r] \in Sweeping
          /\ step'[r] # "done" => kind'[r] = "login" /\ Destroyer
          /\ kind'[r] = "login" => Destroyer
      BY <1>3 DEF Answered, Sweeps, Sweeping
    <2>0. ~Fail(r) /\ ~SelectBatch(r) => r \notin short
      <3>1. r \notin short'
        BY <1>3 DEF Answered
      <3>2. CASE WildcardBatch(r)
        BY <3>1, <3>2 DEF WildcardBatch, Delete
      <3> QED
        BY <3>1, <3>2
           DEF Handle, LoginWithSession, SettingsWithSession, ExtendSession, OwnSession,
               UpsertCreate, DeleteMySession, LoginWithoutSession, Authenticate,
               SessionDestroyer, RevokeSessionsIdentityExcept, UpsertExists, UpsertUpdate,
               SessionAddAuthenticationMethods, WriteExpiry, Logout, DeleteMySessions,
               ManageAllSessions, bulk
    <2>2. CASE Begin(r)
      BY <2>1, <2>2, BeginAfter
    <2>3. CASE \E i \in Identities, m \in Methods : Authenticate(r, i, m)
      <3>1. PICK i \in Identities, m \in Methods : Authenticate(r, i, m)
        BY <2>3
      <3>2. PICK c : c = SessionFor(copy[r], m, i)
        OBVIOUS
      <3>3. step'[r] = IF Destroyer THEN "hooks" ELSE IF c.id = None THEN "create" ELSE "exists"
        BY <3>1, <3>2, AuthenticateAfter
      <3> QED
        BY <2>1, <3>3
    <2>4. CASE \E m \in Methods : SessionAddAuthenticationMethods(r, m)
      <3>1. PICK m \in Methods : SessionAddAuthenticationMethods(r, m)
        BY <2>4
      <3>2. step'[r] = "exists" /\ kind' = kind /\ kind[r] = "settings"
        BY <3>1, AddAfter DEF SessionAddAuthenticationMethods, StepInv
      <3> QED
        BY <2>1, <3>2
    <2>5. CASE (\E s \in Sessions : DeleteMySession(r, s)) \/ Logout(r) \/ WriteExpiry(r) \/ Fail(r)
      <3>1. kind'[r] \in {"revokeOne", "logout", "extend", "none"}
        BY <2>5 DEF DeleteMySession, Logout, WriteExpiry, Fail, StepInv, Typed
      <3> QED
        BY <2>1, <3>1 DEF Sweeping
    <2>6. CASE SessionDestroyer(r)
      <3>1. kind[r] = "login" /\ copy' = copy /\ RevokeSessionsIdentityExcept(r)
        BY <2>6 DEF SessionDestroyer, StepInv
      <3> QED
        BY <3>1, ExceptCompletes
    <2>7. CASE DeleteMySessions(r)
      <3>1. kind[r] = "revokeOthers" /\ RevokeSessionsIdentityExcept(r) /\ Finish(r, "done", copy[r].id)
        BY <2>7 DEF DeleteMySessions
      <3>2. copy'[r].id = copy[r].id /\ copy'[r].owner = copy[r].owner
        BY <3>1 DEF Finish, NewInactiveSession, Typed
      <3> QED
        BY <3>1, <3>2, ExceptCompletes
    <2>8. CASE WildcardBatch(r)
      <3>1. step[r] = "batch" /\ step'[r] \in {"sweep", "done"} /\ ~Fail(r) /\ ~SelectBatch(r)
        BY <2>8 DEF WildcardBatch, Continue, Typed, Fail, Finish, SelectBatch
      <3>2. Selected(r)
        BY <2>0, <3>1 DEF SweptInv
      <3> QED
        BY <2>1, <2>8, <3>1, <3>2, LastBatchCompletes
    <2>9. CASE UpsertExists(r) \/ UpsertUpdate(r) \/ \E s \in Sessions : UpsertCreate(r, s)
      <3>1. kind' = kind /\ step[r] \in {"exists", "update", "create"}
        BY <2>9 DEF UpsertExists, UpsertUpdate, UpsertCreate
      <3>2. kind[r] = "login" /\ Destroyer
        BY <2>1, <3>1 DEF StepInv, Sweeping
      <3>3. Complete(r) /\ kind[r] \in Sweeping
        <4>1. r \notin short
          BY <1>3, <2>9 DEF UpsertExists, UpsertUpdate, UpsertCreate, bulk, Answered
        <4> QED
          BY <3>1, <3>2, <4>1 DEF Answered, SweptInv, Sweeping
      <3>4. Respects(r)
        <4>1. CASE UpsertExists(r)
          BY <4>1, UnchangedReduces, ReducedRespects DEF UpsertExists, database, Typed
        <4> QED
          BY <2>9, <3>3, <4>1, WritesRespect
      <3>5. copy'[r].owner = copy[r].owner /\ copy[r].id \in {None, copy'[r].id}
        <4>1. CASE UpsertExists(r)
          BY <4>1 DEF UpsertExists
        <4>2. CASE ~UpsertExists(r)
          <5>1. PICK t \in Sessions \cup {None} :
                      Finish(r, "done", t) /\ copy[r].id \in {None, t}
            BY <2>9, <4>2 DEF UpsertUpdate, UpsertCreate, Typed, Copy
          <5> QED
            BY <5>1, FinishAfter DEF Steps
        <4> QED
          BY <4>1, <4>2
      <3> QED
        BY <3>1, <3>3, <3>4, <3>5, CompleteFrame
    <2>10. CASE SelectBatch(r)
      BY <2>1, <2>10 DEF SelectBatch, Continue, Typed
    <2> QED
      BY <2>2, <2>3, <2>4, <2>5, <2>6, <2>7, <2>8, <2>9, <2>10 DEF Handle, Begin
  <1>4. ASSUME NEW q \in Requests, q # r, step'[q] = "batch", q \notin short'
        PROVE  Selected(q)'
    <2>1. step[q] = "batch" /\ kind[q] \in Sweeping
      BY <1>4, HandleFrame DEF StepInv, Sweeping
    <2>2. q \notin short /\ batch'[q] = batch[q]
      BY <1>4, HandleBulk DEF Kept
    <2> QED
      BY <1>0, <1>4, <2>1, <2>2, SelectedFrame DEF SweptInv
  <1>5. ASSUME step'[r] = "batch" PROVE Selected(r)'
    <2>1. SelectBatch(r)
      <3>1. ~Begin(r)
        BY <1>5, BeginAfter
      <3>2. ~Ending(r)
        BY <1>5, EndingAfter
      <3>3. ~(\E s \in Sessions : UpsertCreate(r, s))
        BY <1>5 DEF UpsertCreate, Finish, Continue, Typed
      <3>4. ~(\E i \in Identities, m \in Methods : Authenticate(r, i, m))
        BY <1>5 DEF Authenticate, AfterActivation, UpsertSession, Continue, Typed
      <3>5. ~(\E m \in Methods : SessionAddAuthenticationMethods(r, m))
        BY <1>5 DEF SessionAddAuthenticationMethods, Continue, Typed
      <3>6. ~SessionDestroyer(r) /\ ~UpsertExists(r) /\ ~WildcardBatch(r)
        BY <1>5 DEF SessionDestroyer, UpsertExists, WildcardBatch, UpsertSession, Continue,
                    Typed
      <3> QED
        BY <3>1, <3>2, <3>3, <3>4, <3>5, <3>6 DEF Handle, Begin, Ending
    <2> QED
      BY <2>1, SelectSelects DEF SweptInv
  <1> QED
    BY <1>1, <1>2, <1>3, <1>4, <1>5 DEF SweptInv

\* When a request that revokes all sessions has been answered, and no row of its last
\* batch was deleted between the sub-select and the write, every session that is
\* active was written active since the sweep began, for every batch size and every
\* number of sessions.
THEOREM SweepsComplete == Spec => []SweepIsComplete
  <1>1. Init => SweptInv
    BY FS_EmptySet DEF Init, SweptInv, Answered, Sweeps
  <1>2. ASSUME SessionInv, BulkType, SweptInv, [Next]_vars PROVE SweptInv'
    <2>1. CASE \E r \in Requests : Handle(r)
      BY <1>2, <2>1, HandleSwept
    <2>2. CASE Administer
      <3>1. /\ Reduced /\ issued' = issued
            /\ copy' = copy /\ kind' = kind /\ step' = step /\ since' = since
        BY <1>2, <2>2, AdministerAfter DEF request, SessionInv
      <3>2. \A q \in Requests : Kept(q) /\ Respects(q)
        BY <1>2, <2>2, <3>1, AdministerBulk, ReducedRespects
      <3>3. ASSUME NEW q \in Requests, Answered(q)' PROVE Complete(q)'
        <4>1. Answered(q)
          BY <3>1, <3>2, <3>3 DEF Answered, Sweeps, Kept
        <4>2. Complete(q) /\ Respects(q)
          BY <1>2, <3>2, <4>1 DEF SweptInv
        <4> QED
          BY <1>2, <3>1, <4>2, CompleteFrame DEF SessionInv
      <3>4. ASSUME NEW q \in Requests, step'[q] = "batch", q \notin short'
            PROVE  Selected(q)'
        <4>1. q \notin short /\ batch'[q] = batch[q]
          BY <3>2, <3>4 DEF Kept
        <4> QED
          BY <1>2, <3>1, <3>2, <3>4, <4>1, SelectedFrame DEF SweptInv
      <3> QED
        BY <1>2, <3>1, <3>3, <3>4 DEF SweptInv
    <2>3. CASE UNCHANGED vars
      BY <1>2, <2>3 DEF SweptInv, Answered, Sweeps, Complete, Selected, Swept, OwnedBy, Active,
                        Present, vars, database, request, bulk
    <2> QED
      BY <1>2, <2>1, <2>2, <2>3, NextCases
  <1>3. SweptInv => SweepIsComplete
    BY DEF SweptInv, SweepIsComplete, Answered, Complete
  <1>4. Spec => []SessionInv
    BY InvInductive, PTL DEF Spec
  <1> QED
    BY <1>1, <1>2, <1>3, <1>4, BulkTyped, PTL DEF Spec
=============================================================================
