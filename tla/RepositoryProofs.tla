-------------------------- MODULE RepositoryProofs --------------------------
(***************************************************************************)
(* Theorems about Repository for any number of sessions, helpers, power    *)
(* losses and edits: a receipt is for good, a save reported as not made is *)
(* not made later, no update is overwritten, and the two files are never   *)
(* more than one save apart; and that the repository keeps the promise of  *)
(* SaveSlot.                                                               *)
(***************************************************************************)
EXTENDS RepositoryImplementsSlot, SequenceTheorems, TLAPS

----------------------------------------------------------------------------
(***************************************************************************)
(* The inductive invariant, in three parts that are proved one after the   *)
(* other: the shape of locks, helpers and sessions; the secrecy of what    *)
(* was never written; and the certainty of what was synced.                *)
(***************************************************************************)
(* Whoever is between the lock and the reply holds the lock.               *)
Locked == {"Confirm", "KeepBackup", "SyncBackup", "Recheck", "Replace", "SyncPrimary"}

LockIsHeld == \A h \in DOMAIN helpers : helpers[h].at \in Locked => lock = h

(* What the directory shows now, it may show after a power loss; and a     *)
(* backup that is not there never was.                                     *)
DirMayBeFound ==
    /\ \A e \in Entry : dir[e] \in mayFind[e]
    /\ Backup = NoDoc => mayFind["backup"] = {NoDoc}

(* A helper that lives works on an attempt, and there is a backup to keep  *)
(* only if it continues something.  A session waits for a helper of its    *)
(* own that works on the session's attempt.                                *)
HelpersHaveWork ==
    \A h \in DOMAIN helpers :
        /\ helpers[h].at # "Gone" => helpers[h].attempt # NoDoc
        /\ helpers[h].at = "KeepBackup" => Previous(helpers[h].attempt) # NoDoc

HelpersAreOwned ==
    \A s \in Sessions : sessions[s].helper # 0 =>
        /\ sessions[s].helper \in DOMAIN helpers
        /\ helpers[sessions[s].helper].attempt = sessions[s].attempt
        /\ \A t \in Sessions : sessions[t].helper = sessions[s].helper => t = s

(* Every document that is in a file, was loaded, or is being saved by one  *)
(* of these sessions or helpers.                                           *)
InPlay(S, H) ==
    (UNION {mayFind[e] : e \in Entry})
        \cup {sessions[s].base : s \in Sessions}
        \cup {sessions[s].attempt : s \in S}
        \cup {helpers[h].attempt : h \in H}

(* No stamp was used before it was given out.                              *)
Stamped(doc) == \A i \in DOMAIN doc : doc[i] <= stamps

DocsAreStamped ==
    \A doc \in InPlay(Sessions, DOMAIN helpers) \cup dropped : Stamped(doc)

(* Nothing in play is this document or continues it.                       *)
NoTrace(doc, S, H) ==
    doc # NoDoc /\ \A d \in InPlay(S, H) : ~IsPrefix(doc, d)

DroppedLeftNoTrace ==
    \A doc \in dropped : NoTrace(doc, Sessions, DOMAIN helpers)

(* As long as the only helper that ever worked on an attempt has not put   *)
(* it there, only this helper and its session know of it.                  *)
Hidden(s) ==
    /\ sessions[s].helper # 0
    /\ ~sessions[s].doubt
    /\ helpers[sessions[s].helper].visibility = "Unchanged"

AttemptsAreHidden ==
    \A s \in Sessions : Hidden(s) =>
        NoTrace(sessions[s].attempt, Sessions \ {s}, DOMAIN helpers \ {sessions[s].helper})

(* Who is about to replace the primary is about to replace the one that    *)
(* its document follows, unless somebody edited it meanwhile.              *)
RecheckHolds ==
    \A h \in DOMAIN helpers \ exposed :
        helpers[h].at = "Replace" /\ Previous(helpers[h].attempt) # NoDoc
            => Primary = Previous(helpers[h].attempt)

(* Without edits: what the steps already made have established.            *)
Follows(h) == Primary = Previous(helpers[h].attempt)

Established(h) ==
    /\ helpers[h].at \in {"Confirm", "SyncPrimary"} => Primary = helpers[h].attempt
    /\ helpers[h].at \in {"KeepBackup", "SyncBackup"} => Follows(h) /\ Primary # NoDoc
    /\ helpers[h].at = "SyncBackup" => Backup = Primary
    /\ helpers[h].at \in {"Recheck", "Replace"} =>
           Follows(h) /\ \A e \in Entry : mayFind[e] = {Primary}
    /\ helpers[h].at = "Receipt" =>
           \A p \in mayFind["primary"] : IsPrefix(helpers[h].attempt, p)

StepsAreEstablished == edits = 0 => \A h \in DOMAIN helpers : Established(h)

(* At most the last replacement is in doubt.                               *)
OneInDoubt ==
    edits = 0 =>
        \A p \in mayFind["primary"] :
            p = Primary \/ (Primary # NoDoc /\ p = Previous(Primary))

(* One of the documents saved for good is the longest.                     *)
AckedHasNewest ==
    acked # {} => \E d \in acked : \A other \in acked : Len(other) <= Len(d)

----------------------------------------------------------------------------
(***************************************************************************)
(* Documents.                                                              *)
(***************************************************************************)
(* A document continues another if it agrees with it as far as that goes.  *)
LEMMA PrefixAgrees ==
    ASSUME NEW a \in Doc, NEW b \in Doc
    PROVE  IsPrefix(a, b) <=> Len(a) <= Len(b) /\ \A i \in 1 .. Len(a) : a[i] = b[i]
<1>1. Len(a) \in Nat /\ Len(b) \in Nat /\ DOMAIN a = 1 .. Len(a)
  BY DEF Doc
<1>2. SubSeq(a, 1, Len(a)) = a
  BY DEF Doc
<1>3. ASSUME Len(a) <= Len(b)
      PROVE  /\ SubSeq(b, 1, Len(a)) \in Seq(Nat)
             /\ Len(SubSeq(b, 1, Len(a))) = Len(a)
             /\ \A i \in 1 .. Len(a) : SubSeq(b, 1, Len(a))[i] = b[i]
  BY <1>1, <1>3 DEF Doc
<1>4. ASSUME Len(a) <= Len(b), \A i \in 1 .. Len(a) : a[i] = b[i]
      PROVE  a = SubSeq(b, 1, Len(a))
  <2>1. \A i \in 1 .. Len(a) : a[i] = SubSeq(b, 1, Len(a))[i]
    BY <1>3, <1>4
  <2>. QED  BY <1>1, <1>3, <1>4, <2>1, SeqEqual DEF Doc
<1>. QED  BY <1>1, <1>2, <1>3, <1>4 DEF IsPrefix

(* What a document was before its last save.                               *)
LEMMA PreviousIs ==
    ASSUME NEW a \in Doc, a # NoDoc
    PROVE  /\ Previous(a) \in Doc
           /\ Len(a) \in Nat \ {0}
           /\ Len(Previous(a)) = Len(a) - 1
           /\ \A i \in 1 .. Len(a) - 1 : Previous(a)[i] = a[i]
<1>1. Len(a) \in Nat \ {0}
  BY DEF Doc, NoDoc
<1>2. /\ SubSeq(a, 1, Len(a) - 1) \in Seq(Nat)
      /\ Len(SubSeq(a, 1, Len(a) - 1)) = Len(a) - 1
      /\ \A i \in 1 .. Len(a) - 1 : SubSeq(a, 1, Len(a) - 1)[i] = a[i]
  <2>1. \A i \in 1 .. Len(a) - 1 : a[i] \in Nat
    BY <1>1 DEF Doc
  <2>. DEFINE k == Len(a) - 1
  <2>2. k \in Nat /\ 1 \in Int /\ k \in Int
    BY <1>1
  <2>. HIDE DEF k
  <2>3. \A i \in 1 .. k : a[i] \in Nat
    BY <2>1 DEF k
  <2>4. /\ SubSeq(a, 1, k) \in Seq(Nat)
        /\ Len(SubSeq(a, 1, k)) = IF 1 <= k THEN k - 1 + 1 ELSE 0
        /\ \A i \in 1 .. k - 1 + 1 : SubSeq(a, 1, k)[i] = a[1 + i - 1]
    BY <2>2, <2>3, SubSeqProperties, SMTT(20)
  <2>5. Len(SubSeq(a, 1, k)) = k /\ \A i \in 1 .. k : SubSeq(a, 1, k)[i] = a[i]
    BY <2>2, <2>4
  <2>. QED  BY <2>4, <2>5 DEF k
<1>. QED  BY <1>1, <1>2 DEF Doc, Previous, Front

(* Nothing precedes no file.                                               *)
LEMMA PreviousOfNone == Previous(NoDoc) = NoDoc
  BY DEF Previous, Front, NoDoc

(* A document continues itself.                                            *)
LEMMA PrefixOfItself ==
    ASSUME NEW a \in Doc
    PROVE  IsPrefix(a, a)
  BY PrefixAgrees DEF Doc

(* What continues a continuation continues what that continues.            *)
LEMMA PrefixOfPrefix ==
    ASSUME NEW a \in Doc, NEW b \in Doc, NEW c \in Doc, IsPrefix(a, b), IsPrefix(b, c)
    PROVE  IsPrefix(a, c)
<1>1. Len(a) \in Nat /\ Len(b) \in Nat /\ Len(c) \in Nat
  BY DEF Doc
<1>. QED  BY <1>1, PrefixAgrees

(* A document continues the one before its last save.                      *)
LEMMA PreviousIsPrefix ==
    ASSUME NEW a \in Doc, a # NoDoc
    PROVE  IsPrefix(Previous(a), a)
  BY PrefixAgrees, PreviousIs

(* It does not continue anything longer, and only no file continues all.   *)
LEMMA PrefixIsShorter ==
    ASSUME NEW a \in Doc, NEW b \in Doc, IsPrefix(a, b)
    PROVE  Len(a) <= Len(b) /\ (b = NoDoc => a = NoDoc)
<1>1. Len(a) \in Nat /\ Len(b) \in Nat /\ Len(a) <= Len(b)
  BY PrefixAgrees DEF Doc
<1>2. b = NoDoc => Len(b) = 0
  BY DEF NoDoc
<1>3. Len(a) = 0 => a = NoDoc
  BY DEF Doc, NoDoc
<1>. QED  BY <1>1, <1>2, <1>3

(* Nothing that is in play and none of its predecessors continues what     *)
(* only the next stamp makes.                                              *)
LEMMA AppendIs ==
    ASSUME NEW a \in Doc, NEW n \in Nat
    PROVE  /\ Append(a, n) \in Doc
           /\ Append(a, n) # NoDoc
           /\ Len(Append(a, n)) = Len(a) + 1
           /\ Len(a) \in Nat
           /\ Append(a, n)[Len(a) + 1] = n
           /\ \A i \in 1 .. Len(a) : Append(a, n)[i] = a[i]
           /\ Previous(Append(a, n)) = a
<1>1. /\ Append(a, n) \in Doc
      /\ Append(a, n) # NoDoc
      /\ Len(Append(a, n)) = Len(a) + 1
      /\ Len(a) \in Nat
      /\ Append(a, n)[Len(a) + 1] = n
      /\ \A i \in 1 .. Len(a) : Append(a, n)[i] = a[i]
  BY DEF Doc, NoDoc
<1>2. Previous(Append(a, n)) = a
  <2>1. /\ Previous(Append(a, n)) \in Doc
        /\ Len(Previous(Append(a, n))) = Len(a)
        /\ \A i \in 1 .. Len(a) : Previous(Append(a, n))[i] = a[i]
    <3>. DEFINE b == Append(a, n)
    <3>1. b \in Doc /\ b # NoDoc /\ Len(b) = Len(a) + 1 /\ Len(a) \in Nat
      BY <1>1
    <3>2. \A i \in 1 .. Len(a) : b[i] = a[i]
      BY <1>1
    <3>. HIDE DEF b
    <3>3. Previous(b) \in Doc /\ Len(Previous(b)) = Len(a) /\ \A i \in 1 .. Len(a) : Previous(b)[i] = a[i]
      BY <3>1, <3>2, PreviousIs
    <3>. QED  BY <3>3 DEF b
  <2>. QED  BY <1>1, <2>1, SeqEqual DEF Doc
<1>. QED  BY <1>1, <1>2

(* A stamped document is not continued by a document that was never        *)
(* stamped, unless it was by what that one was before.                     *)
LEMMA NewStampContinues ==
    ASSUME NEW a \in Doc, NEW b \in Doc, NEW n \in Nat,
           \A i \in DOMAIN a : a[i] < n, IsPrefix(a, Append(b, n))
    PROVE  IsPrefix(a, b)
<1>1. /\ Len(a) <= Len(b) + 1
      /\ \A i \in 1 .. Len(a) : a[i] = Append(b, n)[i]
      /\ Len(a) \in Nat /\ DOMAIN a = 1 .. Len(a)
      /\ \A i \in 1 .. Len(a) : a[i] \in Nat
  <2>. DEFINE c == Append(b, n)
  <2>1. c \in Doc /\ Len(c) = Len(b) + 1
    BY AppendIs
  <2>2. IsPrefix(a, c)
    OBVIOUS
  <2>3. Len(a) \in Nat /\ DOMAIN a = 1 .. Len(a) /\ \A i \in 1 .. Len(a) : a[i] \in Nat
    BY DEF Doc
  <2>. HIDE DEF c
  <2>4. Len(a) <= Len(c) /\ \A i \in 1 .. Len(a) : a[i] = c[i]
    BY <2>1, <2>2, PrefixAgrees
  <2>. QED  BY <2>1, <2>3, <2>4 DEF c
<1>2. Len(a) # Len(b) + 1
  <2>1. SUFFICES ASSUME Len(a) = Len(b) + 1 PROVE FALSE
    OBVIOUS
  <2>2. Len(a) \in 1 .. Len(a)
    BY <2>1, AppendIs
  <2>3. a[Len(a)] = n
    BY <1>1, <2>1, <2>2, AppendIs
  <2>. QED  BY <1>1, <2>2, <2>3
<1>3. Len(a) <= Len(b) /\ \A i \in 1 .. Len(a) : a[i] = b[i]
  <2>1. Len(b) \in Nat /\ \A i \in 1 .. Len(b) : Append(b, n)[i] = b[i]
    BY AppendIs
  <2>4. Len(a) <= Len(b) + 1 /\ Len(a) \in Nat /\ Len(b) \in Nat
    BY <1>1, AppendIs
  <2>2. Len(a) <= Len(b)
    BY <1>2, <2>4
  <2>3. \A i \in 1 .. Len(a) : i \in 1 .. Len(b)
    BY <1>1, <2>1, <2>2
  <2>. QED  BY <1>1, <2>1, <2>2, <2>3
<1>. QED  BY <1>3, PrefixAgrees

(* What only the next stamp makes is continued by nothing stamped.         *)
LEMMA NewStampIsNew ==
    ASSUME NEW a \in Doc, NEW b \in Doc, NEW n \in Nat,
           \A i \in DOMAIN b : b[i] < n
    PROVE  ~IsPrefix(Append(a, n), b)
<1>1. SUFFICES ASSUME IsPrefix(Append(a, n), b) PROVE FALSE
  OBVIOUS
<1>2. /\ Len(a) + 1 <= Len(b) /\ b[Len(a) + 1] = n
      /\ Len(b) \in Nat /\ DOMAIN b = 1 .. Len(b)
  <2>1. Append(a, n) \in Doc /\ Len(Append(a, n)) = Len(a) + 1 /\ Len(a) \in Nat
    BY AppendIs
  <2>2. Len(Append(a, n)) <= Len(b) /\ \A i \in 1 .. Len(Append(a, n)) : Append(a, n)[i] = b[i]
    BY <1>1, <2>1, PrefixAgrees
  <2>3. Len(a) + 1 \in 1 .. Len(Append(a, n))
    BY <2>1
  <2>4. Append(a, n)[Len(a) + 1] = n
    BY AppendIs
  <2>. QED  BY <2>1, <2>2, <2>3, <2>4 DEF Doc
<1>3. Len(a) + 1 \in DOMAIN b
  BY <1>2, AppendIs
<1>. QED  BY <1>2, <1>3

----------------------------------------------------------------------------
(***************************************************************************)
(* What the steps do to the helpers and the sessions.                      *)
(***************************************************************************)
(* The parts of the state.                                                 *)
LEMMA Fields ==
    ASSUME TypeOK
    PROVE  /\ Primary \in Doc /\ Backup \in Doc
           /\ \A e \in Entry : dir[e] \in Doc /\ mayFind[e] \in SUBSET Doc
           /\ DOMAIN helpers = 1 .. Len(helpers) /\ Len(helpers) \in Nat
           /\ \A h \in DOMAIN helpers :
                  /\ helpers[h] \in Helper
                  /\ helpers[h].at \in Step
                  /\ helpers[h].attempt \in Doc
                  /\ helpers[h].visibility \in Visibility
           /\ \A s \in Sessions :
                  /\ sessions[s] \in Session
                  /\ sessions[s].base \in Doc
                  /\ sessions[s].attempt \in Doc
                  /\ sessions[s].doubt \in BOOLEAN
                  /\ sessions[s].helper \in Nat
                  /\ sessions[s].attempt = NoDoc <=> AtRest(s)
           /\ stamps \in Nat /\ edits \in Nat
<1>1. Primary \in Doc /\ Backup \in Doc
  BY DEF TypeOK, Primary, Backup, Entry
<1>2. \A e \in Entry : dir[e] \in Doc /\ mayFind[e] \in SUBSET Doc
  BY DEF TypeOK
<1>3. DOMAIN helpers = 1 .. Len(helpers) /\ Len(helpers) \in Nat
  BY DEF TypeOK
<1>4. ASSUME NEW h \in DOMAIN helpers
      PROVE  /\ helpers[h] \in Helper
             /\ helpers[h].at \in Step
             /\ helpers[h].attempt \in Doc
             /\ helpers[h].visibility \in Visibility
  <2>1. helpers[h] \in Helper
    BY DEF TypeOK
  <2>. QED  BY <2>1 DEF Helper
<1>5. ASSUME NEW s \in Sessions
      PROVE  /\ sessions[s] \in Session
             /\ sessions[s].base \in Doc
             /\ sessions[s].attempt \in Doc
             /\ sessions[s].doubt \in BOOLEAN
             /\ sessions[s].helper \in Nat
             /\ sessions[s].attempt = NoDoc <=> AtRest(s)
  <2>1. sessions[s] \in Session
    BY DEF TypeOK
  <2>2. sessions[s].attempt = NoDoc <=> AtRest(s)
    BY DEF TypeOK
  <2>. QED  BY <2>1, <2>2 DEF Session
<1>6. stamps \in Nat /\ edits \in Nat
  BY RepositoryAssumption DEF TypeOK
<1>. QED  BY <1>1, <1>2, <1>3, <1>4, <1>5, <1>6

(* A helper goes to its next step; the others stay where they are, and all *)
(* keep their attempts.                                                    *)
Moved(h, step) ==
    /\ helpers' \in Seq(Helper)
    /\ Len(helpers') = Len(helpers) /\ DOMAIN helpers' = DOMAIN helpers
    /\ \A k \in DOMAIN helpers : helpers'[k].attempt = helpers[k].attempt
    /\ \A k \in DOMAIN helpers \ {h} : helpers'[k] = helpers[k]
    /\ helpers'[h].at = step

(* GoTo and Reply take a helper to the step they name.                     *)
LEMMA GoToMoves ==
    ASSUME TypeOK, NEW h \in DOMAIN helpers, NEW step \in Step, GoTo(h, step)
    PROVE  Moved(h, step) /\ helpers'[h].visibility = helpers[h].visibility
<1>1. helpers[h] \in Helper /\ helpers \in Seq(Helper)
  BY Fields DEF TypeOK
<1>2. helpers' = [helpers EXCEPT ![h] = [helpers[h] EXCEPT !.at = step]]
  BY DEF GoTo
<1>. DEFINE new == [helpers[h] EXCEPT !.at = step]
<1>3. /\ new \in Helper /\ new.at = step
      /\ new.attempt = helpers[h].attempt /\ new.visibility = helpers[h].visibility
  BY <1>1 DEF Helper
<1>. HIDE DEF new
<1>4. helpers' = [helpers EXCEPT ![h] = new]
  BY <1>2 DEF new
<1>5. /\ helpers' \in Seq(Helper)
      /\ Len(helpers') = Len(helpers) /\ DOMAIN helpers' = DOMAIN helpers
      /\ helpers'[h] = new
      /\ \A k \in DOMAIN helpers \ {h} : helpers'[k] = helpers[k]
  BY <1>1, <1>3, <1>4
<1>. QED  BY <1>3, <1>5 DEF Moved

(* The same of a helper that has replaced the primary or found it done.    *)
LEMMA GoToReplacedMoves ==
    ASSUME TypeOK, NEW h \in DOMAIN helpers, NEW step \in Step, GoToReplaced(h, step)
    PROVE  Moved(h, step) /\ helpers'[h].visibility = "Replaced"
<1>1. helpers[h] \in Helper /\ helpers \in Seq(Helper)
  BY Fields DEF TypeOK
<1>. DEFINE new == [helpers[h] EXCEPT !.at = step, !.visibility = "Replaced"]
<1>2. helpers' = [helpers EXCEPT ![h] = new]
  BY <1>1 DEF GoToReplaced
<1>3. /\ new \in Helper /\ new.at = step
      /\ new.attempt = helpers[h].attempt /\ new.visibility = "Replaced"
  BY <1>1 DEF Helper, Visibility
<1>. HIDE DEF new
<1>5. /\ helpers' \in Seq(Helper)
      /\ Len(helpers') = Len(helpers) /\ DOMAIN helpers' = DOMAIN helpers
      /\ helpers'[h] = new
      /\ \A k \in DOMAIN helpers \ {h} : helpers'[k] = helpers[k]
  BY <1>1, <1>2, <1>3
<1>. QED  BY <1>3, <1>5 DEF Moved

(* A helper is gone.                                                       *)
Killed(h) ==
    /\ helpers' \in Seq(Helper)
    /\ Len(helpers') = Len(helpers) /\ DOMAIN helpers' = DOMAIN helpers
    /\ \A k \in DOMAIN helpers \ {h} : helpers'[k] = helpers[k]
    /\ helpers'[h] = DeadHelper

(* A helper that is gone works on nothing.                                 *)
LEMMA DeadHelperIs ==
    /\ DeadHelper \in Helper /\ NoDoc \in Doc
    /\ DeadHelper.at = "Gone" /\ DeadHelper.attempt = NoDoc
    /\ DeadHelper.visibility = "Unchanged"
<1>1. NoDoc \in Doc
  BY DEF NoDoc, Doc
<1>. QED  BY <1>1 DEF DeadHelper, Helper, Step, Visibility

(* Hearing from a helper, or killing it, is the end of it.                 *)
LEMMA DyingKills ==
    ASSUME TypeOK, NEW h \in DOMAIN helpers, helpers' = [helpers EXCEPT ![h] = DeadHelper]
    PROVE  Killed(h)
  BY DeadHelperIs DEF TypeOK, Killed

(* One more helper, and a session that waits for it.                       *)
Launched(s, attempt) ==
    /\ helpers' \in Seq(Helper)
    /\ Len(helpers') = Len(helpers) + 1
    /\ DOMAIN helpers' = DOMAIN helpers \cup {Len(helpers) + 1}
    /\ \A k \in DOMAIN helpers : helpers'[k] = helpers[k]
    /\ helpers'[Len(helpers) + 1] = NewHelper(attempt)
    /\ sessions' \in [Sessions -> Session]
    /\ \A t \in Sessions \ {s} : sessions'[t] = sessions[t]
    /\ sessions'[s].base = sessions[s].base
    /\ sessions'[s].attempt = attempt
    /\ sessions'[s].doubt = sessions[s].doubt
    /\ sessions'[s].helper = Len(helpers) + 1

(* A helper begins with the attempt it was given.                          *)
LEMMA NewHelperIs ==
    ASSUME NEW doc \in Doc
    PROVE  /\ NewHelper(doc) \in Helper
           /\ NewHelper(doc).at = "Begin" /\ NewHelper(doc).attempt = doc
           /\ NewHelper(doc).visibility = "Unchanged"
  BY DEF NewHelper, Helper, Step, Visibility

(* To launch is to add a helper at the end and to wait for it.             *)
LEMMA LaunchLaunches ==
    ASSUME TypeOK, NEW s \in Sessions, NEW doc \in Doc, Launch(s, doc)
    PROVE  Launched(s, doc)
<1>1. /\ helpers' = Append(helpers, NewHelper(doc))
      /\ NewHelper(doc) \in Helper /\ helpers \in Seq(Helper)
  BY NewHelperIs DEF Launch, TypeOK
<1>2. /\ helpers' \in Seq(Helper)
      /\ Len(helpers') = Len(helpers) + 1
      /\ DOMAIN helpers' = DOMAIN helpers \cup {Len(helpers) + 1}
      /\ \A k \in DOMAIN helpers : helpers'[k] = helpers[k]
      /\ helpers'[Len(helpers) + 1] = NewHelper(doc)
  <2>. DEFINE new == NewHelper(doc)
  <2>. HIDE DEF new
  <2>1. helpers' = Append(helpers, new) /\ new \in Helper
    BY <1>1 DEF new
  <2>. QED  BY <1>1, <2>1 DEF new
<1>. DEFINE session == [sessions[s] EXCEPT !.attempt = doc, !.helper = Len(helpers) + 1]
<1>3. sessions[s] \in Session /\ Len(helpers) + 1 \in Nat
  BY Fields
<1>4. /\ session \in Session
      /\ session.base = sessions[s].base /\ session.attempt = doc
      /\ session.doubt = sessions[s].doubt /\ session.helper = Len(helpers) + 1
  BY <1>3 DEF Session
<1>5. sessions' = [sessions EXCEPT ![s] = session]
  BY <1>3 DEF Launch, TypeOK
<1>. HIDE DEF session
<1>6. /\ sessions' \in [Sessions -> Session]
      /\ \A t \in Sessions \ {s} : sessions'[t] = sessions[t]
      /\ sessions'[s] = session
  BY <1>4, <1>5 DEF TypeOK
<1>. QED  BY <1>2, <1>4, <1>6 DEF Launched

(* What becomes of one session while the others wait.                      *)
Became(s, base, attempt, doubt, helper) ==
    /\ sessions' \in [Sessions -> Session]
    /\ \A t \in Sessions \ {s} : sessions'[t] = sessions[t]
    /\ sessions'[s].base = base
    /\ sessions'[s].attempt = attempt
    /\ sessions'[s].doubt = doubt
    /\ sessions'[s].helper = helper

(* A step changes the parts of one session.                                *)
LEMMA SessionBecomes ==
    ASSUME TypeOK, NEW s \in Sessions, NEW new \in Session,
           sessions' = [sessions EXCEPT ![s] = new]
    PROVE  Became(s, new.base, new.attempt, new.doubt, new.helper)
  BY DEF TypeOK, Became

(* What every step of a helper has in common: it goes on, locks or unlocks *)
(* only for itself, and writes nothing but its own document and the one    *)
(* before it, the latter in its place as the backup.                       *)
LocksForItself(h) ==
    /\ lock' = lock \/ (lock = 0 /\ lock' = h) \/ (lock = h /\ lock' = 0)
    /\ helpers'[h].at \in Locked => lock' = h

WritesItsOwn(h) ==
    \/ UNCHANGED <<dir, mayFind>>
    \/ helpers[h].at \in Locked /\ SyncDirectory
    \/ helpers[h].at = "KeepBackup" /\ Rename("backup", Previous(helpers[h].attempt))
    \/ /\ helpers[h].at = "Replace"
       /\ Rename("primary", helpers[h].attempt)
       /\ helpers'[h].visibility = "Replaced"

HelperActs(h) ==
    /\ helpers[h].at # "Gone"
    /\ helpers'[h].at \in Step \ {"Begin", "Gone"}
    /\ Moved(h, helpers'[h].at)
    /\ helpers'[h].visibility \in {helpers[h].visibility, "Replaced"}
    /\ helpers'[h].at = "KeepBackup" => Previous(helpers[h].attempt) # NoDoc
    /\ helpers'[h].at = "Replace" =>
           Expected(helpers[h].attempt) /\ UNCHANGED <<dir, mayFind>>
    /\ helpers'[h].at = "SyncPrimary" =>
           /\ helpers[h].at = "Replace" /\ ~Clobbers(helpers[h].attempt)
           /\ Rename("primary", helpers[h].attempt)
    /\ LocksForItself(h)
    /\ WritesItsOwn(h)
    /\ UNCHANGED World

Shape ==
    /\ TypeOK
    /\ LockIsHeld
    /\ DirMayBeFound
    /\ HelpersHaveWork
    /\ HelpersAreOwned

(* A reply gives the lock back, if the helper held it.                     *)
LEMMA ReplyActs ==
    ASSUME Shape, NEW h \in DOMAIN helpers, NEW step \in {"Receipt", "Failure"}, Reply(h, step)
    PROVE  /\ Moved(h, step) /\ helpers'[h].at = step
           /\ helpers'[h].visibility = helpers[h].visibility
           /\ LocksForItself(h)
<1>1. TypeOK /\ step \in Step /\ GoTo(h, step) /\ Unlock(h)
  BY DEF Shape, Step, Reply
<1>2. Moved(h, step) /\ helpers'[h].visibility = helpers[h].visibility
  BY <1>1, GoToMoves
<1>3. helpers'[h].at = step /\ step \notin Locked
  BY <1>2 DEF Moved, Locked
<1>. QED  BY <1>1, <1>2, <1>3 DEF LocksForItself, Unlock

(* Every step of apply is of this kind.                                    *)
LEMMA HelperNextActs ==
    ASSUME Shape, NEW h \in DOMAIN helpers, HelperNext(h)
    PROVE  HelperActs(h)
<1>. USE DEF Shape
<1>1. CASE HelperIsBusy(h)
  <2>1. Reply(h, "Failure") /\ helpers[h].at = "Begin" /\ UNCHANGED <<dir, mayFind, World>>
    BY <1>1 DEF HelperIsBusy
  <2>. QED  BY <2>1, ReplyActs DEF HelperActs, WritesItsOwn, Locked, Step
<1>2. CASE HelperBegins(h)
  <2>1. helpers[h].at = "Begin" /\ lock = 0 /\ UNCHANGED <<dir, mayFind, World>>
    BY <1>2 DEF HelperBegins, LockFree
  <2>2. CASE GoToReplaced(h, "Confirm") /\ lock' = h
    <3>1. Moved(h, "Confirm") /\ helpers'[h].visibility = "Replaced"
      BY <2>2, GoToReplacedMoves DEF Step
    <3>2. helpers'[h].at = "Confirm"
      BY <3>1 DEF Moved
    <3>. QED  BY <2>1, <2>2, <3>1, <3>2 DEF HelperActs, WritesItsOwn, LocksForItself, Step
  <2>3. CASE /\ GoTo(h, IF Previous(helpers[h].attempt) = NoDoc THEN "Recheck" ELSE "KeepBackup")
             /\ lock' = h
    <3>. DEFINE step == IF Previous(helpers[h].attempt) = NoDoc THEN "Recheck" ELSE "KeepBackup"
    <3>1. step \in Step \ {"Begin", "Gone", "Replace", "SyncPrimary"}
      BY DEF Step
    <3>. HIDE DEF step
    <3>2. Moved(h, step) /\ helpers'[h].visibility = helpers[h].visibility
      BY <2>3, <3>1, GoToMoves DEF step
    <3>3. helpers'[h].at = step
      BY <3>2 DEF Moved
    <3>4. step = "KeepBackup" => Previous(helpers[h].attempt) # NoDoc
      BY DEF step
    <3>. QED  BY <2>1, <2>3, <3>1, <3>2, <3>3, <3>4 DEF HelperActs, WritesItsOwn, LocksForItself
  <2>4. CASE Reply(h, "Failure")
    BY <2>1, <2>4, ReplyActs DEF HelperActs, WritesItsOwn, Locked, Step
  <2>. QED  BY <1>2, <2>2, <2>3, <2>4 DEF HelperBegins
<1>3. CASE HelperConfirms(h)
  <2>1. Reply(h, "Receipt") /\ helpers[h].at = "Confirm" /\ SyncDirectory /\ UNCHANGED World
    BY <1>3 DEF HelperConfirms
  <2>. QED  BY <2>1, ReplyActs DEF HelperActs, WritesItsOwn, Locked, Step
<1>4. CASE HelperKeepsBackup(h)
  <2>1. /\ GoTo(h, "SyncBackup") /\ helpers[h].at = "KeepBackup"
        /\ Rename("backup", Previous(helpers[h].attempt)) /\ UNCHANGED <<lock, World>>
    BY <1>4 DEF HelperKeepsBackup
  <2>2. Moved(h, "SyncBackup") /\ helpers'[h].visibility = helpers[h].visibility
    BY <2>1, GoToMoves DEF Step
  <2>3. helpers'[h].at = "SyncBackup" /\ lock = h
    BY <2>1, <2>2 DEF Moved, LockIsHeld, Locked
  <2>. QED  BY <2>1, <2>2, <2>3 DEF HelperActs, WritesItsOwn, LocksForItself, Step
<1>5. CASE HelperSyncsBackup(h)
  <2>1. /\ GoTo(h, "Recheck") /\ helpers[h].at = "SyncBackup"
        /\ SyncDirectory /\ UNCHANGED <<lock, World>>
    BY <1>5 DEF HelperSyncsBackup, BackupSynced
  <2>2. Moved(h, "Recheck") /\ helpers'[h].visibility = helpers[h].visibility
    BY <2>1, GoToMoves DEF Step
  <2>3. helpers'[h].at = "Recheck" /\ lock = h
    BY <2>1, <2>2 DEF Moved, LockIsHeld, Locked
  <2>. QED  BY <2>1, <2>2, <2>3 DEF HelperActs, WritesItsOwn, LocksForItself, Locked, Step
<1>6. CASE HelperRechecks(h)
  <2>1. helpers[h].at = "Recheck" /\ UNCHANGED <<dir, mayFind, World>> /\ lock = h
    BY <1>6 DEF HelperRechecks, LockIsHeld, Locked
  <2>2. CASE Expected(helpers[h].attempt) /\ GoTo(h, "Replace") /\ UNCHANGED lock
    <3>1. Moved(h, "Replace") /\ helpers'[h].visibility = helpers[h].visibility
      BY <2>2, GoToMoves DEF Step
    <3>2. helpers'[h].at = "Replace"
      BY <3>1 DEF Moved
    <3>. QED  BY <2>1, <2>2, <3>1, <3>2 DEF HelperActs, WritesItsOwn, LocksForItself, Step
  <2>3. CASE Reply(h, "Failure")
    BY <2>1, <2>3, ReplyActs DEF HelperActs, WritesItsOwn, Locked, Step
  <2>. QED  BY <1>6, <2>2, <2>3 DEF HelperRechecks
<1>7. CASE HelperReplaces(h)
  <2>1. helpers[h].at = "Replace" /\ UNCHANGED World /\ lock = h
    BY <1>7 DEF HelperReplaces, LockIsHeld, Locked
  <2>2. CASE Reply(h, "Failure") /\ UNCHANGED <<dir, mayFind>>
    BY <2>1, <2>2, ReplyActs DEF HelperActs, WritesItsOwn, Locked, Step
  <2>3. CASE /\ ~Clobbers(helpers[h].attempt)
             /\ Rename("primary", helpers[h].attempt)
             /\ GoToReplaced(h, "SyncPrimary") /\ UNCHANGED lock
    <3>1. Moved(h, "SyncPrimary") /\ helpers'[h].visibility = "Replaced"
      BY <2>3, GoToReplacedMoves DEF Step
    <3>2. helpers'[h].at = "SyncPrimary"
      BY <3>1 DEF Moved
    <3>. QED  BY <2>1, <2>3, <3>1, <3>2 DEF HelperActs, WritesItsOwn, LocksForItself, Step
  <2>. QED  BY <1>7, <2>2, <2>3 DEF HelperReplaces, ReportReplaced
<1>8. CASE HelperSyncsPrimary(h)
  <2>1. Reply(h, "Receipt") /\ helpers[h].at = "SyncPrimary" /\ SyncDirectory /\ UNCHANGED World
    BY <1>8 DEF HelperSyncsPrimary, PrimarySynced
  <2>. QED  BY <2>1, ReplyActs DEF HelperActs, WritesItsOwn, Locked, Step
<1>9. CASE StepFails(h)
  <2>1. /\ Reply(h, "Failure") /\ helpers[h].at # "Gone"
        /\ UNCHANGED <<dir, mayFind, World>>
    BY <1>9 DEF StepFails
  <2>. QED  BY <2>1, ReplyActs DEF HelperActs, WritesItsOwn, Locked, Step
<1>. QED
  BY <1>1, <1>2, <1>3, <1>4, <1>5, <1>6, <1>7, <1>8, <1>9 DEF HelperNext

----------------------------------------------------------------------------
(***************************************************************************)
(* Locks, owners and files stay in shape.                                  *)
(***************************************************************************)
(* A rename or a sync leaves every name with a document that it may show.  *)
LEMMA RenameKeepsDir ==
    ASSUME TypeOK, DirMayBeFound, NEW e \in Entry, NEW doc \in Doc, Rename(e, doc),
           e = "backup" => doc # NoDoc
    PROVE  /\ dir' \in [Entry -> Doc]
           /\ mayFind' \in [Entry -> SUBSET Doc]
           /\ DirMayBeFound'
<1>1. dir \in [Entry -> Doc] /\ mayFind \in [Entry -> SUBSET Doc]
  BY DEF TypeOK
<1>2. /\ dir' \in [Entry -> Doc] /\ mayFind' \in [Entry -> SUBSET Doc]
      /\ dir'[e] = doc /\ mayFind'[e] = mayFind[e] \cup {doc}
      /\ \A f \in Entry \ {e} : dir'[f] = dir[f] /\ mayFind'[f] = mayFind[f]
  BY <1>1 DEF Rename
<1>3. \A f \in Entry : dir'[f] \in mayFind'[f]
  BY <1>2 DEF DirMayBeFound
<1>4. "backup" \in Entry
  BY DEF Entry
<1>5. dir'["backup"] = NoDoc => mayFind'["backup"] = {NoDoc}
  BY <1>2, <1>4 DEF DirMayBeFound, Backup
<1>. QED  BY <1>2, <1>3, <1>5 DEF DirMayBeFound, Backup

(* A sync leaves each name with what it shows.                             *)
LEMMA SyncKeepsDir ==
    ASSUME TypeOK, DirMayBeFound, SyncDirectory
    PROVE  /\ dir' \in [Entry -> Doc]
           /\ mayFind' \in [Entry -> SUBSET Doc]
           /\ DirMayBeFound'
<1>1. dir \in [Entry -> Doc] /\ dir' = dir /\ "backup" \in Entry
  BY DEF TypeOK, SyncDirectory, Entry
<1>2. \A f \in Entry : mayFind'[f] = {dir[f]}
  BY DEF SyncDirectory
<1>3. mayFind' \in [Entry -> SUBSET Doc]
  BY <1>1 DEF SyncDirectory
<1>. QED  BY <1>1, <1>2, <1>3 DEF DirMayBeFound, Backup

(* The steps of apply keep locks, owners and files in shape.               *)
LEMMA HelperShape ==
    ASSUME Shape, NEW h \in DOMAIN helpers, HelperActs(h)
    PROVE  Shape'
<1>1. /\ TypeOK /\ LockIsHeld /\ DirMayBeFound /\ HelpersHaveWork /\ HelpersAreOwned
      /\ Moved(h, helpers'[h].at) /\ LocksForItself(h) /\ WritesItsOwn(h)
      /\ helpers[h].at # "Gone" /\ UNCHANGED World
  BY DEF Shape, HelperActs
<1>2. /\ sessions' = sessions /\ stamps' = stamps /\ crashes' = crashes /\ edits' = edits
      /\ acked' = acked /\ dropped' = dropped /\ exposed' = exposed
  BY <1>1 DEF World, history
<1>3. /\ helpers' \in Seq(Helper) /\ Len(helpers') = Len(helpers)
      /\ DOMAIN helpers' = DOMAIN helpers
      /\ \A k \in DOMAIN helpers : helpers'[k].attempt = helpers[k].attempt
      /\ \A k \in DOMAIN helpers \ {h} : helpers'[k] = helpers[k]
  BY <1>1 DEF Moved
<1>4. /\ dir' \in [Entry -> Doc]
      /\ mayFind' \in [Entry -> SUBSET Doc]
      /\ DirMayBeFound'
  <2>1. CASE UNCHANGED <<dir, mayFind>>
    BY <1>1, <2>1 DEF TypeOK, DirMayBeFound, Backup
  <2>2. CASE SyncDirectory
    BY <1>1, <2>2, SyncKeepsDir
  <2>3. CASE helpers[h].at = "KeepBackup" /\ Rename("backup", Previous(helpers[h].attempt))
    <3>. DEFINE doc == helpers[h].attempt
    <3>1. doc \in Doc /\ doc # NoDoc
      BY <1>1, Fields DEF HelpersHaveWork
    <3>2. Previous(doc) \in Doc
      BY <3>1, PreviousIs
    <3>3. Previous(doc) # NoDoc
      BY <1>1, <2>3 DEF HelpersHaveWork
    <3>. QED  BY <1>1, <2>3, <3>2, <3>3, RenameKeepsDir DEF Entry
  <2>4. CASE Rename("primary", helpers[h].attempt)
    BY <1>1, <2>4, RenameKeepsDir, Fields DEF Entry
  <2>. QED  BY <1>1, <2>1, <2>2, <2>3, <2>4 DEF WritesItsOwn
<1>5. TypeOK'
  <2>1. lock' \in 0 .. Len(helpers')
    BY <1>1, <1>3, Fields DEF LocksForItself, TypeOK
  <2>2. \A s \in Sessions : (sessions[s].attempt = NoDoc <=> AtRest(s))'
    BY <1>1, <1>2 DEF TypeOK, AtRest
  <2>. QED  BY <1>1, <1>2, <1>3, <1>4, <2>1, <2>2 DEF TypeOK
<1>6. LockIsHeld'
  BY <1>1, <1>3, Fields DEF LockIsHeld, LocksForItself
<1>7. HelpersHaveWork'
  BY <1>1, <1>3 DEF HelpersHaveWork, HelperActs
<1>8. HelpersAreOwned'
  BY <1>1, <1>2, <1>3 DEF HelpersAreOwned
<1>. QED  BY <1>4, <1>5, <1>6, <1>7, <1>8 DEF Shape

(* What the steps of a session do to it and to its helper.                 *)
Loads(s) ==
    /\ Became(s, Primary, NoDoc, FALSE, 0)
    /\ AtRest(s)
    /\ UNCHANGED <<dir, mayFind, lock, helpers, stamps, crashes, edits, history>>

(* A document is saved for the first time with a stamp that was never      *)
(* given out, and afterwards as it is.                                     *)
Tries(s) ==
    \E doc \in Doc :
        /\ Launched(s, doc)
        /\ \/ AtRest(s) /\ doc = Append(sessions[s].base, stamps + 1) /\ stamps' = stamps + 1
           \/ /\ sessions[s].doubt /\ sessions[s].helper = 0
              /\ doc = sessions[s].attempt /\ stamps' = stamps
        /\ stamps' \in 0 .. MaxStamp
        /\ UNCHANGED <<dir, mayFind, lock, crashes, edits, history>>

HearsReceipt(s) ==
    LET h == sessions[s].helper
        attempt == sessions[s].attempt
    IN /\ h # 0
       /\ helpers[h].at = "Receipt"
       /\ Became(s, attempt, NoDoc, FALSE, 0)
       /\ Killed(h)
       /\ acked' = acked \cup {attempt}
       /\ UNCHANGED <<dropped, dir, mayFind, lock, stamps, crashes, edits, exposed>>

HearsNotSaved(s) ==
    LET h == sessions[s].helper
    IN /\ Hidden(s)
       /\ helpers[h].at = "Failure"
       /\ Became(s, sessions[s].base, NoDoc, FALSE, 0)
       /\ Killed(h)
       /\ dropped' = dropped \cup {sessions[s].attempt}
       /\ UNCHANGED <<acked, dir, mayFind, lock, stamps, crashes, edits, exposed>>

IsInDoubt(s) ==
    LET h == sessions[s].helper
    IN /\ h # 0
       /\ Became(s, sessions[s].base, sessions[s].attempt, TRUE, 0)
       /\ \/ Killed(h) /\ helpers[h].at = "Failure" /\ UNCHANGED lock
          \/ Killed(h) /\ Unlock(h)
          \/ UNCHANGED <<helpers, lock>>
       /\ UNCHANGED <<dir, mayFind, stamps, crashes, edits, history>>

Ends(s) ==
    /\ Became(s, NoDoc, NoDoc, FALSE, 0)
    /\ UNCHANGED <<dir, mayFind, lock, helpers, stamps, crashes, edits, history>>

SessionActs(s) ==
    \/ Loads(s)
    \/ Tries(s)
    \/ HearsReceipt(s)
    \/ HearsNotSaved(s)
    \/ IsInDoubt(s)
    \/ Ends(s)

(* Every step of a session is of one of these kinds.                       *)
LEMMA SessionNextActs ==
    ASSUME Shape, NEW s \in Sessions, SessionNext(s)
    PROVE  SessionActs(s)
<1>. DEFINE session == sessions[s]
            h == sessions[s].helper
<1>1. /\ TypeOK /\ HelpersAreOwned
      /\ session \in Session /\ sessions \in [Sessions -> Session]
  BY Fields DEF Shape, TypeOK
<1>2. session.base \in Doc /\ session.attempt \in Doc /\ session.doubt \in BOOLEAN /\ h \in Nat
  BY <1>1, Fields
<1>3. NoDoc \in Doc /\ 0 \in Nat /\ Primary \in Doc
  BY <1>1, DeadHelperIs, Fields
<1>4. h # 0 => h \in DOMAIN helpers
  BY <1>1 DEF HelpersAreOwned
<1>5. CASE SessionLoads(s)
  <2>. DEFINE new == [session EXCEPT !.base = Primary]
  <2>1. AtRest(s) /\ session.attempt = NoDoc /\ session.doubt = FALSE /\ h = 0
    BY <1>1, <1>2, <1>5, Fields DEF SessionLoads, AtRest
  <2>2. /\ new \in Session /\ new.base = Primary /\ new.attempt = NoDoc
        /\ new.doubt = FALSE /\ new.helper = 0
    BY <1>1, <1>3, <2>1 DEF Session
  <2>3. sessions' = [sessions EXCEPT ![s] = new]
    BY <1>1, <1>5 DEF SessionLoads
  <2>. HIDE DEF new
  <2>4. Became(s, Primary, NoDoc, FALSE, 0)
    BY <1>1, <2>2, <2>3, SessionBecomes
  <2>. QED  BY <1>5, <2>1, <2>4 DEF SessionLoads, SessionActs, Loads
<1>6. CASE SessionSaves(s)
  <2>. DEFINE doc == Append(sessions[s].base, stamps + 1)
  <2>1. stamps \in Nat /\ stamps + 1 \in Nat /\ stamps < MaxStamp /\ stamps' = stamps + 1
    BY <1>1, <1>6, Fields DEF SessionSaves
  <2>2. doc \in Doc
    BY <1>2, <2>1, AppendIs
  <2>3. Launch(s, doc) /\ AtRest(s)
    BY <1>6 DEF SessionSaves
  <2>4. UNCHANGED <<dir, mayFind, lock, crashes, edits, history>>
    BY <2>3 DEF Launch
  <2>5. Launched(s, doc)
    BY <1>1, <2>2, <2>3, LaunchLaunches
  <2>6. stamps' \in 0 .. MaxStamp
    BY <2>1, RepositoryAssumption
  <2>. QED  BY <2>1, <2>2, <2>3, <2>4, <2>5, <2>6 DEF SessionActs, Tries
<1>7. CASE SessionRetries(s)
  <2>1. Launch(s, sessions[s].attempt) /\ stamps' = stamps /\ sessions[s].doubt /\ h = 0
    BY <1>7 DEF SessionRetries
  <2>2. Launched(s, sessions[s].attempt)
    BY <1>1, <1>2, <2>1, LaunchLaunches
  <2>3. UNCHANGED <<dir, mayFind, lock, crashes, edits, history>>
    BY <2>1 DEF Launch
  <2>4. stamps' \in 0 .. MaxStamp
    BY <1>1, <2>1 DEF TypeOK
  <2>. QED  BY <1>2, <2>1, <2>2, <2>3, <2>4 DEF SessionActs, Tries
<1>8. ASSUME NEW new \in Session, sessions' = [sessions EXCEPT ![s] = new]
      PROVE  Became(s, new.base, new.attempt, new.doubt, new.helper)
  BY <1>1, <1>8, SessionBecomes
<1>9. /\ Saved(session) \in Session /\ Saved(session).base = session.attempt
      /\ Saved(session).attempt = NoDoc /\ Saved(session).doubt = FALSE /\ Saved(session).helper = 0
  BY <1>2, <1>3 DEF Session, Saved
<1>10. /\ InDoubt(session) \in Session /\ InDoubt(session).base = session.base
       /\ InDoubt(session).attempt = session.attempt
       /\ InDoubt(session).doubt = TRUE /\ InDoubt(session).helper = 0
  BY <1>1, <1>3 DEF Session, InDoubt
<1>11. /\ NotSaved(session) \in Session /\ NotSaved(session).base = session.base
       /\ NotSaved(session).attempt = NoDoc
       /\ NotSaved(session).doubt = session.doubt /\ NotSaved(session).helper = 0
  BY <1>1, <1>3 DEF Session, NotSaved
<1>12. CASE SessionHears(s)
  <2>1. /\ h # 0 /\ h \in DOMAIN helpers
        /\ helpers' = [helpers EXCEPT ![h] = DeadHelper]
        /\ UNCHANGED <<dir, mayFind, lock, stamps, crashes, edits, exposed>>
    BY <1>4, <1>12 DEF SessionHears
  <2>2. Killed(h)
    BY <1>1, <2>1, DyingKills
  <2>3. CASE /\ helpers[h].at = "Receipt"
             /\ sessions' = [sessions EXCEPT ![s] = Saved(@)]
             /\ acked' = acked \cup {sessions[s].attempt}
             /\ UNCHANGED dropped
    <3>1. sessions' = [sessions EXCEPT ![s] = Saved(session)]
      BY <1>1, <2>3
    <3>2. Became(s, session.attempt, NoDoc, FALSE, 0)
      BY <1>8, <1>9, <3>1
    <3>. QED  BY <2>1, <2>2, <2>3, <3>2 DEF SessionActs, HearsReceipt
  <2>4. CASE /\ helpers[h].at = "Failure" /\ Hidden(s)
             /\ sessions' = [sessions EXCEPT ![s] = NotSaved(@)]
             /\ dropped' = dropped \cup {sessions[s].attempt}
             /\ UNCHANGED acked
    <3>1. sessions' = [sessions EXCEPT ![s] = NotSaved(session)]
      BY <1>1, <2>4
    <3>2. session.doubt = FALSE
      BY <1>2, <2>4 DEF Hidden
    <3>3. Became(s, session.base, NoDoc, FALSE, 0)
      BY <1>8, <1>11, <3>1, <3>2
    <3>. QED  BY <2>1, <2>2, <2>4, <3>3 DEF SessionActs, HearsNotSaved
  <2>5. CASE /\ helpers[h].at = "Failure" /\ ~Hidden(s)
             /\ sessions' = [sessions EXCEPT ![s] = InDoubt(@)]
             /\ UNCHANGED <<dropped, acked>>
    <3>1. sessions' = [sessions EXCEPT ![s] = InDoubt(session)]
      BY <1>1, <2>5
    <3>2. Became(s, session.base, session.attempt, TRUE, 0)
      BY <1>8, <1>10, <3>1
    <3>. QED  BY <2>1, <2>2, <2>5, <3>2 DEF SessionActs, IsInDoubt, history
  <2>. QED  BY <1>12, <2>1, <2>3, <2>4, <2>5 DEF SessionHears, Hidden
<1>13. CASE LoseReply(s)
  <2>1. /\ h # 0 /\ h \in DOMAIN helpers
        /\ sessions' = [sessions EXCEPT ![s] = InDoubt(session)]
        /\ UNCHANGED <<dir, mayFind, stamps, crashes, edits, history>>
    BY <1>1, <1>4, <1>13 DEF LoseReply
  <2>2. \/ Killed(h) /\ Unlock(h)
        \/ UNCHANGED <<helpers, lock>>
    BY <1>1, <1>13, <2>1, DyingKills DEF LoseReply
  <2>3. Became(s, session.base, session.attempt, TRUE, 0)
    BY <1>8, <1>10, <2>1
  <2>. QED  BY <2>1, <2>2, <2>3 DEF SessionActs, IsInDoubt
<1>14. CASE SessionEnds(s)
  <2>1. /\ NewSession \in Session /\ NewSession.base = NoDoc /\ NewSession.attempt = NoDoc
        /\ NewSession.doubt = FALSE /\ NewSession.helper = 0
    BY <1>3 DEF NewSession, Session
  <2>2. Became(s, NoDoc, NoDoc, FALSE, 0)
    BY <1>8, <1>14, <2>1 DEF SessionEnds
  <2>. QED  BY <1>14, <2>2 DEF SessionActs, Ends, SessionEnds
<1>. QED
  BY <1>5, <1>6, <1>7, <1>12, <1>13, <1>14 DEF SessionNext

(* A session that is at rest has no attempt, and one that has is not.      *)
LEMMA BecameRests ==
    ASSUME TypeOK, NEW s \in Sessions, NEW base, NEW attempt, NEW doubt, NEW helper,
           Became(s, base, attempt, doubt, helper),
           attempt = NoDoc <=> (helper = 0 /\ ~doubt)
    PROVE  \A t \in Sessions : (sessions[t].attempt = NoDoc <=> AtRest(t))'
<1>1. ASSUME NEW t \in Sessions \ {s}
      PROVE  (sessions[t].attempt = NoDoc <=> AtRest(t))'
  BY <1>1 DEF TypeOK, AtRest, Became
<1>2. (sessions[s].attempt = NoDoc <=> AtRest(s))'
  BY DEF AtRest, Became
<1>. QED  BY <1>1, <1>2

(* A helper more, or one less, leaves the others with their sessions.      *)
LEMMA KilledShape ==
    ASSUME Shape, NEW s \in Sessions, NEW base, NEW attempt, NEW doubt,
           sessions[s].helper # 0, Became(s, base, attempt, doubt, 0),
           \/ Killed(sessions[s].helper)
           \/ UNCHANGED helpers,
           \/ UNCHANGED lock
           \/ Killed(sessions[s].helper) /\ Unlock(sessions[s].helper)
    PROVE  /\ helpers' \in Seq(Helper)
           /\ lock' \in 0 .. Len(helpers') /\ DOMAIN helpers' = DOMAIN helpers
           /\ Len(helpers') = Len(helpers)
           /\ LockIsHeld' /\ HelpersHaveWork' /\ HelpersAreOwned'
<1>. DEFINE h == sessions[s].helper
<1>1. TypeOK /\ LockIsHeld /\ HelpersHaveWork /\ HelpersAreOwned /\ h \in DOMAIN helpers
  BY DEF Shape, HelpersAreOwned
<1>2. /\ helpers' \in Seq(Helper) /\ Len(helpers') = Len(helpers)
      /\ DOMAIN helpers' = DOMAIN helpers
      /\ \A k \in DOMAIN helpers \ {h} : helpers'[k] = helpers[k]
      /\ helpers'[h] = helpers[h] \/ (helpers'[h].at = "Gone" /\ Killed(h))
  BY <1>1, DeadHelperIs DEF Killed, TypeOK
<1>3. lock' \in 0 .. Len(helpers')
  BY <1>1, <1>2 DEF TypeOK, Unlock
<1>4. LockIsHeld'
  <2>1. CASE UNCHANGED lock
    BY <1>1, <1>2, <2>1 DEF LockIsHeld, Locked
  <2>2. CASE Killed(h) /\ Unlock(h)
    <3>1. helpers'[h].at = "Gone"
      BY <2>2, DeadHelperIs DEF Killed
    <3>. QED  BY <1>1, <1>2, <2>2, <3>1 DEF LockIsHeld, Unlock, Locked
  <2>. QED  BY <2>1, <2>2
<1>5. HelpersHaveWork'
  BY <1>1, <1>2 DEF HelpersHaveWork
<1>6. HelpersAreOwned'
  BY <1>1, <1>2, Fields DEF HelpersAreOwned, Became
<1>. QED  BY <1>2, <1>3, <1>4, <1>5, <1>6

(* The steps of a session keep helpers and owners in shape.                *)
LEMMA SessionShape ==
    ASSUME Shape, NEW s \in Sessions, SessionActs(s)
    PROVE  Shape'
<1>. DEFINE h == sessions[s].helper
<1>1. TypeOK /\ LockIsHeld /\ DirMayBeFound /\ HelpersHaveWork /\ HelpersAreOwned
  BY DEF Shape
<1>2. /\ dir \in [Entry -> Doc] /\ mayFind \in [Entry -> SUBSET Doc]
      /\ sessions[s].base \in Doc /\ sessions[s].attempt \in Doc
      /\ helpers \in Seq(Helper) /\ lock \in 0 .. Len(helpers)
      /\ acked \in SUBSET Doc /\ dropped \in SUBSET Doc
      /\ exposed \in SUBSET (1 .. Len(helpers))
  BY <1>1, Fields DEF TypeOK
<1>3. ASSUME UNCHANGED <<dir, mayFind>>
      PROVE  dir' \in [Entry -> Doc] /\ mayFind' \in [Entry -> SUBSET Doc] /\ DirMayBeFound'
  BY <1>1, <1>2, <1>3 DEF DirMayBeFound, Backup
<1>4. ASSUME NEW base, NEW attempt, NEW doubt, Became(s, base, attempt, doubt, 0),
             UNCHANGED <<helpers, lock>>
      PROVE  LockIsHeld' /\ HelpersHaveWork' /\ HelpersAreOwned'
  <2>1. \A t \in Sessions \ {s} : sessions'[t] = sessions[t]
    BY <1>4 DEF Became
  <2>2. sessions'[s].helper = 0
    BY <1>4 DEF Became
  <2>3. HelpersAreOwned'
    BY <1>1, <1>4, <2>1, <2>2 DEF HelpersAreOwned
  <2>. QED  BY <1>1, <1>4, <2>3 DEF LockIsHeld, HelpersHaveWork
<1>5. CASE Loads(s)
  <2>1. Became(s, Primary, NoDoc, FALSE, 0)
    BY <1>5 DEF Loads
  <2>2. \A t \in Sessions : (sessions[t].attempt = NoDoc <=> AtRest(t))'
    BY <1>1, <2>1, BecameRests
  <2>3. TypeOK'
    BY <1>1, <1>3, <1>5, <2>1, <2>2 DEF TypeOK, Loads, history, Became
  <2>. QED  BY <1>3, <1>4, <1>5, <2>1, <2>3 DEF Shape, Loads
<1>6. CASE Ends(s)
  <2>1. Became(s, NoDoc, NoDoc, FALSE, 0)
    BY <1>6 DEF Ends
  <2>2. \A t \in Sessions : (sessions[t].attempt = NoDoc <=> AtRest(t))'
    BY <1>1, <2>1, BecameRests
  <2>3. TypeOK'
    BY <1>1, <1>3, <1>6, <2>1, <2>2 DEF TypeOK, Ends, history, Became
  <2>. QED  BY <1>3, <1>4, <1>6, <2>1, <2>3 DEF Shape, Ends
<1>7. CASE HearsReceipt(s)
  <2>1. h # 0 /\ Became(s, sessions[s].attempt, NoDoc, FALSE, 0) /\ Killed(h)
    BY <1>7 DEF HearsReceipt
  <2>2. \A t \in Sessions : (sessions[t].attempt = NoDoc <=> AtRest(t))'
    BY <1>1, <2>1, BecameRests
  <2>3. UNCHANGED lock
    BY <1>7 DEF HearsReceipt
  <2>4. /\ helpers' \in Seq(Helper) /\ lock' \in 0 .. Len(helpers')
        /\ Len(helpers') = Len(helpers)
        /\ LockIsHeld' /\ HelpersHaveWork' /\ HelpersAreOwned'
    BY <2>1, <2>3, KilledShape
  <2>5. sessions' \in [Sessions -> Session]
    BY <2>1 DEF Became
  <2>6. acked' \in SUBSET Doc /\ UNCHANGED <<dir, mayFind, dropped, stamps, crashes, edits, exposed>>
    BY <1>2, <1>7 DEF HearsReceipt
  <2>7. TypeOK'
    BY <1>1, <1>3, <2>2, <2>4, <2>5, <2>6 DEF TypeOK
  <2>. QED  BY <1>3, <2>4, <2>6, <2>7 DEF Shape
<1>8. CASE HearsNotSaved(s)
  <2>1. h # 0 /\ Became(s, sessions[s].base, NoDoc, FALSE, 0) /\ Killed(h)
    BY <1>8 DEF HearsNotSaved, Hidden
  <2>2. \A t \in Sessions : (sessions[t].attempt = NoDoc <=> AtRest(t))'
    BY <1>1, <2>1, BecameRests
  <2>3. UNCHANGED lock
    BY <1>8 DEF HearsNotSaved
  <2>4. /\ helpers' \in Seq(Helper) /\ lock' \in 0 .. Len(helpers')
        /\ Len(helpers') = Len(helpers)
        /\ LockIsHeld' /\ HelpersHaveWork' /\ HelpersAreOwned'
    BY <2>1, <2>3, KilledShape
  <2>5. sessions' \in [Sessions -> Session]
    BY <2>1 DEF Became
  <2>6. dropped' \in SUBSET Doc /\ UNCHANGED <<dir, mayFind, acked, stamps, crashes, edits, exposed>>
    BY <1>2, <1>8 DEF HearsNotSaved
  <2>7. TypeOK'
    BY <1>1, <1>3, <2>2, <2>4, <2>5, <2>6 DEF TypeOK
  <2>. QED  BY <1>3, <2>4, <2>6, <2>7 DEF Shape
<1>9. CASE IsInDoubt(s)
  <2>1. /\ h # 0 /\ Became(s, sessions[s].base, sessions[s].attempt, TRUE, 0)
        /\ Killed(h) \/ UNCHANGED helpers
        /\ UNCHANGED lock \/ (Killed(h) /\ Unlock(h))
    BY <1>9 DEF IsInDoubt
  <2>2. sessions[s].attempt # NoDoc
    BY <1>1, <2>1 DEF TypeOK, AtRest
  <2>3. \A t \in Sessions : (sessions[t].attempt = NoDoc <=> AtRest(t))'
    BY <1>1, <2>1, <2>2 DEF Became, TypeOK, AtRest
  <2>4. /\ helpers' \in Seq(Helper) /\ lock' \in 0 .. Len(helpers')
        /\ Len(helpers') = Len(helpers)
        /\ LockIsHeld' /\ HelpersHaveWork' /\ HelpersAreOwned'
    BY <2>1, KilledShape
  <2>5. sessions' \in [Sessions -> Session]
    BY <2>1 DEF Became
  <2>6. UNCHANGED <<dir, mayFind, acked, dropped, stamps, crashes, edits, exposed>>
    BY <1>9 DEF IsInDoubt, history
  <2>7. TypeOK'
    BY <1>1, <1>3, <2>3, <2>4, <2>5, <2>6 DEF TypeOK
  <2>. QED  BY <1>3, <2>4, <2>6, <2>7 DEF Shape
<1>10. CASE Tries(s)
  <2>1. PICK doc \in Doc :
            /\ Launched(s, doc)
            /\ \/ AtRest(s) /\ doc = Append(sessions[s].base, stamps + 1)
               \/ sessions[s].doubt /\ doc = sessions[s].attempt
            /\ stamps' \in 0 .. MaxStamp
            /\ UNCHANGED <<dir, mayFind, lock, crashes, edits, history>>
    BY <1>10 DEF Tries
  <2>2. doc # NoDoc
    <3>1. stamps + 1 \in Nat
      BY <1>1, Fields
    <3>2. Append(sessions[s].base, stamps + 1) # NoDoc
      BY <1>2, <3>1, AppendIs
    <3>3. sessions[s].doubt => sessions[s].attempt # NoDoc
      BY <1>1 DEF TypeOK, AtRest
    <3>. QED  BY <2>1, <3>2, <3>3
  <2>3. /\ helpers' \in Seq(Helper) /\ Len(helpers') = Len(helpers) + 1
        /\ Len(helpers) \in Nat /\ DOMAIN helpers = 1 .. Len(helpers)
        /\ DOMAIN helpers' = DOMAIN helpers \cup {Len(helpers) + 1}
        /\ \A k \in DOMAIN helpers : helpers'[k] = helpers[k]
        /\ helpers'[Len(helpers) + 1].at = "Begin"
        /\ helpers'[Len(helpers) + 1].attempt = doc
    BY <1>1, <2>1, NewHelperIs, Fields DEF Launched
  <2>4. /\ sessions' \in [Sessions -> Session]
        /\ \A t \in Sessions \ {s} : sessions'[t] = sessions[t]
        /\ sessions'[s].attempt = doc
        /\ sessions'[s].helper = Len(helpers) + 1
    BY <2>1 DEF Launched
  <2>5. \A t \in Sessions : (sessions[t].attempt = NoDoc <=> AtRest(t))'
    BY <1>1, <2>2, <2>3, <2>4 DEF TypeOK, AtRest
  <2>6. lock' \in 0 .. Len(helpers') /\ exposed' \in SUBSET (1 .. Len(helpers'))
    BY <1>2, <2>1, <2>3 DEF history
  <2>7. TypeOK'
    BY <1>1, <1>3, <2>1, <2>3, <2>4, <2>5, <2>6 DEF TypeOK, history
  <2>8. LockIsHeld' /\ HelpersHaveWork'
    BY <1>1, <2>1, <2>2, <2>3 DEF LockIsHeld, HelpersHaveWork, Locked
  <2>9. HelpersAreOwned'
    BY <1>1, <2>3, <2>4 DEF HelpersAreOwned
  <2>. QED  BY <1>3, <2>1, <2>7, <2>8, <2>9 DEF Shape
<1>. QED  BY <1>5, <1>6, <1>7, <1>8, <1>9, <1>10 DEF SessionActs

(* The machine goes down: each name shows one of the documents that it may *)
(* show, and everybody starts again.                                       *)
Crashed ==
    /\ dir' \in [Entry -> Doc] /\ mayFind' \in [Entry -> SUBSET Doc]
    /\ \A e \in Entry : dir'[e] \in mayFind[e] /\ mayFind'[e] = {dir'[e]}
    /\ lock' = 0
    /\ helpers' \in Seq(Helper)
    /\ Len(helpers') = Len(helpers) /\ DOMAIN helpers' = DOMAIN helpers
    /\ \A h \in DOMAIN helpers : helpers'[h] = DeadHelper
    /\ sessions' \in [Sessions -> Session]
    /\ \A s \in Sessions : sessions'[s] = NewSession
    /\ crashes' \in 0 .. MaxCrashes
    /\ UNCHANGED <<stamps, edits, history>>

(* A session begins at rest, without a document.                           *)
LEMMA NewSessionIs ==
    /\ NewSession \in Session /\ NewSession.base = NoDoc /\ NewSession.attempt = NoDoc
    /\ NewSession.doubt = FALSE /\ NewSession.helper = 0
  BY DeadHelperIs DEF NewSession, Session

(* A power loss is of this kind.                                           *)
LEMMA PowerLossCrashes ==
    ASSUME TypeOK, PowerLoss
    PROVE  Crashed
<1>1. PICK d \in [Entry -> UNION {mayFind[e] : e \in Entry}] :
          (\A e \in Entry : d[e] \in mayFind[e]) /\ dir' = d
  BY DEF PowerLoss
<1>2. \A e \in Entry : mayFind[e] \in SUBSET Doc
  BY Fields
<1>3. dir' \in [Entry -> Doc] /\ \A e \in Entry : dir'[e] \in mayFind[e]
  BY <1>1, <1>2
<1>4. mayFind' = [e \in Entry |-> {dir'[e]}]
  BY DEF PowerLoss
<1>5. mayFind' \in [Entry -> SUBSET Doc] /\ \A e \in Entry : mayFind'[e] = {dir'[e]}
  BY <1>3, <1>4
<1>6. helpers' = [h \in DOMAIN helpers |-> DeadHelper] /\ DOMAIN helpers = 1 .. Len(helpers)
      /\ Len(helpers) \in Nat
  BY Fields DEF PowerLoss
<1>7. /\ helpers' \in Seq(Helper)
      /\ Len(helpers') = Len(helpers) /\ DOMAIN helpers' = DOMAIN helpers
      /\ \A h \in DOMAIN helpers : helpers'[h] = DeadHelper
  <2>1. \A h \in 1 .. Len(helpers) : DeadHelper \in Helper
    BY DeadHelperIs
  <2>. QED  BY <1>6, <2>1
<1>8. sessions' \in [Sessions -> Session] /\ \A s \in Sessions : sessions'[s] = NewSession
  BY NewSessionIs DEF PowerLoss
<1>9. crashes' \in 0 .. MaxCrashes
  BY RepositoryAssumption DEF PowerLoss, TypeOK
<1>10. lock' = 0 /\ UNCHANGED <<stamps, edits, history>>
  BY DEF PowerLoss
<1>. QED  BY <1>3, <1>5, <1>7, <1>8, <1>9, <1>10 DEF Crashed

(* A change by hand puts a new document, none, or the backup there.        *)
Edited ==
    \E doc \in Doc :
        /\ Rename("primary", doc)
        /\ \/ doc = Append(Primary, stamps + 1) /\ stamps' = stamps + 1
           \/ doc \in {NoDoc, Backup} /\ stamps' = stamps
        /\ stamps' \in 0 .. MaxStamp
        /\ edits' \in 1 .. MaxEdits
        /\ exposed' = exposed \cup {h \in DOMAIN helpers :
                                        /\ helpers[h].at = "Replace"
                                        /\ Previous(helpers[h].attempt) # NoDoc}
        /\ UNCHANGED <<lock, helpers, sessions, crashes, acked, dropped>>

(* An edit by hand is of this kind.                                        *)
LEMMA EditByHandEdits ==
    ASSUME TypeOK, EditByHand
    PROVE  Edited
<1>1. edits' \in 1 .. MaxEdits
  BY Fields, RepositoryAssumption DEF EditByHand
<1>2. /\ UNCHANGED <<lock, helpers, sessions, crashes, acked, dropped>>
      /\ exposed' = exposed \cup {h \in DOMAIN helpers :
                                      /\ helpers[h].at = "Replace"
                                      /\ Previous(helpers[h].attempt) # NoDoc}
  BY DEF EditByHand
<1>3. Primary \in Doc /\ Backup \in Doc /\ NoDoc \in Doc /\ stamps + 1 \in Nat
  BY Fields, DeadHelperIs
<1>4. stamps \in 0 .. MaxStamp
  BY DEF TypeOK
<1>5. Append(Primary, stamps + 1) \in Doc /\ Append(Primary, stamps + 1) # NoDoc
  BY <1>3, AppendIs
<1>6. CASE /\ stamps < MaxStamp
           /\ stamps' = stamps + 1
           /\ Rename("primary", Append(Primary, stamps + 1))
  <2>1. stamps' \in 0 .. MaxStamp
    BY <1>4, <1>6, RepositoryAssumption
  <2>. QED  BY <1>1, <1>2, <1>5, <1>6, <2>1 DEF Edited
<1>7. CASE Rename("primary", NoDoc) /\ UNCHANGED stamps
  BY <1>1, <1>2, <1>3, <1>4, <1>5, <1>7 DEF Edited
<1>8. CASE Rename("primary", Backup) /\ UNCHANGED stamps
  BY <1>1, <1>2, <1>3, <1>4, <1>8 DEF Edited
<1>. QED  BY <1>6, <1>7, <1>8 DEF EditByHand

(* Power losses and edits keep the shape.                                  *)
LEMMA WorldShape ==
    ASSUME Shape, Crashed \/ Edited
    PROVE  Shape'
<1>1. TypeOK /\ LockIsHeld /\ DirMayBeFound /\ HelpersHaveWork /\ HelpersAreOwned
  BY DEF Shape
<1>2. CASE Crashed
  <2>1. DirMayBeFound'
    BY <1>2 DEF Crashed, DirMayBeFound, Backup, Entry
  <2>2. \A s \in Sessions : (sessions[s].attempt = NoDoc <=> AtRest(s))'
    BY <1>2, NewSessionIs DEF Crashed, AtRest
  <2>3. lock' \in 0 .. Len(helpers')
    BY <1>1, <1>2, Fields DEF Crashed
  <2>4. TypeOK'
    BY <1>1, <1>2, <2>2, <2>3 DEF TypeOK, Crashed, history
  <2>5. LockIsHeld' /\ HelpersHaveWork' /\ HelpersAreOwned'
    BY <1>2, NewSessionIs, DeadHelperIs
    DEF LockIsHeld, HelpersHaveWork, HelpersAreOwned, Crashed, Locked
  <2>. QED  BY <2>1, <2>4, <2>5 DEF Shape
<1>3. CASE Edited
  <2>1. dir' \in [Entry -> Doc] /\ mayFind' \in [Entry -> SUBSET Doc] /\ DirMayBeFound'
    BY <1>1, <1>3, RenameKeepsDir DEF Edited, Entry
  <2>2. /\ UNCHANGED <<lock, helpers, sessions, crashes, acked, dropped>>
        /\ stamps' \in 0 .. MaxStamp /\ edits' \in 0 .. MaxEdits
    BY <1>3, RepositoryAssumption DEF Edited
  <2>3. exposed' \in SUBSET (1 .. Len(helpers))
    BY <1>1, <1>3, Fields DEF Edited, TypeOK
  <2>4. TypeOK'
    BY <1>1, <2>1, <2>2, <2>3 DEF TypeOK, AtRest
  <2>5. LockIsHeld' /\ HelpersHaveWork' /\ HelpersAreOwned'
    BY <1>1, <2>2 DEF LockIsHeld, HelpersHaveWork, HelpersAreOwned
  <2>. QED  BY <2>1, <2>4, <2>5 DEF Shape
<1>. QED  BY <1>2, <1>3

(* The three kinds of step.                                                *)
Steps ==
    \/ \E h \in DOMAIN helpers : HelperNext(h)
    \/ \E s \in Sessions : SessionActs(s)
    \/ Crashed
    \/ Edited
    \/ UNCHANGED vars

(* Every step of the system is of one of these kinds.                      *)
LEMMA NextSteps ==
    ASSUME Shape, [Next]_vars
    PROVE  Steps
<1>1. TypeOK
  BY DEF Shape
<1>. QED
  BY <1>1, SessionNextActs, PowerLossCrashes, EditByHandEdits DEF Next, Steps

(* At first nobody holds or waits for anything.                            *)
LEMMA InitShape ==
    ASSUME Init
    PROVE  Shape
<1>1. NoDoc \in Doc /\ <<>> \in Seq(Helper) /\ Len(<<>>) = 0 /\ DOMAIN <<>> = {}
  BY DEF NoDoc, Doc
<1>2. dir \in [Entry -> Doc] /\ mayFind \in [Entry -> SUBSET Doc] /\ DirMayBeFound
  BY <1>1 DEF Init, DirMayBeFound, Backup, Entry
<1>3. sessions \in [Sessions -> Session] /\ \A s \in Sessions : sessions[s].helper = 0
  BY NewSessionIs DEF Init
<1>4. \A s \in Sessions : sessions[s].attempt = NoDoc <=> AtRest(s)
  BY NewSessionIs DEF Init, AtRest
<1>5. TypeOK
  BY <1>1, <1>2, <1>3, <1>4, RepositoryAssumption DEF Init, TypeOK
<1>6. LockIsHeld /\ HelpersHaveWork /\ HelpersAreOwned
  BY <1>1, <1>3 DEF Init, LockIsHeld, HelpersHaveWork, HelpersAreOwned
<1>. QED  BY <1>2, <1>5, <1>6 DEF Shape

(* Where nothing happens, the shape stays.                                 *)
LEMMA StutterShape ==
    ASSUME Shape, UNCHANGED vars
    PROVE  Shape'
<1>1. /\ UNCHANGED <<dir, mayFind, lock, helpers, sessions, stamps, crashes, edits>>
      /\ UNCHANGED <<acked, dropped, exposed>>
  BY DEF vars, history
<1>2. TypeOK'
  BY <1>1 DEF Shape, TypeOK, AtRest
<1>3. DirMayBeFound' /\ LockIsHeld'
  BY <1>1 DEF Shape, DirMayBeFound, Backup, LockIsHeld
<1>4. HelpersHaveWork' /\ HelpersAreOwned'
  BY <1>1 DEF Shape, HelpersHaveWork, HelpersAreOwned
<1>. QED  BY <1>2, <1>3, <1>4 DEF Shape

(* The shape is inductive.                                                 *)
LEMMA ShapeIsKept ==
    ASSUME Shape, [Next]_vars
    PROVE  Shape'
<1>1. CASE \E h \in DOMAIN helpers : HelperNext(h)
  BY <1>1, HelperNextActs, HelperShape
<1>2. CASE \E s \in Sessions : SessionActs(s)
  BY <1>2, SessionShape
<1>. QED  BY <1>1, <1>2, NextSteps, WorldShape, StutterShape DEF Steps

----------------------------------------------------------------------------
(***************************************************************************)
(* What was dropped, or is hidden, is nowhere else.                        *)
(***************************************************************************)
Secrecy ==
    /\ DocsAreStamped
    /\ DroppedLeftNoTrace
    /\ AttemptsAreHidden

(* The documents in play after a step.                                     *)
InPlayNext(S, H) ==
    (UNION {mayFind'[e] : e \in Entry})
        \cup {sessions'[s].base : s \in Sessions}
        \cup {sessions'[s].attempt : s \in S}
        \cup {helpers'[h].attempt : h \in H}

(* All that a step can make of a set of documents: no file, what one of    *)
(* them was before, or a continuation with the next stamp.                 *)
Stems(doc, docs) ==
    \/ doc \in docs
    \/ doc = NoDoc
    \/ \E d \in docs : d # NoDoc /\ doc = Previous(d)
    \/ stamps' = stamps + 1 /\ \E d \in docs : doc = Append(d, stamps + 1)

(* Where a document in play may be.                                        *)
LEMMA InPlayIs ==
    ASSUME NEW S, NEW H, NEW doc
    PROVE  /\ doc \in InPlay(S, H) <=>
                  \/ \E e \in Entry : doc \in mayFind[e]
                  \/ \E s \in Sessions : doc = sessions[s].base
                  \/ \E s \in S : doc = sessions[s].attempt
                  \/ \E h \in H : doc = helpers[h].attempt
           /\ doc \in InPlayNext(S, H) <=>
                  \/ \E e \in Entry : doc \in mayFind'[e]
                  \/ \E s \in Sessions : doc = sessions'[s].base
                  \/ \E s \in S : doc = sessions'[s].attempt
                  \/ \E h \in H : doc = helpers'[h].attempt
  BY Zenon DEF InPlay, InPlayNext

(* What is in play are documents.                                          *)
LEMMA InPlayAreDocs ==
    ASSUME TypeOK, NEW S \in SUBSET Sessions, NEW H \in SUBSET DOMAIN helpers
    PROVE  InPlay(S, H) \in SUBSET Doc
<1>1. ASSUME NEW doc \in InPlay(S, H)
      PROVE  doc \in Doc
  <2>1. \/ \E e \in Entry : doc \in mayFind[e]
        \/ \E s \in Sessions : doc = sessions[s].base
        \/ \E s \in S : doc = sessions[s].attempt
        \/ \E h \in H : doc = helpers[h].attempt
    BY InPlayIs
  <2>. QED  BY <2>1, Fields
<1>. QED  BY <1>1

(* More sessions and helpers, more documents.                              *)
LEMMA InPlayGrows ==
    ASSUME NEW S \in SUBSET Sessions, NEW H \in SUBSET DOMAIN helpers
    PROVE  InPlay(S, H) \in SUBSET InPlay(Sessions, DOMAIN helpers)
  BY InPlayIs

(* A step does not make continuations of what nothing continued.           *)
LEMMA StemsLeaveNoTrace ==
    ASSUME TypeOK, NEW docs \in SUBSET Doc, NEW a \in Doc, a # NoDoc, Stamped(a),
           \A d \in docs : ~IsPrefix(a, d),
           NEW doc, Stems(doc, docs)
    PROVE  ~IsPrefix(a, doc)
<1>1. stamps \in Nat /\ stamps + 1 \in Nat /\ NoDoc \in Doc
  BY Fields, DeadHelperIs
<1>2. CASE doc \in docs
  BY <1>2
<1>3. CASE doc = NoDoc
  BY <1>1, <1>3, PrefixIsShorter
<1>4. CASE \E d \in docs : d # NoDoc /\ doc = Previous(d)
  <2>1. PICK d \in docs : d # NoDoc /\ doc = Previous(d)
    BY <1>4
  <2>2. d \in Doc /\ doc \in Doc /\ IsPrefix(doc, d)
    BY <2>1, PreviousIs, PreviousIsPrefix
  <2>. QED  BY <2>1, <2>2, PrefixOfPrefix
<1>5. CASE \E d \in docs : doc = Append(d, stamps + 1)
  <2>1. PICK d \in docs : doc = Append(d, stamps + 1)
    BY <1>5
  <2>2. \A i \in DOMAIN a : a[i] < stamps + 1
    BY <1>1 DEF Stamped, Doc
  <2>. QED  BY <1>1, <2>1, <2>2, NewStampContinues
<1>. QED  BY <1>2, <1>3, <1>4, <1>5 DEF Stems

(* Nor does it use a stamp before it is given out.                         *)
LEMMA StemsAreStamped ==
    ASSUME TypeOK, NEW docs \in SUBSET Doc, \A d \in docs : Stamped(d),
           stamps' = stamps \/ stamps' = stamps + 1,
           NEW doc, Stems(doc, docs)
    PROVE  Stamped(doc)'
<1>1. stamps \in Nat /\ stamps + 1 \in Nat /\ stamps' \in Nat /\ stamps <= stamps'
  BY Fields
<1>2. \A d \in docs : DOMAIN d = 1 .. Len(d) /\ \A i \in DOMAIN d : d[i] \in Nat /\ d[i] <= stamps'
  BY <1>1 DEF Stamped, Doc
<1>3. CASE doc \in docs
  BY <1>2, <1>3 DEF Stamped
<1>4. CASE doc = NoDoc
  BY <1>4 DEF Stamped, NoDoc
<1>5. CASE \E d \in docs : d # NoDoc /\ doc = Previous(d)
  <2>1. PICK d \in docs : d # NoDoc /\ doc = Previous(d)
    BY <1>5
  <2>2. /\ d \in Doc /\ doc \in Doc /\ Len(doc) = Len(d) - 1 /\ Len(d) \in Nat \ {0}
        /\ \A i \in 1 .. Len(d) - 1 : doc[i] = d[i]
    BY <2>1, PreviousIs
  <2>3. DOMAIN doc = 1 .. Len(d) - 1
    BY <2>2 DEF Doc
  <2>. QED  BY <1>2, <2>2, <2>3 DEF Stamped
<1>6. CASE stamps' = stamps + 1 /\ \E d \in docs : doc = Append(d, stamps + 1)
  <2>1. PICK d \in docs : doc = Append(d, stamps + 1)
    BY <1>6
  <2>2. /\ doc \in Doc /\ Len(doc) = Len(d) + 1 /\ Len(d) \in Nat
        /\ doc[Len(d) + 1] = stamps + 1
        /\ \A i \in 1 .. Len(d) : doc[i] = d[i]
    BY <1>1, <2>1, AppendIs
  <2>3. DOMAIN doc = 1 .. Len(d) + 1
    BY <2>2 DEF Doc
  <2>4. ASSUME NEW i \in 1 .. Len(d) + 1
        PROVE  doc[i] <= stamps'
    <3>1. CASE i = Len(d) + 1
      BY <1>1, <1>6, <2>2, <3>1
    <3>2. CASE i \in 1 .. Len(d)
      BY <1>2, <2>2, <3>2
    <3>. QED  BY <2>2, <3>1, <3>2
  <2>. QED  BY <2>3, <2>4 DEF Stamped
<1>. QED  BY <1>3, <1>4, <1>5, <1>6 DEF Stems

(* What is in play after a step stems from what was in play before it.     *)
LEMMA HelperStems ==
    ASSUME Shape, NEW h \in DOMAIN helpers, HelperActs(h),
           NEW S \in SUBSET Sessions, NEW H \in SUBSET DOMAIN helpers, h \in H,
           NEW doc \in InPlayNext(S, H)
    PROVE  Stems(doc, InPlay(S, H))
<1>. DEFINE docs == InPlay(S, H)
<1>1. TypeOK /\ DirMayBeFound /\ HelpersHaveWork
  BY DEF Shape
<1>2. helpers[h].attempt \in docs /\ helpers[h].attempt # NoDoc
  BY <1>1, InPlayIs DEF HelperActs, HelpersHaveWork
<1>3. /\ sessions' = sessions
      /\ \A k \in DOMAIN helpers : helpers'[k].attempt = helpers[k].attempt
  BY DEF HelperActs, World, Moved
<1>4. ASSUME NEW e \in Entry, doc \in mayFind'[e]
      PROVE  doc \in mayFind[e] \/ doc \in {helpers[h].attempt, Previous(helpers[h].attempt)}
  <2>1. mayFind \in [Entry -> SUBSET Doc]
    BY <1>1 DEF TypeOK
  <2>2. WritesItsOwn(h)
    BY DEF HelperActs
  <2>3. CASE SyncDirectory
    BY <1>1, <1>4, <2>3 DEF SyncDirectory, DirMayBeFound
  <2>. QED  BY <1>4, <2>1, <2>2, <2>3 DEF WritesItsOwn, Rename
<1>5. CASE \E e \in Entry : doc \in mayFind'[e]
  <2>1. PICK e \in Entry : doc \in mayFind'[e]
    BY <1>5
  <2>2. doc \in mayFind[e] => doc \in docs
    BY InPlayIs
  <2>. QED  BY <1>2, <1>4, <2>1, <2>2 DEF Stems
<1>6. CASE \/ \E s \in Sessions : doc = sessions'[s].base
           \/ \E s \in S : doc = sessions'[s].attempt
           \/ \E k \in H : doc = helpers'[k].attempt
  <2>1. doc \in docs
    BY <1>3, <1>6, InPlayIs
  <2>. QED  BY <2>1 DEF Stems
<1>. QED  BY <1>5, <1>6, InPlayIs

(* The same for the steps of a session, which may be giving a helper its   *)
(* new attempt.                                                            *)
LEMMA SessionStems ==
    ASSUME Shape, NEW s \in Sessions, SessionActs(s),
           NEW S \in SUBSET Sessions, s \in S, NEW H \in SUBSET DOMAIN helpers,
           NEW G, G \cap DOMAIN helpers \in SUBSET H, G \in SUBSET DOMAIN helpers',
           NEW doc \in InPlayNext(S, G)
    PROVE  Stems(doc, InPlay(S, H))
<1>. DEFINE docs == InPlay(S, H)
            old == sessions[s].helper
<1>1. TypeOK /\ DirMayBeFound /\ HelpersAreOwned
  BY DEF Shape
<1>2. /\ sessions[s].attempt \in docs /\ sessions[s].base \in docs
      /\ \A t \in Sessions : sessions[t].base \in docs
      /\ \A t \in S : sessions[t].attempt \in docs
      /\ \A k \in H : helpers[k].attempt \in docs
      /\ \A e \in Entry : \A d \in mayFind[e] : d \in docs
      /\ Primary \in docs
  <2>1. Primary \in mayFind["primary"] /\ "primary" \in Entry
    BY <1>1 DEF Entry, DirMayBeFound, Primary
  <2>. QED  BY <2>1, InPlayIs
<1>3. mayFind' = mayFind
  BY DEF SessionActs, Loads, Tries, HearsReceipt, HearsNotSaved, IsInDoubt, Ends
<1>4. /\ \A t \in Sessions \ {s} : sessions'[t] = sessions[t]
      /\ sessions'[s].base \in docs \cup {NoDoc}
      /\ \/ sessions'[s].attempt \in docs \cup {NoDoc}
         \/ stamps' = stamps + 1 /\ sessions'[s].attempt = Append(sessions[s].base, stamps + 1)
  BY <1>2 DEF SessionActs, Loads, Tries, HearsReceipt, HearsNotSaved, IsInDoubt, Ends,
              Became, Launched
<1>5. /\ DOMAIN helpers \in SUBSET DOMAIN helpers'
      /\ \A k \in DOMAIN helpers : helpers'[k].attempt \in {helpers[k].attempt, NoDoc}
      /\ \A k \in DOMAIN helpers' \ DOMAIN helpers : helpers'[k].attempt = sessions'[s].attempt
  <2>1. CASE UNCHANGED helpers
    BY <2>1
  <2>2. CASE old # 0 /\ Killed(old)
    <3>1. old \in DOMAIN helpers
      BY <1>1, <2>2 DEF HelpersAreOwned
    <3>. QED  BY <2>2, <3>1, DeadHelperIs DEF Killed
  <2>3. CASE Tries(s)
    <3>1. PICK d \in Doc : Launched(s, d)
      BY <2>3 DEF Tries
    <3>2. helpers'[Len(helpers) + 1].attempt = d
      BY <3>1, NewHelperIs DEF Launched
    <3>. QED  BY <3>1, <3>2 DEF Launched
  <2>. QED
    BY <2>1, <2>2, <2>3 DEF SessionActs, Loads, HearsReceipt, HearsNotSaved, IsInDoubt, Ends, Hidden
<1>6. \/ doc \in docs \cup {NoDoc}
      \/ doc = sessions'[s].attempt
  <2>1. CASE \E e \in Entry : doc \in mayFind'[e]
    BY <1>2, <1>3, <2>1
  <2>2. CASE \E t \in Sessions : doc = sessions'[t].base
    BY <1>2, <1>4, <2>2
  <2>3. CASE \E t \in S : doc = sessions'[t].attempt
    BY <1>2, <1>4, <2>3
  <2>4. CASE \E k \in G : doc = helpers'[k].attempt
    BY <1>2, <1>5, <2>4
  <2>. QED  BY <2>1, <2>2, <2>3, <2>4, InPlayIs
<1>. QED  BY <1>2, <1>4, <1>6 DEF Stems

(* The same for power losses and edits.                                    *)
LEMMA WorldStems ==
    ASSUME Shape, Crashed \/ Edited,
           NEW S \in SUBSET Sessions, NEW H \in SUBSET DOMAIN helpers,
           NEW doc \in InPlayNext(S, H)
    PROVE  Stems(doc, InPlay(S, H))
<1>. DEFINE docs == InPlay(S, H)
<1>1. TypeOK /\ DirMayBeFound
  BY DEF Shape
<1>2. /\ \A t \in Sessions : sessions[t].base \in docs
      /\ \A t \in S : sessions[t].attempt \in docs
      /\ \A k \in H : helpers[k].attempt \in docs
      /\ \A e \in Entry : \A d \in mayFind[e] : d \in docs
  BY InPlayIs
<1>3. CASE Crashed
  <2>1. \A e \in Entry : \A d \in mayFind'[e] : d \in docs
    BY <1>2, <1>3 DEF Crashed
  <2>2. doc \in docs \cup {NoDoc}
    BY <1>3, <2>1, InPlayIs, NewSessionIs, DeadHelperIs DEF Crashed
  <2>. QED  BY <2>2 DEF Stems
<1>4. CASE Edited
  <2>1. PICK new \in Doc :
            /\ Rename("primary", new)
            /\ \/ new = Append(Primary, stamps + 1) /\ stamps' = stamps + 1
               \/ new \in {NoDoc, Backup}
    BY <1>4 DEF Edited
  <2>2. Primary \in docs /\ Backup \in docs
    BY <1>1, <1>2 DEF DirMayBeFound, Primary, Backup, Entry
  <2>3. \A e \in Entry : \A d \in mayFind'[e] : d \in docs \cup {new}
    BY <1>1, <1>2, <2>1 DEF Rename, TypeOK
  <2>4. helpers' = helpers /\ sessions' = sessions
    BY <1>4 DEF Edited
  <2>5. doc \in docs \cup {new}
    BY <1>2, <2>3, <2>4, InPlayIs
  <2>. QED  BY <2>1, <2>2, <2>5 DEF Stems
<1>. QED  BY <1>3, <1>4

(* A step that only makes documents that stem from those in play keeps     *)
(* stamps in order and leaves no trace of what was dropped.                *)
LEMMA StemsKeepSecrecy ==
    ASSUME Shape, Secrecy, stamps' = stamps \/ stamps' = stamps + 1,
           \A doc \in InPlayNext(Sessions, DOMAIN helpers') :
               Stems(doc, InPlay(Sessions, DOMAIN helpers))
    PROVE  /\ \A doc \in InPlayNext(Sessions, DOMAIN helpers') : Stamped(doc)'
           /\ \A doc \in dropped :
                  /\ Stamped(doc)' /\ doc # NoDoc
                  /\ \A d \in InPlayNext(Sessions, DOMAIN helpers') : ~IsPrefix(doc, d)
<1>. DEFINE docs == InPlay(Sessions, DOMAIN helpers)
<1>1. TypeOK /\ dropped \in SUBSET Doc
  BY DEF Shape, TypeOK
<1>2. docs \in SUBSET Doc
  BY <1>1, InPlayAreDocs
<1>3. (\A d \in docs : Stamped(d)) /\ \A d \in dropped : Stamped(d)
  BY DEF Secrecy, DocsAreStamped
<1>4. \A doc \in dropped : doc # NoDoc /\ \A d \in docs : ~IsPrefix(doc, d)
  BY DEF Secrecy, DroppedLeftNoTrace, NoTrace
<1>. HIDE DEF docs
<1>5. \A doc \in InPlayNext(Sessions, DOMAIN helpers') : Stems(doc, docs)
  BY DEF docs
<1>6. \A doc \in InPlayNext(Sessions, DOMAIN helpers') : Stamped(doc)'
  BY <1>1, <1>2, <1>3, <1>5, StemsAreStamped
<1>7. ASSUME NEW doc \in dropped
      PROVE  Stamped(doc)'
  <2>1. Stems(doc, {doc}) /\ {doc} \in SUBSET Doc /\ \A d \in {doc} : Stamped(d)
    BY <1>1, <1>3 DEF Stems
  <2>. QED  BY <1>1, <2>1, StemsAreStamped
<1>8. ASSUME NEW doc \in dropped, NEW d \in InPlayNext(Sessions, DOMAIN helpers')
      PROVE  ~IsPrefix(doc, d)
  BY <1>1, <1>2, <1>3, <1>4, <1>5, StemsLeaveNoTrace
<1>. QED  BY <1>4, <1>6, <1>7, <1>8

(* The invariant after a step, in terms of what is in play after it.       *)
LEMMA SecrecyNext ==
    ASSUME dropped' \in SUBSET Doc,
           \A doc \in InPlayNext(Sessions, DOMAIN helpers') : Stamped(doc)',
           \A doc \in dropped' :
               /\ Stamped(doc)' /\ doc # NoDoc
               /\ \A d \in InPlayNext(Sessions, DOMAIN helpers') : ~IsPrefix(doc, d),
           \A t \in Sessions : Hidden(t)' =>
               /\ sessions'[t].attempt # NoDoc
               /\ \A d \in InPlayNext(Sessions \ {t}, DOMAIN helpers' \ {sessions'[t].helper}) :
                      ~IsPrefix(sessions'[t].attempt, d)
    PROVE  Secrecy'
<1>1. InPlay(Sessions, DOMAIN helpers)' = InPlayNext(Sessions, DOMAIN helpers')
  BY DEF InPlay, InPlayNext
<1>2. DocsAreStamped'
  BY <1>1 DEF DocsAreStamped
<1>3. DroppedLeftNoTrace'
  BY <1>1 DEF DroppedLeftNoTrace, NoTrace
<1>4. ASSUME NEW t \in Sessions, Hidden(t)'
      PROVE  NoTrace(sessions[t].attempt, Sessions \ {t},
                     DOMAIN helpers \ {sessions[t].helper})'
  <2>1. InPlay(Sessions \ {t}, DOMAIN helpers \ {sessions[t].helper})'
            = InPlayNext(Sessions \ {t}, DOMAIN helpers' \ {sessions'[t].helper})
    BY DEF InPlay, InPlayNext
  <2>. QED  BY <1>4, <2>1 DEF NoTrace
<1>5. AttemptsAreHidden'
  BY <1>4 DEF AttemptsAreHidden
<1>. QED  BY <1>2, <1>3, <1>5 DEF Secrecy

(* What stays hidden: nothing that stems from the documents elsewhere      *)
(* continues the attempt.                                                  *)
LEMMA HiddenStays ==
    ASSUME Shape, Secrecy, NEW t \in Sessions, Hidden(t),
           NEW doc, Stems(doc, InPlay(Sessions \ {t}, DOMAIN helpers \ {sessions[t].helper}))
    PROVE  sessions[t].attempt # NoDoc /\ ~IsPrefix(sessions[t].attempt, doc)
<1>. DEFINE a == sessions[t].attempt
            docs == InPlay(Sessions \ {t}, DOMAIN helpers \ {sessions[t].helper})
<1>1. TypeOK /\ a \in Doc
  BY Fields DEF Shape
<1>2. docs \in SUBSET Doc
  BY <1>1, InPlayAreDocs
<1>3. a # NoDoc /\ \A d \in docs : ~IsPrefix(a, d)
  BY DEF Secrecy, AttemptsAreHidden, NoTrace
<1>4. Stamped(a)
  <2>1. a \in InPlay(Sessions, DOMAIN helpers)
    BY InPlayIs
  <2>. QED  BY <2>1 DEF Secrecy, DocsAreStamped
<1>. QED  BY <1>1, <1>2, <1>3, <1>4, StemsLeaveNoTrace

(* A helper writes nobody's attempt but its own.                           *)
LEMMA HelperSecrecy ==
    ASSUME Shape, Secrecy, NEW h \in DOMAIN helpers, HelperActs(h), Shape'
    PROVE  Secrecy'
<1>1. /\ TypeOK /\ Moved(h, helpers'[h].at) /\ WritesItsOwn(h) /\ HelpersAreOwned
      /\ UNCHANGED World
  BY DEF Shape, HelperActs
<1>2. sessions' = sessions /\ stamps' = stamps /\ dropped' = dropped /\ DOMAIN helpers' = DOMAIN helpers
  BY <1>1 DEF World, history, Moved
<1>3. \A doc \in InPlayNext(Sessions, DOMAIN helpers') : Stems(doc, InPlay(Sessions, DOMAIN helpers))
  BY <1>2, HelperStems
<1>4. /\ \A doc \in InPlayNext(Sessions, DOMAIN helpers') : Stamped(doc)'
      /\ \A doc \in dropped :
             /\ Stamped(doc)' /\ doc # NoDoc
             /\ \A d \in InPlayNext(Sessions, DOMAIN helpers') : ~IsPrefix(doc, d)
  BY <1>2, <1>3, StemsKeepSecrecy
<1>5. ASSUME NEW t \in Sessions, Hidden(t)'
      PROVE  /\ Hidden(t)
             /\ sessions[t].attempt # NoDoc
             /\ \A d \in InPlayNext(Sessions \ {t}, DOMAIN helpers \ {sessions[t].helper}) :
                    ~IsPrefix(sessions[t].attempt, d)
  <2>. DEFINE k == sessions[t].helper
              a == sessions[t].attempt
  <2>1. k \in DOMAIN helpers /\ helpers[k].attempt = a
    BY <1>1, <1>2, <1>5 DEF Hidden, HelpersAreOwned
  <2>2. helpers'[k].visibility = "Unchanged" /\ helpers[k].visibility = "Unchanged"
    BY <1>1, <1>2, <1>5, <2>1 DEF Hidden, HelperActs, Moved
  <2>3. Hidden(t)
    BY <1>2, <1>5, <2>2 DEF Hidden
  <2>4. CASE k # h
    <3>1. ASSUME NEW d \in InPlayNext(Sessions \ {t}, DOMAIN helpers \ {k})
          PROVE  Stems(d, InPlay(Sessions \ {t}, DOMAIN helpers \ {k}))
      BY <2>4, HelperStems
    <3>. QED  BY <2>3, <3>1, HiddenStays DEF Secrecy, AttemptsAreHidden, NoTrace
  <2>5. CASE k = h
    <3>. DEFINE docs == InPlay(Sessions \ {t}, DOMAIN helpers \ {k})
    <3>1. a # NoDoc /\ a \in Doc /\ \A d \in docs : ~IsPrefix(a, d)
      BY <1>1, <2>3, Fields DEF Secrecy, AttemptsAreHidden, NoTrace
    <3>2. ASSUME NEW e \in Entry, NEW d \in mayFind'[e]
          PROVE  d \in mayFind[e] \/ d = Previous(a)
      <4>1. mayFind \in [Entry -> SUBSET Doc] /\ DirMayBeFound
        BY DEF Shape, TypeOK
      <4>2. CASE SyncDirectory
        BY <3>2, <4>1, <4>2 DEF SyncDirectory, DirMayBeFound
      <4>. QED  BY <1>1, <2>1, <2>2, <2>5, <3>2, <4>1, <4>2 DEF WritesItsOwn, Rename
    <3>3. \A k2 \in DOMAIN helpers : helpers'[k2].attempt = helpers[k2].attempt
      BY <1>1 DEF Moved
    <3>4. ASSUME NEW d \in InPlayNext(Sessions \ {t}, DOMAIN helpers \ {k})
          PROVE  d \in docs \/ d = Previous(a)
      BY <1>2, <3>2, <3>3, InPlayIs
    <3>5. ~IsPrefix(a, Previous(a))
      BY <3>1, PreviousIs, PrefixIsShorter
    <3>. QED  BY <2>3, <3>1, <3>4, <3>5
  <2>. QED  BY <2>4, <2>5
<1>6. dropped' \in SUBSET Doc
  BY DEF Shape, TypeOK
<1>. QED  BY <1>2, <1>4, <1>5, <1>6, SecrecyNext

(* A session that drops an attempt was the last to know of it, and a new   *)
(* attempt is known to nobody else.                                        *)
LEMMA SessionSecrecy ==
    ASSUME Shape, Secrecy, NEW s \in Sessions, SessionActs(s), Shape'
    PROVE  Secrecy'
<1>. DEFINE all == InPlay(Sessions, DOMAIN helpers)
            next == InPlayNext(Sessions, DOMAIN helpers')
            a == sessions[s].attempt
            old == sessions[s].helper
<1>1. TypeOK /\ HelpersAreOwned /\ a \in Doc /\ dropped' \in SUBSET Doc
      /\ DOMAIN helpers = 1 .. Len(helpers) /\ Len(helpers) \in Nat
      /\ stamps + 1 \in Nat /\ stamps \in Nat
  BY Fields DEF Shape, TypeOK
<1>2. stamps' = stamps \/ stamps' = stamps + 1
  BY DEF SessionActs, Loads, Tries, HearsReceipt, HearsNotSaved, IsInDoubt, Ends
<1>3. ASSUME NEW d \in next
      PROVE  Stems(d, all)
  BY SessionStems
<1>4. /\ \A d \in next : Stamped(d)'
      /\ \A doc \in dropped :
             Stamped(doc)' /\ doc # NoDoc /\ \A d \in next : ~IsPrefix(doc, d)
  BY <1>2, <1>3, StemsKeepSecrecy
<1>5. \A t \in Sessions \ {s} : sessions'[t] = sessions[t]
  BY DEF SessionActs, Loads, Tries, HearsReceipt, HearsNotSaved, IsInDoubt, Ends, Became, Launched
<1>6. ASSUME NEW t \in Sessions \ {s}, Hidden(t)'
      PROVE  /\ Hidden(t)
             /\ sessions'[t].attempt # NoDoc
             /\ \A d \in InPlayNext(Sessions \ {t}, DOMAIN helpers' \ {sessions'[t].helper}) :
                    ~IsPrefix(sessions'[t].attempt, d)
  <2>. DEFINE k == sessions[t].helper
  <2>1. sessions'[t] = sessions[t]
    BY <1>5
  <2>2. k # 0 /\ k \in DOMAIN helpers
    BY <1>1, <1>6, <2>1 DEF Hidden, HelpersAreOwned
  <2>3. helpers'[k] = helpers[k]
    <3>1. old # 0 => old # k
      BY <1>1, <2>2 DEF HelpersAreOwned
    <3>. QED
      BY <2>2, <3>1 DEF SessionActs, Loads, Tries, HearsReceipt, HearsNotSaved, IsInDoubt, Ends,
                        Hidden, Launched, Killed
  <2>4. Hidden(t)
    BY <1>6, <2>1, <2>3 DEF Hidden
  <2>5. ASSUME NEW d \in InPlayNext(Sessions \ {t}, DOMAIN helpers' \ {k})
        PROVE  Stems(d, InPlay(Sessions \ {t}, DOMAIN helpers \ {k}))
    BY SessionStems
  <2>. QED  BY <2>1, <2>4, <2>5, HiddenStays DEF Secrecy, AttemptsAreHidden, NoTrace
<1>7. ASSUME Hidden(s)'
      PROVE  /\ sessions'[s].attempt # NoDoc
             /\ \A d \in InPlayNext(Sessions \ {s}, DOMAIN helpers' \ {sessions'[s].helper}) :
                    ~IsPrefix(sessions'[s].attempt, d)
  <2>1. sessions'[s].helper # 0 /\ ~sessions'[s].doubt
    BY <1>7 DEF Hidden
  <2>2. Tries(s)
    BY <2>1 DEF SessionActs, Loads, HearsReceipt, HearsNotSaved, IsInDoubt, Ends, Became
  <2>3. PICK doc \in Doc :
            /\ Launched(s, doc)
            /\ \/ doc = Append(sessions[s].base, stamps + 1)
               \/ sessions[s].doubt
            /\ UNCHANGED mayFind
    BY <2>2 DEF Tries
  <2>4. doc = Append(sessions[s].base, stamps + 1) /\ sessions[s].base \in Doc
    BY <1>1, <2>1, <2>3, Fields DEF Launched
  <2>5. ASSUME NEW d \in InPlayNext(Sessions \ {s}, DOMAIN helpers' \ {sessions'[s].helper})
        PROVE  d \in all
    <3>1. /\ \A t \in Sessions : sessions'[t].base = sessions[t].base
          /\ \A t \in Sessions \ {s} : sessions'[t] = sessions[t]
          /\ \A k \in DOMAIN helpers' \ {sessions'[s].helper} :
                 k \in DOMAIN helpers /\ helpers'[k] = helpers[k]
      BY <1>1, <2>3 DEF Launched
    <3>. QED  BY <2>3, <3>1, InPlayIs
  <2>6. all \in SUBSET Doc /\ \A d \in all : \A i \in DOMAIN d : d[i] < stamps + 1
    <3>1. all \in SUBSET Doc /\ \A d \in all : Stamped(d)
      BY <1>1, InPlayAreDocs DEF Secrecy, DocsAreStamped
    <3>. QED  BY <1>1, <3>1 DEF Stamped, Doc
  <2>7. sessions'[s].attempt = Append(sessions[s].base, stamps + 1)
    BY <2>3, <2>4 DEF Launched
  <2>8. Append(sessions[s].base, stamps + 1) # NoDoc
    BY <1>1, <2>4, AppendIs
  <2>9. \A d \in all : ~IsPrefix(Append(sessions[s].base, stamps + 1), d)
    BY <1>1, <2>4, <2>6, NewStampIsNew
  <2>. QED  BY <2>5, <2>7, <2>8, <2>9
<1>8. \A doc \in dropped' :
          Stamped(doc)' /\ doc # NoDoc /\ \A d \in next : ~IsPrefix(doc, d)
  <2>1. CASE HearsNotSaved(s)
    <3>1. Hidden(s) /\ old # 0 /\ old \in DOMAIN helpers /\ dropped' = dropped \cup {a}
          /\ stamps' = stamps
      BY <1>1, <2>1 DEF HearsNotSaved, Hidden, HelpersAreOwned
    <3>2. Became(s, sessions[s].base, NoDoc, FALSE, 0) /\ Killed(old) /\ mayFind' = mayFind
      BY <2>1 DEF HearsNotSaved
    <3>3. a # NoDoc /\ NoDoc \in Doc
          /\ \A d \in InPlay(Sessions \ {s}, DOMAIN helpers \ {old}) : ~IsPrefix(a, d)
      BY <3>1, DeadHelperIs DEF Secrecy, AttemptsAreHidden, NoTrace
    <3>4. \A i \in DOMAIN a : a[i] <= stamps'
      <4>1. a \in all
        BY InPlayIs
      <4>. QED  BY <3>1, <4>1 DEF Secrecy, DocsAreStamped, Stamped
    <3>5. ASSUME NEW d \in next
          PROVE  d = NoDoc \/ d \in InPlay(Sessions \ {s}, DOMAIN helpers \ {old})
      <4>1. /\ \A t \in Sessions : sessions'[t].base = sessions[t].base
            /\ \A t \in Sessions \ {s} : sessions'[t] = sessions[t]
            /\ sessions'[s].attempt = NoDoc
        BY <3>2 DEF Became
      <4>2. /\ DOMAIN helpers' = DOMAIN helpers
            /\ \A k \in DOMAIN helpers \ {old} : helpers'[k] = helpers[k]
            /\ helpers'[old].attempt = NoDoc
        BY <3>2, DeadHelperIs DEF Killed
      <4>. QED  BY <3>2, <4>1, <4>2, InPlayIs
    <3>6. ~IsPrefix(a, NoDoc)
      BY <1>1, <3>3, PrefixIsShorter
    <3>7. a # NoDoc /\ \A d \in next : ~IsPrefix(a, d)
      BY <3>3, <3>5, <3>6
    <3>. HIDE DEF a, next
    <3>. QED  BY <1>4, <3>1, <3>4, <3>7 DEF Stamped
  <2>2. CASE dropped' = dropped
    BY <1>4, <2>2
  <2>. QED
    BY <2>1, <2>2 DEF SessionActs, Loads, Tries, HearsReceipt, IsInDoubt, Ends, history
<1>. QED  BY <1>1, <1>4, <1>6, <1>7, <1>8, SecrecyNext

(* Neither a power loss nor an edit brings back what was never written.    *)
LEMMA WorldSecrecy ==
    ASSUME Shape, Secrecy, Crashed \/ Edited, Shape'
    PROVE  Secrecy'
<1>1. /\ DOMAIN helpers' = DOMAIN helpers
      /\ dropped' = dropped /\ dropped' \in SUBSET Doc
      /\ stamps' = stamps \/ stamps' = stamps + 1
  BY DEF Crashed, Edited, history, Shape, TypeOK
<1>2. \A doc \in InPlayNext(Sessions, DOMAIN helpers') : Stems(doc, InPlay(Sessions, DOMAIN helpers))
  BY <1>1, WorldStems
<1>3. /\ \A doc \in InPlayNext(Sessions, DOMAIN helpers') : Stamped(doc)'
      /\ \A doc \in dropped :
             /\ Stamped(doc)' /\ doc # NoDoc
             /\ \A d \in InPlayNext(Sessions, DOMAIN helpers') : ~IsPrefix(doc, d)
  BY <1>1, <1>2, StemsKeepSecrecy
<1>4. ASSUME NEW t \in Sessions, Hidden(t)'
      PROVE  /\ sessions'[t].attempt # NoDoc
             /\ \A d \in InPlayNext(Sessions \ {t}, DOMAIN helpers' \ {sessions'[t].helper}) :
                    ~IsPrefix(sessions'[t].attempt, d)
  <2>1. Edited
    BY <1>4, NewSessionIs DEF Crashed, Hidden
  <2>2. helpers' = helpers /\ sessions' = sessions
    BY <2>1 DEF Edited
  <2>3. Hidden(t)
    BY <1>4, <2>2 DEF Hidden
  <2>4. ASSUME NEW d \in InPlayNext(Sessions \ {t}, DOMAIN helpers \ {sessions[t].helper})
        PROVE  Stems(d, InPlay(Sessions \ {t}, DOMAIN helpers \ {sessions[t].helper}))
    BY WorldStems
  <2>. QED  BY <2>2, <2>3, <2>4, HiddenStays DEF Secrecy, AttemptsAreHidden, NoTrace
<1>. QED  BY <1>1, <1>3, <1>4, SecrecyNext

(* Where nothing happens, what is hidden stays hidden.                     *)
LEMMA StutterSecrecy ==
    ASSUME Secrecy, UNCHANGED vars
    PROVE  Secrecy'
<1>1. UNCHANGED <<mayFind, sessions, helpers, stamps, dropped>>
  BY DEF vars, history
<1>2. DocsAreStamped'
  BY <1>1 DEF Secrecy, DocsAreStamped, InPlay, Stamped
<1>3. DroppedLeftNoTrace'
  BY <1>1 DEF Secrecy, DroppedLeftNoTrace, NoTrace, InPlay
<1>4. ASSUME NEW t \in Sessions, Hidden(t)'
      PROVE  NoTrace(sessions[t].attempt, Sessions \ {t},
                     DOMAIN helpers \ {sessions[t].helper})'
  <2>1. Hidden(t)
    BY <1>1, <1>4 DEF Hidden
  <2>2. NoTrace(sessions[t].attempt, Sessions \ {t}, DOMAIN helpers \ {sessions[t].helper})
    BY <2>1 DEF Secrecy, AttemptsAreHidden
  <2>. QED  BY <1>1, <2>2 DEF NoTrace, InPlay
<1>5. AttemptsAreHidden'
  BY <1>4 DEF AttemptsAreHidden
<1>. QED  BY <1>2, <1>3, <1>5 DEF Secrecy

(* At first there is nothing to hide.                                      *)
LEMMA InitSecrecy ==
    ASSUME Init
    PROVE  Secrecy
<1>1. \A doc \in InPlay(Sessions, DOMAIN helpers) : doc = NoDoc
  BY NewSessionIs, InPlayIs DEF Init
<1>2. DocsAreStamped
  BY <1>1 DEF Init, DocsAreStamped, Stamped, NoDoc
<1>3. DroppedLeftNoTrace /\ AttemptsAreHidden
  BY NewSessionIs DEF Init, DroppedLeftNoTrace, AttemptsAreHidden, Hidden
<1>. QED  BY <1>2, <1>3 DEF Secrecy

(* Secrecy is inductive, given the shape.                                  *)
LEMMA SecrecyIsKept ==
    ASSUME Shape, Secrecy, [Next]_vars
    PROVE  Secrecy'
<1>1. Shape' /\ Steps
  BY ShapeIsKept, NextSteps
<1>2. CASE \E h \in DOMAIN helpers : HelperNext(h)
  BY <1>1, <1>2, HelperNextActs, HelperSecrecy
<1>3. CASE \E s \in Sessions : SessionActs(s)
  BY <1>1, <1>3, SessionSecrecy
<1>. QED  BY <1>1, <1>2, <1>3, WorldSecrecy, StutterSecrecy DEF Steps

----------------------------------------------------------------------------
(***************************************************************************)
(* What a receipt says is certain.                                         *)
(***************************************************************************)
Certainty ==
    /\ RecheckHolds
    /\ StepsAreEstablished
    /\ OneInDoubt
    /\ AckedHasNewest
    /\ ReceiptIsForGood
    /\ BackupAdjacent

(* What a helper does to the files as long as nobody edits them.           *)
BackupKept == Primary # NoDoc /\ Rename("backup", Primary)

Put(doc) ==
    /\ doc \in Doc /\ doc # NoDoc
    /\ Previous(doc) = Primary
    /\ \A e \in Entry : mayFind[e] = {Primary}
    /\ Rename("primary", doc)

FileStep(h) ==
    \/ UNCHANGED <<dir, mayFind>>
    \/ SyncDirectory
    \/ BackupKept
    \/ Put(helpers[h].attempt)

(* Every step of apply does one of these to the files.                     *)
LEMMA HelperFileSteps ==
    ASSUME Shape, Certainty, edits = 0, NEW h \in DOMAIN helpers, HelperActs(h)
    PROVE  FileStep(h)
<1>1. Established(h) /\ WritesItsOwn(h) /\ helpers[h].attempt \in Doc /\ helpers[h].attempt # NoDoc
  BY Fields DEF Certainty, StepsAreEstablished, HelperActs, Shape, HelpersHaveWork
<1>. QED  BY <1>1 DEF WritesItsOwn, FileStep, BackupKept, Put, Established, Follows

(* A name after a rename, and the others.                                  *)
LEMMA Renamed ==
    ASSUME TypeOK, NEW e \in Entry, NEW doc, Rename(e, doc)
    PROVE  /\ dir'[e] = doc /\ mayFind'[e] = mayFind[e] \cup {doc}
           /\ \A f \in Entry \ {e} : dir'[f] = dir[f] /\ mayFind'[f] = mayFind[f]
  BY DEF Rename, TypeOK

(* As long as nobody edits them the files only go forward.                 *)
Forward ==
    \A doc \in Doc :
        (\A p \in mayFind["primary"] : IsPrefix(doc, p))
            => \A p \in mayFind'["primary"] : IsPrefix(doc, p)

(* None of these takes back what the primary continues, or takes the files *)
(* more than one save apart.                                               *)
LEMMA FilesGoForward ==
    ASSUME Shape, OneInDoubt, BackupAdjacent, edits = 0, edits' = 0,
           NEW h \in DOMAIN helpers, FileStep(h)
    PROVE  OneInDoubt' /\ BackupAdjacent' /\ Forward
<1>1. /\ TypeOK /\ DirMayBeFound /\ "primary" \in Entry /\ "backup" \in Entry
      /\ Primary \in Doc /\ Backup \in Doc
      /\ Primary \in mayFind["primary"] /\ Backup \in mayFind["backup"]
      /\ mayFind["primary"] \in SUBSET Doc
  BY Fields DEF Shape, Entry, DirMayBeFound, Primary, Backup
<1>2. /\ \A p \in mayFind["primary"] : p = Primary \/ (Primary # NoDoc /\ p = Previous(Primary))
      /\ \A p \in mayFind["primary"], b \in mayFind["backup"] : Adjacent(p, b)
  BY DEF OneInDoubt, BackupAdjacent
<1>3. CASE UNCHANGED <<dir, mayFind>>
  BY <1>2, <1>3 DEF OneInDoubt, BackupAdjacent, Forward, Primary
<1>4. CASE SyncDirectory
  <2>1. dir' = dir /\ mayFind'["primary"] = {Primary} /\ mayFind'["backup"] = {Backup}
    BY <1>1, <1>4 DEF SyncDirectory, Primary, Backup
  <2>. QED  BY <1>1, <1>2, <2>1 DEF OneInDoubt, BackupAdjacent, Forward, Primary
<1>5. CASE BackupKept
  <2>1. Primary # NoDoc /\ Rename("backup", Primary)
    BY <1>5 DEF BackupKept
  <2>2. /\ dir'["primary"] = dir["primary"] /\ mayFind'["primary"] = mayFind["primary"]
        /\ mayFind'["backup"] = mayFind["backup"] \cup {Primary}
    BY <1>1, <2>1, Renamed
  <2>3. \A p \in mayFind["primary"] : Adjacent(p, Primary)
    BY <1>2, <2>1 DEF Adjacent
  <2>. QED  BY <1>2, <2>2, <2>3 DEF OneInDoubt, BackupAdjacent, Forward, Primary
<1>6. CASE Put(helpers[h].attempt)
  <2>. DEFINE doc == helpers[h].attempt
  <2>1. doc \in Doc /\ doc # NoDoc /\ Previous(doc) = Primary
        /\ mayFind["primary"] = {Primary} /\ mayFind["backup"] = {Primary}
    BY <1>1, <1>6 DEF Put
  <2>2. /\ dir'["primary"] = doc /\ mayFind'["primary"] = {Primary, doc}
        /\ mayFind'["backup"] = {Primary}
    BY <1>1, <1>6, <2>1, Renamed DEF Put
  <2>. HIDE DEF doc
  <2>3. IsPrefix(Primary, doc)
    BY <2>1, PreviousIsPrefix
  <2>4. Forward
    BY <1>1, <2>1, <2>2, <2>3, PrefixOfPrefix DEF Forward
  <2>5. Adjacent(Primary, Primary) /\ Adjacent(doc, Primary)
    BY <2>1 DEF Adjacent
  <2>. QED  BY <2>1, <2>2, <2>4, <2>5 DEF OneInDoubt, BackupAdjacent, Primary
<1>. QED  BY <1>3, <1>4, <1>5, <1>6 DEF FileStep

(* Whoever does not hold the lock does not touch the files.                *)
LEMMA OthersDoNotWrite ==
    ASSUME Shape, NEW h \in DOMAIN helpers, HelperActs(h),
           NEW k \in DOMAIN helpers, k # h, helpers[k].at \in Locked
    PROVE  UNCHANGED <<dir, mayFind>>
<1>1. helpers[h].at \notin Locked
  BY DEF Shape, LockIsHeld
<1>. QED  BY <1>1 DEF HelperActs, WritesItsOwn, Locked

(* What the steps of a helper establish.                                   *)
LEMMA HelperEstablishes ==
    ASSUME Shape, Certainty, edits = 0, NEW h \in DOMAIN helpers, HelperNext(h)
    PROVE  Established(h)'
<1>. DEFINE doc == helpers[h].attempt
<1>1. /\ TypeOK /\ DirMayBeFound /\ "primary" \in Entry /\ "backup" \in Entry
      /\ doc \in Doc /\ helpers'[h].attempt = doc
      /\ Moved(h, helpers'[h].at)
      /\ Established(h)
      /\ \A p \in mayFind["primary"] : p = Primary \/ (Primary # NoDoc /\ p = Previous(Primary))
  BY HelperNextActs, Fields
  DEF Shape, Entry, HelperActs, Moved, Certainty, StepsAreEstablished, OneInDoubt
<1>2. ASSUME helpers'[h].at = "Failure"
      PROVE  Established(h)'
  BY <1>2 DEF Established
<1>3. ASSUME NEW step \in Step, GoTo(h, step)
      PROVE  helpers'[h].at = step
  BY <1>1, <1>3, GoToMoves DEF Moved
<1>4. ASSUME NEW step \in Step, GoToReplaced(h, step)
      PROVE  helpers'[h].at = step
  BY <1>1, <1>4, GoToReplacedMoves DEF Moved
<1>5. IsPrefix(doc, doc)
  BY <1>1, PrefixOfItself
<1>6. CASE HelperIsBusy(h) \/ StepFails(h)
  BY <1>2, <1>3, <1>6 DEF HelperIsBusy, StepFails, Reply, Step
<1>7. CASE HelperBegins(h)
  <2>1. UNCHANGED <<dir, mayFind>>
    BY <1>7 DEF HelperBegins
  <2>2. CASE Primary = doc /\ GoToReplaced(h, "Confirm")
    <3>1. helpers'[h].at = "Confirm"
      BY <1>4, <2>2 DEF Step
    <3>. QED  BY <1>1, <2>1, <2>2, <3>1 DEF Established, Primary
  <2>3. CASE Expected(doc) /\ Previous(doc) = NoDoc /\ GoTo(h, "Recheck")
    <3>1. helpers'[h].at = "Recheck"
      BY <1>3, <2>3 DEF Step
    <3>2. Primary = NoDoc /\ Backup = NoDoc
      BY <2>3 DEF Expected, Occupied
    <3>3. \A e \in Entry : mayFind[e] = {Primary}
      BY <1>1, <3>2 DEF DirMayBeFound, Primary, Backup, Entry
    <3>. QED  BY <1>1, <2>1, <2>3, <3>1, <3>2, <3>3 DEF Established, Follows, Primary
  <2>4. CASE Expected(doc) /\ Previous(doc) # NoDoc /\ GoTo(h, "KeepBackup")
    <3>1. helpers'[h].at = "KeepBackup"
      BY <1>3, <2>4 DEF Step
    <3>2. Primary = Previous(doc)
      BY <2>4 DEF Expected
    <3>. QED  BY <1>1, <2>1, <2>4, <3>1, <3>2 DEF Established, Follows, Primary
  <2>5. CASE Reply(h, "Failure")
    BY <1>2, <1>3, <2>5 DEF Reply, Step
  <2>. QED  BY <1>7, <2>2, <2>3, <2>4, <2>5 DEF HelperBegins
<1>8. CASE HelperConfirms(h) \/ HelperSyncsPrimary(h)
  <2>1. helpers[h].at \in {"Confirm", "SyncPrimary"} /\ SyncDirectory /\ GoTo(h, "Receipt")
    BY <1>8 DEF HelperConfirms, HelperSyncsPrimary, PrimarySynced, Reply
  <2>2. helpers'[h].at = "Receipt"
    BY <1>3, <2>1 DEF Step
  <2>3. Primary = doc
    BY <1>1, <2>1 DEF Established
  <2>4. mayFind'["primary"] = {doc}
    BY <1>1, <2>1, <2>3 DEF SyncDirectory, Primary
  <2>. QED  BY <1>1, <1>5, <2>2, <2>4 DEF Established
<1>9. CASE HelperKeepsBackup(h)
  <2>1. helpers[h].at = "KeepBackup" /\ Rename("backup", Previous(doc)) /\ GoTo(h, "SyncBackup")
    BY <1>9 DEF HelperKeepsBackup
  <2>2. helpers'[h].at = "SyncBackup"
    BY <1>3, <2>1 DEF Step
  <2>3. Primary = Previous(doc) /\ Primary # NoDoc
    BY <1>1, <2>1 DEF Established, Follows
  <2>4. dir'["backup"] = Primary /\ dir'["primary"] = dir["primary"]
    BY <1>1, <2>1, <2>3, Renamed
  <2>. QED  BY <1>1, <2>2, <2>3, <2>4 DEF Established, Follows, Primary, Backup
<1>10. CASE HelperSyncsBackup(h)
  <2>1. helpers[h].at = "SyncBackup" /\ SyncDirectory /\ GoTo(h, "Recheck")
    BY <1>10 DEF HelperSyncsBackup, BackupSynced
  <2>2. helpers'[h].at = "Recheck"
    BY <1>3, <2>1 DEF Step
  <2>3. Primary = Previous(doc) /\ Backup = Primary
    BY <1>1, <2>1 DEF Established, Follows
  <2>4. dir' = dir /\ \A e \in Entry : mayFind'[e] = {Primary}
    BY <2>1, <2>3 DEF SyncDirectory, Entry, Primary, Backup
  <2>. QED  BY <1>1, <2>2, <2>3, <2>4 DEF Established, Follows, Primary
<1>11. CASE HelperRechecks(h)
  <2>1. helpers[h].at = "Recheck" /\ UNCHANGED <<dir, mayFind>>
    BY <1>11 DEF HelperRechecks
  <2>2. CASE GoTo(h, "Replace")
    <3>1. helpers'[h].at = "Replace"
      BY <1>3, <2>2 DEF Step
    <3>. QED  BY <1>1, <2>1, <3>1 DEF Established, Follows, Primary
  <2>3. CASE Reply(h, "Failure")
    BY <1>2, <1>3, <2>3 DEF Reply, Step
  <2>. QED  BY <1>11, <2>2, <2>3 DEF HelperRechecks
<1>12. CASE HelperReplaces(h)
  <2>1. CASE Reply(h, "Failure")
    BY <1>2, <1>3, <2>1 DEF Reply, Step
  <2>2. CASE Rename("primary", doc) /\ GoToReplaced(h, "SyncPrimary")
    <3>1. helpers'[h].at = "SyncPrimary"
      BY <1>4, <2>2 DEF Step
    <3>2. dir'["primary"] = doc
      BY <1>1, <2>2, Renamed
    <3>. QED  BY <1>1, <3>1, <3>2 DEF Established, Primary
  <2>. QED  BY <1>12, <2>1, <2>2 DEF HelperReplaces, ReportReplaced
<1>. QED
  BY HelperNext(h), <1>6, <1>7, <1>8, <1>9, <1>10, <1>11, <1>12 DEF HelperNext

(* The steps of apply keep what the earlier ones established.              *)
LEMMA HelperCertainty ==
    ASSUME Shape, Certainty, NEW h \in DOMAIN helpers, HelperNext(h), Shape'
    PROVE  Certainty'
<1>1. /\ HelperActs(h) /\ TypeOK /\ acked \in SUBSET Doc
      /\ Moved(h, helpers'[h].at) /\ DOMAIN helpers' = DOMAIN helpers
      /\ edits' = edits /\ acked' = acked /\ exposed' = exposed
  BY HelperNextActs DEF HelperActs, Moved, World, history, Shape, TypeOK
<1>2. ASSUME NEW k \in DOMAIN helpers \ {h}, helpers[k].at \in Locked
      PROVE  helpers'[k] = helpers[k] /\ dir' = dir /\ mayFind' = mayFind
  BY <1>1, <1>2, OthersDoNotWrite DEF Moved
<1>3. RecheckHolds'
  <2>1. ASSUME NEW k \in DOMAIN helpers' \ exposed',
               (helpers[k].at = "Replace" /\ Previous(helpers[k].attempt) # NoDoc)'
        PROVE  (Primary = Previous(helpers[k].attempt))'
    <3>1. CASE k = h
      <4>1. Expected(helpers[h].attempt) /\ dir' = dir /\ helpers'[h].attempt = helpers[h].attempt
        BY <1>1, <2>1, <3>1 DEF HelperActs, Moved
      <4>. QED  BY <2>1, <3>1, <4>1 DEF Expected, Primary
    <3>2. CASE k # h
      <4>1. helpers'[k] = helpers[k] /\ k \in DOMAIN helpers \ exposed
        BY <1>1, <2>1, <3>2 DEF Moved
      <4>2. dir' = dir
        BY <1>2, <2>1, <3>2, <4>1 DEF Locked
      <4>. QED  BY <2>1, <4>1, <4>2 DEF Certainty, RecheckHolds, Primary
    <3>. QED  BY <3>1, <3>2
  <2>. QED  BY <2>1 DEF RecheckHolds
<1>4. AckedHasNewest'
  BY <1>1 DEF Certainty, AckedHasNewest
<1>5. CASE edits = 0
  <2>1. FileStep(h)
    BY <1>1, <1>5, HelperFileSteps
  <2>2. OneInDoubt' /\ BackupAdjacent' /\ Forward
    BY <1>1, <1>5, <2>1, FilesGoForward DEF Certainty
  <2>3. ReceiptIsForGood'
    BY <1>1, <2>2 DEF Certainty, ReceiptIsForGood, Forward
  <2>4. ASSUME NEW k \in DOMAIN helpers \ {h}
        PROVE  Established(k)'
    <3>1. Established(k) /\ helpers'[k] = helpers[k] /\ helpers[k].attempt \in Doc
      BY <1>1, <1>5, Fields DEF Certainty, StepsAreEstablished, Moved
    <3>2. CASE helpers[k].at \in Locked
      <4>1. dir' = dir /\ mayFind' = mayFind
        BY <1>2, <3>2
      <4>. QED  BY <3>1, <4>1 DEF Established, Follows, Primary, Backup
    <3>3. CASE helpers[k].at \notin Locked
      BY <2>2, <3>1, <3>3 DEF Established, Locked, Forward
    <3>. QED  BY <3>2, <3>3
  <2>5. Established(h)'
    BY <1>5, HelperEstablishes
  <2>6. StepsAreEstablished'
    BY <1>1, <2>4, <2>5 DEF StepsAreEstablished
  <2>. QED  BY <1>3, <1>4, <2>2, <2>3, <2>6 DEF Certainty
<1>6. CASE edits # 0
  <2>1. StepsAreEstablished' /\ OneInDoubt' /\ ReceiptIsForGood' /\ BackupAdjacent'
    BY <1>1, <1>6 DEF StepsAreEstablished, OneInDoubt, ReceiptIsForGood, BackupAdjacent
  <2>. QED  BY <1>3, <1>4, <2>1 DEF Certainty
<1>. QED  BY <1>5, <1>6

(* A session does not touch the files; a receipt adds what the helper has  *)
(* established.                                                            *)
LEMMA ReceiptIsEstablished ==
    ASSUME Shape, Certainty, NEW s \in Sessions, HearsReceipt(s)
    PROVE  /\ sessions[s].attempt \in Doc
           /\ edits = 0 => \A p \in mayFind["primary"] : IsPrefix(sessions[s].attempt, p)
<1>1. /\ sessions[s].helper \in DOMAIN helpers
      /\ helpers[sessions[s].helper].attempt = sessions[s].attempt
      /\ helpers[sessions[s].helper].at = "Receipt"
  BY DEF HearsReceipt, Shape, HelpersAreOwned
<1>. QED  BY <1>1, Fields DEF Certainty, StepsAreEstablished, Established, Shape

(* The steps of a session keep it, and a receipt tells of it.              *)
LEMMA SessionCertainty ==
    ASSUME Shape, Certainty, NEW s \in Sessions, SessionActs(s)
    PROVE  Certainty'
<1>1. /\ TypeOK /\ HelpersAreOwned /\ acked \in SUBSET Doc
      /\ \A h \in DOMAIN helpers : helpers[h].attempt \in Doc
  BY Fields DEF Shape, TypeOK
<1>2. dir' = dir /\ mayFind' = mayFind /\ edits' = edits /\ exposed' = exposed
  BY DEF SessionActs, Loads, Tries, HearsReceipt, HearsNotSaved, IsInDoubt, Ends, history
<1>3. ASSUME NEW k \in DOMAIN helpers'
      PROVE  \/ k \in DOMAIN helpers /\ helpers'[k] = helpers[k]
             \/ helpers'[k].at \in {"Begin", "Gone"}
  <2>1. CASE UNCHANGED helpers
    BY <2>1
  <2>2. CASE sessions[s].helper # 0 /\ Killed(sessions[s].helper)
    BY <1>1, <2>2, DeadHelperIs DEF HelpersAreOwned, Killed
  <2>3. CASE \E doc \in Doc : Launched(s, doc)
    BY <2>3, NewHelperIs DEF Launched
  <2>. QED
    BY <2>1, <2>2, <2>3
    DEF SessionActs, Loads, Tries, HearsReceipt, HearsNotSaved, IsInDoubt, Ends, Hidden
<1>4. RecheckHolds'
  BY <1>2, <1>3 DEF Certainty, RecheckHolds, Primary
<1>5. ASSUME edits = 0, NEW k \in DOMAIN helpers'
      PROVE  Established(k)'
  <2>1. CASE k \in DOMAIN helpers /\ helpers'[k] = helpers[k]
    <3>1. Established(k)
      BY <1>5, <2>1 DEF Certainty, StepsAreEstablished
    <3>. QED  BY <1>2, <2>1, <3>1 DEF Established, Follows, Primary, Backup
  <2>2. CASE helpers'[k].at \in {"Begin", "Gone"}
    BY <2>2 DEF Established
  <2>. QED  BY <1>3, <2>1, <2>2
<1>6. StepsAreEstablished'
  BY <1>2, <1>5 DEF StepsAreEstablished
<1>7. OneInDoubt' /\ BackupAdjacent'
  BY <1>2 DEF Certainty, OneInDoubt, BackupAdjacent, Primary
<1>8. CASE acked' = acked
  BY <1>2, <1>4, <1>6, <1>7, <1>8 DEF Certainty, ReceiptIsForGood, AckedHasNewest
<1>9. CASE HearsReceipt(s)
  <2>. DEFINE a == sessions[s].attempt
  <2>1. acked' = acked \cup {a} /\ a \in Doc
    BY <1>9, ReceiptIsEstablished DEF HearsReceipt
  <2>2. edits = 0 => \A p \in mayFind["primary"] : IsPrefix(a, p)
    BY <1>9, ReceiptIsEstablished
  <2>. HIDE DEF a
  <2>3. ReceiptIsForGood'
    BY <1>2, <2>1, <2>2 DEF Certainty, ReceiptIsForGood
  <2>4. AckedHasNewest'
    <3>1. \A d \in acked \cup {a} : Len(d) \in Nat
      BY <1>1, <2>1 DEF Doc
    <3>2. CASE acked = {}
      BY <2>1, <3>1, <3>2 DEF AckedHasNewest
    <3>3. CASE acked # {}
      <4>1. PICK d \in acked : \A other \in acked : Len(other) <= Len(d)
        BY <3>3 DEF Certainty, AckedHasNewest
      <4>2. CASE Len(a) <= Len(d)
        BY <2>1, <4>1, <4>2 DEF AckedHasNewest
      <4>3. CASE ~(Len(a) <= Len(d))
        <5>1. \A other \in acked \cup {a} : Len(other) <= Len(a)
          BY <3>1, <4>1, <4>3
        <5>. QED  BY <2>1, <5>1 DEF AckedHasNewest
      <4>. QED  BY <4>2, <4>3
    <3>. QED  BY <3>2, <3>3
  <2>. QED  BY <1>4, <1>6, <1>7, <2>3, <2>4 DEF Certainty
<1>. QED
  BY <1>8, <1>9 DEF SessionActs, Loads, Tries, HearsNotSaved, IsInDoubt, Ends, history

(* A power loss chooses among what may be found, which is certain enough.  *)
LEMMA WorldCertainty ==
    ASSUME Shape, Certainty, Crashed \/ Edited
    PROVE  Certainty'
<1>1. TypeOK /\ "primary" \in Entry /\ "backup" \in Entry
  BY DEF Shape, Entry
<1>2. CASE Crashed
  <2>1. /\ dir'["primary"] \in mayFind["primary"] /\ mayFind'["primary"] = {dir'["primary"]}
        /\ dir'["backup"] \in mayFind["backup"] /\ mayFind'["backup"] = {dir'["backup"]}
        /\ \A h \in DOMAIN helpers' : helpers'[h].at = "Gone"
        /\ edits' = edits /\ acked' = acked /\ exposed' = exposed
    BY <1>1, <1>2, DeadHelperIs DEF Crashed, history
  <2>2. RecheckHolds' /\ StepsAreEstablished'
    BY <2>1 DEF RecheckHolds, StepsAreEstablished, Established
  <2>3. OneInDoubt' /\ AckedHasNewest'
    BY <2>1 DEF Certainty, OneInDoubt, AckedHasNewest, Primary
  <2>4. ReceiptIsForGood' /\ BackupAdjacent'
    BY <2>1 DEF Certainty, ReceiptIsForGood, BackupAdjacent
  <2>. QED  BY <2>2, <2>3, <2>4 DEF Certainty
<1>3. CASE Edited
  <2>1. edits' # 0 /\ helpers' = helpers /\ acked' = acked
        /\ exposed' = exposed \cup {h \in DOMAIN helpers :
                                        /\ helpers[h].at = "Replace"
                                        /\ Previous(helpers[h].attempt) # NoDoc}
    BY <1>3, RepositoryAssumption DEF Edited
  <2>2. RecheckHolds'
    BY <2>1 DEF RecheckHolds
  <2>3. StepsAreEstablished' /\ OneInDoubt' /\ ReceiptIsForGood' /\ BackupAdjacent'
    BY <2>1 DEF StepsAreEstablished, OneInDoubt, ReceiptIsForGood, BackupAdjacent
  <2>4. AckedHasNewest'
    BY <2>1 DEF Certainty, AckedHasNewest
  <2>. QED  BY <2>2, <2>3, <2>4 DEF Certainty
<1>. QED  BY <1>2, <1>3

(* Where nothing happens, what is certain stays certain.                   *)
LEMMA StutterCertainty ==
    ASSUME Certainty, UNCHANGED vars
    PROVE  Certainty'
<1>1. UNCHANGED <<dir, mayFind, helpers, edits, acked, exposed>>
  BY DEF vars, history
<1>2. RecheckHolds' /\ OneInDoubt' /\ AckedHasNewest' /\ ReceiptIsForGood' /\ BackupAdjacent'
  BY <1>1
  DEF Certainty, RecheckHolds, OneInDoubt, AckedHasNewest, ReceiptIsForGood, BackupAdjacent, Primary
<1>3. StepsAreEstablished'
  BY <1>1 DEF Certainty, StepsAreEstablished, Established, Follows, Primary, Backup
<1>. QED  BY <1>2, <1>3 DEF Certainty

(* At first there is no document to be certain of.                         *)
LEMMA InitCertainty ==
    ASSUME Init
    PROVE  Certainty
<1>1. /\ dir["primary"] = NoDoc /\ mayFind["primary"] = {NoDoc} /\ mayFind["backup"] = {NoDoc}
      /\ DOMAIN helpers = {} /\ acked = {}
  BY DEF Init, Entry
<1>. QED
  BY <1>1 DEF Certainty, RecheckHolds, StepsAreEstablished, OneInDoubt, AckedHasNewest,
              ReceiptIsForGood, BackupAdjacent, Adjacent, Primary

(* Certainty is inductive, given the shape.                                *)
LEMMA CertaintyIsKept ==
    ASSUME Shape, Certainty, [Next]_vars
    PROVE  Certainty'
<1>1. Shape' /\ Steps
  BY ShapeIsKept, NextSteps
<1>2. CASE \E h \in DOMAIN helpers : HelperNext(h)
  BY <1>1, <1>2, HelperCertainty
<1>3. CASE \E s \in Sessions : SessionActs(s)
  BY <1>3, SessionCertainty
<1>. QED  BY <1>1, <1>2, <1>3, WorldCertainty, StutterCertainty DEF Steps

----------------------------------------------------------------------------
(***************************************************************************)
(* The theorems.                                                           *)
(***************************************************************************)
IInv == Shape /\ Secrecy /\ Certainty

(* The inductive invariant holds in every reachable state.                 *)
THEOREM Invariance == Spec => []IInv
<1>1. Init => IInv
  BY InitShape, InitSecrecy, InitCertainty DEF IInv
<1>2. IInv /\ [Next]_vars => IInv'
  BY ShapeIsKept, SecrecyIsKept, CertaintyIsKept DEF IInv
<1>. QED  BY <1>1, <1>2, PTL DEF Spec

(* The files, the lock, the helpers and the sessions of apply have the     *)
(* types they are declared with.                                           *)
THEOREM Typing == Spec => []TypeOK
<1>1. IInv => TypeOK
  BY DEF IInv, Shape
<1>. QED  BY <1>1, Invariance, PTL

(* What persist has returned a receipt for is the primary, or the primary  *)
(* continues it, whatever dies afterwards.                                 *)
THEOREM ReceiptsAreForGood == Spec => []ReceiptIsForGood
<1>1. IInv => ReceiptIsForGood
  BY DEF IInv, Certainty
<1>. QED  BY <1>1, Invariance, PTL

(* The primary and the backup are never more than one save apart, in any   *)
(* combination of names the machine may come back with.                    *)
THEOREM BackupsAreAdjacent == Spec => []BackupAdjacent
<1>1. IInv => BackupAdjacent
  BY DEF IInv, Certainty
<1>. QED  BY <1>1, Invariance, PTL

(* What helper.rs reports as not saved is in no file and never will be.    *)
THEOREM DroppedIsGoneForGood == Spec => []DroppedIsGone
<1>1. ASSUME IInv
      PROVE  DroppedIsGone
  <2>1. "primary" \in Entry
    BY DEF Entry
  <2>2. ASSUME NEW p \in mayFind["primary"]
        PROVE  p \in InPlay(Sessions, DOMAIN helpers)
    BY <2>1, InPlayIs
  <2>. QED  BY <1>1, <2>2 DEF IInv, Secrecy, DroppedLeftNoTrace, NoTrace, DroppedIsGone
<1>. QED  BY <1>1, Invariance, PTL

(* One step of apply replaces only the document its own continues.         *)
LEMMA ReplacesOnlyItsOwn ==
    ASSUME IInv, [Next]_vars, NEW h \in DOMAIN helpers \ exposed, Replaces(h)
    PROVE  Previous(dir'["primary"]) = Primary
<1>1. /\ TypeOK /\ Steps /\ HelpersAreOwned /\ RecheckHolds /\ "primary" \in Entry
      /\ DOMAIN helpers = 1 .. Len(helpers) /\ Len(helpers) \in Nat
  BY NextSteps, Fields DEF IInv, Shape, Certainty, Entry
<1>2. helpers[h].at = "Replace" /\ helpers'[h].at = "SyncPrimary"
  BY DEF Replaces
<1>3. CASE \E k \in DOMAIN helpers : HelperNext(k)
  <2>1. PICK k \in DOMAIN helpers : HelperActs(k)
    BY <1>3, HelperNextActs DEF IInv
  <2>2. k = h
    BY <1>2, <2>1 DEF HelperActs, Moved
  <2>3. ~Clobbers(helpers[h].attempt) /\ Rename("primary", helpers[h].attempt)
    BY <1>2, <2>1, <2>2 DEF HelperActs
  <2>4. dir'["primary"] = helpers[h].attempt
    BY <1>1, <2>3, Renamed
  <2>. QED  BY <1>1, <1>2, <2>3, <2>4 DEF RecheckHolds, Clobbers
<1>4. CASE \E s \in Sessions : SessionActs(s)
  <2>1. PICK s \in Sessions : SessionActs(s)
    BY <1>4
  <2>2. \/ helpers'[h] = helpers[h]
        \/ helpers'[h].at = "Gone"
    <3>1. CASE UNCHANGED helpers
      BY <3>1
    <3>2. CASE sessions[s].helper # 0 /\ Killed(sessions[s].helper)
      BY <1>1, <3>2, DeadHelperIs DEF HelpersAreOwned, Killed
    <3>3. CASE \E doc \in Doc : Launched(s, doc)
      BY <3>3 DEF Launched
    <3>. QED
      BY <2>1, <3>1, <3>2, <3>3
      DEF SessionActs, Loads, Tries, HearsReceipt, HearsNotSaved, IsInDoubt, Ends, Hidden
  <2>. QED  BY <1>2, <2>2
<1>5. CASE Crashed
  BY <1>2, <1>5, DeadHelperIs DEF Crashed
<1>6. CASE Edited \/ UNCHANGED vars
  BY <1>2, <1>6 DEF Edited, vars
<1>. QED  BY <1>1, <1>3, <1>4, <1>5, <1>6 DEF Steps

(* No update is lost: apply looks at the primary, and several steps later  *)
(* it still replaces the document that it looked at.                       *)
THEOREM NothingIsOverwritten == Spec => NothingOverwritten
<1>1. IInv /\ [Next]_vars =>
          [\A h \in DOMAIN helpers \ exposed :
               Replaces(h) => Previous(dir'["primary"]) = Primary]_vars
  BY ReplacesOnlyItsOwn
<1>. QED  BY <1>1, Invariance, PTL DEF Spec, NothingOverwritten

----------------------------------------------------------------------------
(***************************************************************************)
(* The repository keeps the promise of SaveSlot.                           *)
(***************************************************************************)
(* Of two documents that the same one continues, the longer continues the  *)
(* shorter.                                                                *)
LEMMA PrefixesAreAChain ==
    ASSUME NEW a \in Doc, NEW b \in Doc, NEW c \in Doc,
           IsPrefix(a, c), IsPrefix(b, c), Len(a) <= Len(b)
    PROVE  IsPrefix(a, b)
<1>1. Len(a) \in Nat /\ Len(b) \in Nat
  BY DEF Doc
<1>2. /\ \A i \in 1 .. Len(a) : a[i] = c[i]
      /\ \A i \in 1 .. Len(b) : b[i] = c[i]
  BY PrefixAgrees
<1>3. \A i \in 1 .. Len(a) : a[i] = b[i]
  BY <1>1, <1>2
<1>. QED  BY <1>3, PrefixAgrees

(* The pledge is a document that was saved for good, the longest, or none. *)
LEMMA NewestIs ==
    ASSUME NEW docs \in SUBSET Doc,
           docs # {} => \E d \in docs : \A other \in docs : Len(other) <= Len(d)
    PROVE  /\ Newest(docs) \in Doc
           /\ docs = {} => Newest(docs) = NoDoc
           /\ docs # {} => Newest(docs) \in docs
           /\ \A d \in docs : Len(d) <= Len(Newest(docs))
  BY DeadHelperIs DEF Newest

(* With a receipt, the pledge goes on to what was saved.                   *)
LEMMA PledgeGoesOn ==
    ASSUME NEW old \in SUBSET Doc, NEW new \in SUBSET Doc, old \in SUBSET new, NEW p \in Doc,
           \A d \in new : IsPrefix(d, p),
           old # {} => \E d \in old : \A other \in old : Len(other) <= Len(d),
           new # {} => \E d \in new : \A other \in new : Len(other) <= Len(d)
    PROVE  IsPrefix(Newest(old), Newest(new)) /\ IsPrefix(Newest(new), p)
<1>1. /\ Newest(old) \in Doc /\ Newest(new) \in Doc
      /\ old = {} => Newest(old) = NoDoc
      /\ old # {} => Newest(old) \in old
      /\ new = {} => Newest(new) = NoDoc
      /\ new # {} => Newest(new) \in new
      /\ \A d \in new : Len(d) <= Len(Newest(new))
  BY NewestIs
<1>2. ASSUME NEW d \in Doc
      PROVE  IsPrefix(NoDoc, d)
  <2>1. NoDoc \in Doc /\ Len(NoDoc) = 0 /\ Len(d) \in Nat
    BY DeadHelperIs DEF NoDoc, Doc
  <2>. QED  BY <2>1, PrefixAgrees
<1>3. IsPrefix(Newest(new), p)
  BY <1>1, <1>2
<1>4. IsPrefix(Newest(old), Newest(new))
  <2>1. CASE old = {}
    BY <1>1, <1>2, <2>1
  <2>2. CASE old # {}
    <3>1. Newest(old) \in new
      BY <1>1, <2>2
    <3>. QED  BY <1>1, <1>3, <3>1, PrefixesAreAChain
  <2>. QED  BY <2>1, <2>2
<1>. QED  BY <1>3, <1>4

(* The slot speaks of documents as the repository does.                    *)
LEMMA SlotDocs ==
    /\ \A d : Slot!Front(d) = Previous(d)
    /\ \A a, b : Slot!IsPrefix(a, b) <=> IsPrefix(a, b)
    /\ NoDoc = <<>>
  BY DEF Slot!Front, Slot!IsPrefix, Front, IsPrefix, Previous, NoDoc

(* An empty directory is an empty slot.                                    *)
LEMMA SlotInit ==
    ASSUME Init
    PROVE  Slot!Init
<1>1. dir["primary"] = NoDoc /\ dir["backup"] = NoDoc /\ acked = {} /\ edits = 0
  BY DEF Init, Entry
<1>. QED  BY <1>1 DEF Slot!Init, Primary, Backup, Newest, NoDoc

(* Every step is a step of the slot, or none.                              *)
LEMMA SlotStep ==
    ASSUME IInv, IInv', [Next]_vars
    PROVE  [Slot!Next]_Slot!slot
<1>1. /\ TypeOK /\ Steps /\ DirMayBeFound /\ acked \in SUBSET Doc /\ acked' \in SUBSET Doc
      /\ "primary" \in Entry /\ "backup" \in Entry
      /\ Primary \in Doc /\ Primary' \in Doc /\ edits \in Nat
      /\ Primary \in mayFind["primary"] /\ Backup \in mayFind["backup"]
      /\ Certainty /\ Certainty'
  <2>1. TypeOK /\ DirMayBeFound /\ Steps /\ TypeOK' /\ Certainty /\ Certainty'
    BY NextSteps DEF IInv, Shape
  <2>2. Primary' \in Doc
    BY <2>1 DEF TypeOK, Primary, Entry
  <2>. QED  BY <2>1, <2>2, Fields DEF TypeOK, DirMayBeFound, Primary, Backup, Entry
<1>2. edits' \in Nat /\ (edits # 0 => edits' # 0)
  <2>1. edits' \in Nat
    BY RepositoryAssumption DEF IInv, Shape, TypeOK
  <2>2. edits' = edits \/ edits' \in 1 .. MaxEdits
    <3>1. CASE \E h \in DOMAIN helpers : HelperNext(h)
      BY <3>1, HelperNextActs DEF IInv, HelperActs, World
    <3>2. CASE \E s \in Sessions : SessionActs(s)
      BY <3>2 DEF SessionActs, Loads, Tries, HearsReceipt, HearsNotSaved, IsInDoubt, Ends
    <3>3. CASE Crashed \/ Edited \/ UNCHANGED vars
      BY <3>3 DEF Crashed, Edited, vars
    <3>. QED  BY <1>1, <3>1, <3>2, <3>3 DEF Steps
  <2>. QED  BY <1>1, <2>1, <2>2, RepositoryAssumption
<1>3. CASE edits' # 0
  BY <1>2, <1>3 DEF Slot!Next, Slot!EditedByHand
<1>4. CASE edits' = 0
  <2>1. edits = 0
    BY <1>2, <1>4
  <2>2. CASE \E h \in DOMAIN helpers : HelperNext(h)
    <3>1. PICK h \in DOMAIN helpers : HelperActs(h)
      BY <2>2, HelperNextActs DEF IInv
    <3>2. FileStep(h) /\ acked' = acked
      BY <1>1, <2>1, <3>1, HelperFileSteps DEF IInv, HelperActs, World, history
    <3>3. CASE UNCHANGED <<dir, mayFind>> \/ SyncDirectory
      <4>1. Primary' = Primary /\ Backup' = Backup
        BY <3>3 DEF SyncDirectory, Primary, Backup
      <4>. QED  BY <1>4, <2>1, <3>2, <4>1 DEF Slot!slot
    <3>4. CASE BackupKept
      <4>1. Primary' = Primary /\ Backup' = Primary /\ Primary # NoDoc
        BY <1>1, <3>4, Renamed DEF BackupKept, Primary, Backup
      <4>. QED
        BY <1>4, <2>1, <3>2, <4>1, SlotDocs DEF Slot!Next, Slot!KeepBackup
    <3>5. CASE Put(helpers[h].attempt)
      <4>1. /\ Primary' = helpers[h].attempt /\ Backup' = Backup
            /\ helpers[h].attempt # NoDoc /\ Previous(helpers[h].attempt) = Primary
            /\ Backup = Primary
        BY <1>1, <3>5, Renamed DEF Put, Primary, Backup
      <4>. QED
        BY <1>4, <2>1, <3>2, <4>1, SlotDocs DEF Slot!Next, Slot!Put
    <3>. QED  BY <3>2, <3>3, <3>4, <3>5 DEF FileStep
  <2>3. CASE \E s \in Sessions : SessionActs(s)
    <3>1. PICK s \in Sessions : SessionActs(s)
      BY <2>3
    <3>2. /\ Primary' = Primary /\ Backup' = Backup /\ mayFind' = mayFind
          /\ acked' = acked \/ HearsReceipt(s)
      BY <3>1 DEF SessionActs, Loads, Tries, HearsReceipt, HearsNotSaved, IsInDoubt, Ends,
                  history, Primary, Backup
    <3>3. CASE acked' = acked
      BY <1>4, <2>1, <3>2, <3>3 DEF Slot!slot
    <3>4. CASE HearsReceipt(s)
      <4>1. acked \in SUBSET acked'
        BY <3>4 DEF HearsReceipt
      <4>2. \A d \in acked' : IsPrefix(d, Primary)
        BY <1>1, <1>4, <3>2 DEF Certainty, ReceiptIsForGood
      <4>3. IsPrefix(Newest(acked), Newest(acked')) /\ IsPrefix(Newest(acked'), Primary)
        BY <1>1, <4>1, <4>2, PledgeGoesOn DEF Certainty, AckedHasNewest
      <4>. QED
        BY <1>4, <2>1, <3>2, <4>3, SlotDocs DEF Slot!Next, Slot!Pledge
    <3>. QED  BY <3>2, <3>3, <3>4
  <2>4. CASE Crashed
    <3>1. /\ Primary' \in mayFind["primary"] /\ Backup' \in mayFind["backup"]
          /\ acked' = acked
      BY <1>1, <2>4 DEF Crashed, Primary, Backup, history
    <3>2. Primary' = Primary \/ (Primary # NoDoc /\ Primary' = Previous(Primary))
      BY <1>1, <2>1, <3>1 DEF Certainty, OneInDoubt
    <3>3. Adjacent(Primary', Backup')
      BY <1>1, <2>1, <3>1 DEF Certainty, BackupAdjacent
    <3>4. \A d \in acked : IsPrefix(d, Primary')
      BY <1>1, <2>1, <3>1 DEF Certainty, ReceiptIsForGood
    <3>5. IsPrefix(Newest(acked), Primary')
      BY <1>1, <3>4, PledgeGoesOn DEF Certainty, AckedHasNewest
    <3>6. Slot!Adjacent(Primary', Backup')
      BY <3>3, SlotDocs DEF Adjacent, Slot!Adjacent
    <3>7. Primary' \in {Primary} \cup {Slot!Front(p) : p \in {Primary} \ {<<>>}}
      BY <3>2, SlotDocs
    <3>. QED
      BY <1>4, <2>1, <3>1, <3>5, <3>6, <3>7, SlotDocs DEF Slot!Next, Slot!PowerLoss
  <2>5. CASE Edited
    BY <1>4, <2>5, RepositoryAssumption DEF Edited
  <2>6. CASE UNCHANGED vars
    BY <2>6 DEF vars, history, Primary, Backup, Slot!slot
  <2>. QED  BY <1>1, <2>2, <2>3, <2>4, <2>5, <2>6 DEF Steps
<1>. QED  BY <1>3, <1>4

(* The files of apply take only the steps that a user of the save may      *)
(* rely on: put after keeping the backup, and never fall behind the newest *)
(* document a receipt was given for.                                       *)
THEOREM Refinement == Spec => ImplementsSlot
<1>1. Init => Slot!Init
  BY SlotInit
<1>2. IInv /\ IInv' /\ [Next]_vars => [Slot!Next]_Slot!slot
  BY SlotStep
<1>. QED  BY <1>1, <1>2, Invariance, PTL DEF Spec, ImplementsSlot, Slot!Spec
=============================================================================
