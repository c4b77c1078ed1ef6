------------------------- MODULE SynthesizerProofs -------------------------
(* Proofs about Synthesizer, for any number of files, agents and users, any *)
(* cool-down, mailbox and set of faults.                                    *)
EXTENDS Synthesizer, TLAPS, SequenceTheorems

\* process() goes through the tiers in order: what is behind it is done.
FeedFits == \A k \in Tiers : k < tier => feed[k] = {}

TypeInv == TypeOK /\ FeedFits
-----------------------------------------------------------------------------
(* The mailbox.                                                             *)

\* A message joins the mailbox.
LEMMA MailAppended ==
  ASSUME mailbox \in Seq(Messages), Len(mailbox) < Capacity, NEW m \in Messages,
         mailbox' = Append(mailbox, m)
  PROVE  /\ mailbox' \in Seq(Messages) /\ Len(mailbox) \in Nat
         /\ Len(mailbox') = Len(mailbox) + 1 /\ Len(mailbox') <= Capacity
         /\ \A i \in 1..Len(mailbox) : mailbox'[i] = mailbox[i]
         /\ mailbox'[Len(mailbox) + 1] = m
<1>1. Len(mailbox) \in Nat /\ Capacity \in Nat
  BY LenProperties, NumbersAssumption
<1> QED BY <1>1, AppendProperties

\* The first message leaves it.
LEMMA MailTaken ==
  ASSUME mailbox \in Seq(Messages), Len(mailbox) <= Capacity, mailbox # <<>>,
         mailbox' = Tail(mailbox)
  PROVE  /\ mailbox' \in Seq(Messages) /\ Len(mailbox) \in Nat \ {0}
         /\ Len(mailbox') = Len(mailbox) - 1 /\ Len(mailbox') <= Capacity
         /\ Head(mailbox) = mailbox[1] /\ Head(mailbox) \in Messages
         /\ \A i \in 1..Len(mailbox') : mailbox'[i] = mailbox[i + 1]
<1>1. Len(mailbox) \in Nat /\ Capacity \in Nat
  BY LenProperties, NumbersAssumption
<1> QED BY <1>1, HeadTailProperties, EmptySeq

\* A message is the tick or tells of a file.
LEMMA MessageKinds ==
  /\ Tick \in Messages
  /\ \A f \in Files : Changed(f) \in Messages /\ Changed(f) # Tick /\ Changed(f).path = f
  /\ \A m \in Messages : m # Tick => m.path \in Files /\ m = Changed(m.path)
<1>1. Tick \in Messages /\ Tick.type = "CooldownTick"
  BY DEF Messages, Tick
<1>2. ASSUME NEW f \in Files
      PROVE  Changed(f) \in Messages /\ Changed(f).type = "FileChanged" /\ Changed(f).path = f
  BY DEF Messages, Changed
<1>3. ASSUME NEW m \in Messages, m # Tick PROVE m.path \in Files /\ m = Changed(m.path)
  <2>1. PICK f \in Files : m = Changed(f)
    BY <1>3 DEF Messages
  <2> QED BY <1>2, <2>1
<1> QED BY <1>1, <1>2, <1>3
-----------------------------------------------------------------------------
(* Types.                                                                   *)

LEMMA TypeInit == Init => TypeInv
<1> SUFFICES ASSUME Init PROVE TypeInv
  OBVIOUS
<1>1. mailbox \in Seq(Messages) /\ Len(mailbox) = 0
  BY EmptySeq DEF Init
<1>2. DOMAIN draft = {} /\ DOMAIN prior = {} /\ misread = {}
  BY DEF Init, EmptyDraft
<1>3. level \in [0..3 -> [Files -> Maybe]]
  BY DEF Init, Maybe
<1>4. stored \in [Tiers -> SUBSET Groups] /\ feed \in [Tiers -> SUBSET Files]
      /\ lost \in [Tiers -> SUBSET Files]
  BY DEF Init
<1>5. timer \in -1..Cooldown /\ tier \in 0..3 /\ budget \in 0..MaxChanges
      /\ Len(mailbox) <= Capacity
  BY <1>1, NumbersAssumption DEF Init, NoTimer
<1>6. tier = 0 /\ group = NoGroup /\ step = "read" /\ draft = EmptyDraft /\ prior = EmptyDraft
      /\ \A k \in Tiers : feed[k] = {}
  BY DEF Init
<1> QED BY <1>1, <1>2, <1>3, <1>4, <1>5, <1>6 DEF Init, TypeInv, TypeOK, FeedFits

\* No work at hand is well typed.
LEMMA NoWorkTyped ==
  ASSUME NoWork
  PROVE  /\ draft' = EmptyDraft /\ prior' = EmptyDraft /\ misread' = {}
         /\ DOMAIN draft' = {} /\ DOMAIN prior' = {}
  BY DEF NoWork, EmptyDraft

\* The end of a group: it leaves the feed, and some of it may go up one tier.
LEMMA EndGroupTyped ==
  ASSUME TypeInv, group # NoGroup, NEW up \in SUBSET Files, EndGroup(up),
         UNCHANGED fileVars, lost' \in [Tiers -> SUBSET Files]
  PROVE  TypeInv'
<1>1. tier \in 1..3 /\ UNCHANGED <<level, stored, announcing, mailbox, changed, armed, timer, tier, budget>>
  BY DEF EndGroup, fileVars, actorVars, TypeInv, TypeOK
<1>2. /\ feed' \in [Tiers -> SUBSET Files]
      /\ \A k \in Tiers : k < tier => feed'[k] = feed[k]
  <2>1. \A k \in Tiers : feed'[k] \in SUBSET Files /\ (k < tier => feed'[k] = feed[k])
    BY <1>1 DEF EndGroup, TypeInv, TypeOK, Tiers
  <2>2. feed' = [k \in Tiers |-> feed'[k]]
    BY DEF EndGroup
  <2> QED BY <2>1, <2>2
<1>3. /\ group' = NoGroup /\ step' = "read" /\ draft' = EmptyDraft /\ prior' = EmptyDraft
      /\ DOMAIN draft' = {} /\ DOMAIN prior' = {} /\ misread' = {}
  BY NoWorkTyped DEF EndGroup
<1>4. FeedFits'
  BY <1>1, <1>2 DEF TypeInv, FeedFits
<1>5. TypeOK'
  BY <1>1, <1>2, <1>3 DEF TypeInv, TypeOK
<1> QED BY <1>4, <1>5 DEF TypeInv

\* Every step keeps the types.
LEMMA TypeStep ==
  ASSUME TypeInv, [Next]_vars
  PROVE  TypeInv'
<1>0. /\ group # NoGroup => tier \in Tiers /\ group \in Groups /\ Due \subseteq Files
      /\ \A k \in Tiers, g \in Groups : FilesOf(k, g) \subseteq Files
  <2>1. group # NoGroup => tier \in Tiers /\ group \in Groups
    BY DEF TypeInv, TypeOK, Tiers
  <2> QED BY <2>1 DEF Due, FilesOf, TypeInv, TypeOK
<1>1. ASSUME NEW f \in Files, NEW c \in Maybe, Change(f, c) PROVE TypeInv'
  <2>1. budget' \in 0..MaxChanges
    BY <1>1, NumbersAssumption DEF Change, TypeInv, TypeOK
  <2>2. level' \in [0..3 -> [Files -> Maybe]]
    BY <1>1 DEF Change, TypeInv, TypeOK
  <2> QED BY <1>1, <2>1, <2>2 DEF Change, actorVars, passVars, work, TypeInv, TypeOK, FeedFits
<1>2. ASSUME NEW f \in Files, Announce(f) PROVE TypeInv'
  <2>1. mailbox' \in Seq(Messages) /\ Len(mailbox') <= Capacity
    BY <1>2, MailAppended, MessageKinds DEF Announce, TypeInv, TypeOK
  <2> QED
    BY <1>2, <2>1 DEF Announce, fileVars, actorVars, passVars, work, TypeInv, TypeOK, FeedFits
<1>3. CASE TakeChange
  <2>1. mailbox' \in Seq(Messages) /\ Len(mailbox') <= Capacity /\ Head(mailbox).path \in Files
    BY <1>3, MailTaken, MessageKinds DEF TakeChange, TypeInv, TypeOK
  <2>2. timer' \in -1..Cooldown
    BY <1>3, NumbersAssumption DEF TakeChange, TypeInv, TypeOK
  <2>3. changed' \subseteq Files /\ armed' \in BOOLEAN
    BY <1>3, <2>1 DEF TakeChange, TypeInv, TypeOK
  <2> QED
    BY <1>3, <2>1, <2>2, <2>3 DEF TakeChange, fileVars, passVars, work, TypeInv, TypeOK, FeedFits
<1>4. CASE TakeTick
  <2>1. mailbox' \in Seq(Messages) /\ Len(mailbox') <= Capacity
    BY <1>4, MailTaken DEF TakeTick, TypeInv, TypeOK
  <2>2. /\ tier = 0 /\ group = NoGroup /\ feed' = [feed EXCEPT ![1] = changed]
        /\ \A k \in Tiers : feed[k] = {}
        /\ tier' = IF changed = {} THEN 0 ELSE 1
    BY <1>4 DEF TakeTick, TypeInv, TypeOK
  <2>3. feed' \in [Tiers -> SUBSET Files] /\ tier' \in 0..3 /\ FeedFits'
        /\ (tier' = 0 => \A k \in Tiers : feed'[k] = {})
    BY <2>2 DEF TypeInv, TypeOK, FeedFits, Tiers
  <2> QED BY <1>4, <2>1, <2>2, <2>3 DEF TakeTick, fileVars, work, TypeInv, TypeOK
<1>5. ASSUME NEW g \in Groups, Begin(g) PROVE TypeInv'
  <2>1. DOMAIN draft' = {} /\ DOMAIN prior' = {} /\ misread' = {}
    BY <1>5, NoWorkTyped DEF Begin
  <2> QED
    BY <1>5, <2>1, AbsentAssumption
    DEF Begin, fileVars, actorVars, TypeInv, TypeOK, FeedFits, Tiers
<1>6. ASSUME NEW f \in Files, ReadFile(f) PROVE TypeInv'
  <2>1. DOMAIN draft' \subseteq Files /\ \A g \in DOMAIN draft' : draft'[g] \in Maybe
    BY <1>6 DEF ReadFile, TypeInv, TypeOK
  <2> QED
    BY <1>6, <2>1 DEF ReadFile, fileVars, actorVars, TypeInv, TypeOK, FeedFits
<1>7. CASE ReadSummaries
  <2>1. CASE EndGroup({})
    BY <1>7, <2>1, EndGroupTyped DEF ReadSummaries, TypeInv, TypeOK
  <2>2. CASE ~EndGroup({})
    <3>1. /\ DOMAIN draft' \subseteq Files /\ \A g \in DOMAIN draft' : draft'[g] \in Maybe
          /\ step' = "ask" /\ group # NoGroup
          /\ UNCHANGED <<announcing, mailbox, actorVars, tier, feed, group, budget, fileVars, lost>>
          /\ UNCHANGED <<prior, misread>>
      <4>1. PICK sources \in SUBSET Due :
               /\ draft' = [f \in sources |-> level[tier - 1][f]] /\ step' = "ask"
               /\ UNCHANGED <<announcing, mailbox, actorVars, tier, feed, group>>
               /\ UNCHANGED <<prior, misread, budget>>
        BY <1>7, <2>2 DEF ReadSummaries
      <4>2. group # NoGroup /\ tier - 1 \in 0..3 /\ UNCHANGED <<fileVars, lost>>
        BY <1>7 DEF ReadSummaries
      <4> QED BY <1>0, <4>1, <4>2 DEF TypeInv, TypeOK
    <3> QED BY <3>1 DEF fileVars, actorVars, TypeInv, TypeOK, FeedFits
  <2> QED BY <2>1, <2>2
<1>19. CASE ReadSummariesBlindly
  <2>0. group # NoGroup /\ UNCHANGED fileVars /\ tier \in Tiers
    BY <1>0, <1>19 DEF ReadSummariesBlindly
  <2>1. PICK unsure \in SUBSET Due, sources \in SUBSET Due :
          \/ EndGroup({}) /\ lost' = [lost EXCEPT ![tier] = @ \cup unsure]
          \/ /\ draft' \in [sources -> Maybe] /\ misread' = unsure /\ step' = "ask"
             /\ UNCHANGED <<announcing, mailbox, actorVars, tier, feed, group>>
             /\ UNCHANGED <<prior, lost, budget>>
    BY <1>19 DEF ReadSummariesBlindly
  <2>2. unsure \subseteq Files /\ sources \subseteq Files
    BY <1>0, <2>0
  <2>3. CASE EndGroup({}) /\ lost' = [lost EXCEPT ![tier] = @ \cup unsure]
    <3>1. lost' \in [Tiers -> SUBSET Files] /\ {} \in SUBSET Files
      BY <2>0, <2>2, <2>3 DEF TypeInv, TypeOK
    <3> QED BY <2>0, <2>3, <3>1, EndGroupTyped
  <2>4. CASE ~(EndGroup({}) /\ lost' = [lost EXCEPT ![tier] = @ \cup unsure])
    <3>1. /\ DOMAIN draft' \subseteq Files /\ \A g \in DOMAIN draft' : draft'[g] \in Maybe
          /\ misread' \subseteq Files /\ step' = "ask"
          /\ UNCHANGED <<announcing, mailbox, actorVars, tier, feed, group, prior, lost, budget>>
      BY <2>1, <2>2, <2>4
    <3> QED BY <2>0, <3>1 DEF fileVars, actorVars, TypeInv, TypeOK, FeedFits
  <2> QED BY <2>3, <2>4
<1>8. ASSUME group # NoGroup, Drop PROVE TypeInv'
  <2>1. lost' \in [Tiers -> SUBSET Files] /\ {} \in SUBSET Files
    BY <1>0, <1>8 DEF Drop, TypeInv, TypeOK
  <2> QED BY <1>8, <2>1, EndGroupTyped DEF Drop
<1>9. CASE Ask
  <2>1. /\ step' = "save" /\ group # NoGroup /\ Others \subseteq Files /\ tier \in 0..3
        /\ UNCHANGED <<level, stored, announcing, mailbox, changed, armed, timer, tier, feed>>
        /\ UNCHANGED <<group, draft, lost, budget>>
    BY <1>0, <1>9 DEF Ask, Others, fileVars, actorVars, Tiers
  <2>2. /\ DOMAIN prior' \subseteq Files /\ \A f \in DOMAIN prior' : prior'[f] \in Maybe
        /\ misread' \subseteq Files
    <3>1. CASE prior' = [f \in Others |-> level[tier][f]] /\ UNCHANGED misread
      BY <2>1, <3>1 DEF TypeInv, TypeOK
    <3>2. CASE prior' \in [Others -> Maybe] /\ misread' = misread \cup Others
      BY <2>1, <3>2 DEF TypeInv, TypeOK
    <3> QED BY <1>9, <3>1, <3>2 DEF Ask
  <2> QED BY <2>1, <2>2 DEF TypeInv, TypeOK, FeedFits
<1>10. CASE EmptyReply
  <2>1. lost' \in [Tiers -> SUBSET Files] /\ group # NoGroup /\ UNCHANGED fileVars
        /\ EndGroup(FilesOf(tier, group))
    BY <1>0, <1>10 DEF EmptyReply, TypeInv, TypeOK
  <2>2. FilesOf(tier, group) \in SUBSET Files
    BY <1>0, <2>1
  <2> QED BY <2>1, <2>2, EndGroupTyped
<1>11. CASE Save
  <2>1. tier \in 1..3 /\ tier \in Tiers /\ group \in Groups /\ group # NoGroup
    BY <1>0, <1>11 DEF Save, Tiers
  <2>2. level' \in [0..3 -> [Files -> Maybe]]
    <3>1. \A f \in Files : (IF f \in DOMAIN draft THEN draft[f]
                           ELSE IF f \in DOMAIN prior THEN prior[f]
                           ELSE level[tier][f]) \in Maybe
      BY <2>1 DEF TypeInv, TypeOK
    <3> QED BY <1>11, <2>1, <3>1 DEF Save, TypeInv, TypeOK
  <2>3. stored' \in [Tiers -> SUBSET Groups] /\ lost' \in [Tiers -> SUBSET Files]
    BY <1>11, <2>1 DEF Save, TypeInv, TypeOK
  <2>4. feed' \in [Tiers -> SUBSET Files] /\ \A k \in Tiers : feed'[k] \subseteq feed[k]
    BY <1>11, <2>1 DEF Save, TypeInv, TypeOK
  <2>5. UNCHANGED <<announcing, mailbox, changed, armed, timer, tier, group, budget>>
        /\ step' = "index" /\ DOMAIN draft' = {} /\ DOMAIN prior' = {} /\ misread' = {}
    BY <1>11, NoWorkTyped DEF Save, actorVars
  <2>6. FeedFits'
    BY <2>4, <2>5 DEF TypeInv, FeedFits
  <2>7. TypeOK'
    BY <2>1, <2>2, <2>3, <2>4, <2>5 DEF TypeInv, TypeOK, Tiers
  <2> QED BY <2>6, <2>7 DEF TypeInv
<1>20. CASE SaveBehind
  <2>1. tier \in 1..3 /\ tier \in Tiers /\ group # NoGroup /\ Due \subseteq Files
    BY <1>0, <1>20 DEF SaveBehind, Tiers
  <2>2. lost' \in [Tiers -> SUBSET Files]
    BY <1>20, <2>1 DEF SaveBehind, TypeInv, TypeOK
  <2>3. feed' \in [Tiers -> SUBSET Files] /\ \A k \in Tiers : feed'[k] \subseteq feed[k]
    BY <1>20, <2>1 DEF SaveBehind, TypeInv, TypeOK
  <2>4. UNCHANGED <<level, stored, announcing, mailbox, changed, armed, timer, tier, group, budget>>
        /\ step' = "index" /\ DOMAIN draft' = {} /\ DOMAIN prior' = {} /\ misread' = {}
    BY <1>20, NoWorkTyped DEF SaveBehind, actorVars, fileVars
  <2>5. FeedFits'
    BY <2>3, <2>4 DEF TypeInv, FeedFits
  <2>6. TypeOK'
    BY <2>1, <2>2, <2>3, <2>4 DEF TypeInv, TypeOK, Tiers
  <2> QED BY <2>5, <2>6 DEF TypeInv
<1>12. CASE Index
  <2>1. group # NoGroup /\ UNCHANGED <<fileVars, lost>> /\ EndGroup(FilesOf(tier, group))
    BY <1>12 DEF Index
  <2>2. FilesOf(tier, group) \in SUBSET Files /\ lost' \in [Tiers -> SUBSET Files]
    BY <1>0, <2>1 DEF TypeInv, TypeOK
  <2> QED BY <2>1, <2>2, EndGroupTyped
<1>13. CASE IndexFails
  <2>1. group # NoGroup /\ UNCHANGED fileVars /\ EndGroup({})
        /\ lost' = [k \in Tiers |-> IF k = tier + 1 THEN lost[k] \cup FilesOf(tier, group)
                                    ELSE lost[k]]
    BY <1>13 DEF IndexFails
  <2>2. lost' \in [Tiers -> SUBSET Files] /\ {} \in SUBSET Files
    BY <1>0, <2>1 DEF TypeInv, TypeOK
  <2> QED BY <2>1, <2>2, EndGroupTyped
<1>14. CASE NextTier
  <2>1. /\ tier \in 1..3 /\ group = NoGroup /\ feed[tier] = {}
        /\ tier' = IF tier = 3 THEN 0 ELSE tier + 1
        /\ UNCHANGED <<level, stored, announcing, mailbox, changed, armed, timer>>
        /\ UNCHANGED <<feed, group, step, draft, prior, misread, lost, budget>>
    BY <1>14 DEF NextTier, Tiers, fileVars, actorVars, work
  <2>2. FeedFits' /\ tier' \in 0..3 /\ (tier' = 0 => \A k \in Tiers : feed'[k] = {})
    BY <2>1 DEF TypeInv, TypeOK, FeedFits, Tiers
  <2> QED BY <2>1, <2>2 DEF TypeInv, TypeOK
<1>15. CASE Elapse
  <2>1. timer' \in -1..Cooldown
    BY <1>15, NumbersAssumption DEF Elapse, TypeInv, TypeOK
  <2> QED BY <1>15, <2>1 DEF Elapse, fileVars, passVars, work, TypeInv, TypeOK, FeedFits
<1>16. CASE Fire
  <2>1. mailbox' \in Seq(Messages) /\ Len(mailbox') <= Capacity
    BY <1>16, MailAppended, MessageKinds DEF Fire, TypeInv, TypeOK
  <2>2. timer' \in -1..Cooldown
    BY <1>16, NumbersAssumption DEF Fire, NoTimer
  <2> QED BY <1>16, <2>1, <2>2 DEF Fire, fileVars, passVars, work, TypeInv, TypeOK, FeedFits
<1>17. CASE Restart
  <2>1. lost' \in [Tiers -> SUBSET Files]
    <3>1. \A k \in Tiers : Pending(k) \subseteq Files
      BY <1>0 DEF Pending, Waiting, TypeInv, TypeOK
    <3> QED BY <1>17, <3>1 DEF Restart, TypeInv, TypeOK
  <2>2. mailbox' \in Seq(Messages) /\ Len(mailbox') = 0 /\ DOMAIN draft' = {}
        /\ DOMAIN prior' = {} /\ misread' = {}
    BY <1>17, EmptySeq, NoWorkTyped DEF Restart
  <2>3. timer' \in -1..Cooldown /\ Len(mailbox') <= Capacity
    BY <1>17, <2>2, NumbersAssumption DEF Restart, NoTimer
  <2>4. /\ feed' \in [Tiers -> SUBSET Files] /\ \A k \in Tiers : feed'[k] = {}
        /\ tier' = 0 /\ group' = NoGroup /\ step' = "read" /\ draft' = EmptyDraft
        /\ prior' = EmptyDraft /\ announcing' = {} /\ changed' = {} /\ armed' = FALSE
        /\ UNCHANGED <<level, stored, budget>>
    BY <1>17, NoWorkTyped DEF Restart, fileVars
  <2>5. \A f \in DOMAIN draft' : draft'[f] \in Maybe
    BY <2>2
  <2>6. TypeOK'
    <3>1. level' \in [0..3 -> [Files -> Maybe]] /\ stored' \in [Tiers -> SUBSET Groups]
          /\ budget' \in 0..MaxChanges
      BY <2>4 DEF TypeInv, TypeOK
    <3>2. announcing' \subseteq Files /\ changed' \subseteq Files /\ armed' \in BOOLEAN
      BY <2>4
    <3>3. tier' \in 0..3 /\ group' \in Groups \cup {NoGroup}
          /\ step' \in {"read", "ask", "save", "index"} /\ DOMAIN draft' \subseteq Files
      BY <2>2, <2>4
    <3> QED BY <2>1, <2>2, <2>3, <2>4, <2>5, <3>1, <3>2, <3>3 DEF TypeOK
  <2> QED BY <2>4, <2>6 DEF TypeInv, FeedFits
<1>18. CASE UNCHANGED vars
  BY <1>18 DEF vars, fileVars, actorVars, passVars, work, TypeInv, TypeOK, FeedFits
<1> QED
  BY <1>1, <1>2, <1>3, <1>4, <1>5, <1>6, <1>7, <1>8, <1>9, <1>10, <1>11, <1>12, <1>13,
     <1>14, <1>15, <1>16, <1>17, <1>18, <1>19, <1>20
  DEF Next, Handle, Process, ReadFails, AskFails, SaveFails

LEMMA Typed == Spec => []TypeInv
  BY TypeInit, TypeStep, PTL DEF Spec

\* The variables have their types, between groups nothing of the last one is left, and no
\* pass leaves work behind when process() ends.
THEOREM TypeCorrect == Spec => []TypeOK
<1>1. TypeInv => TypeOK
  BY DEF TypeInv
<1> QED BY <1>1, Typed, PTL
-----------------------------------------------------------------------------
(* The timer.                                                               *)

\* Nothing of what the flag depends on moves.
LEMMA TimedStays ==
  ASSUME PendingIsTimed, UNCHANGED <<mailbox, changed, armed, timer>>
  PROVE  PendingIsTimed'
  BY DEF PendingIsTimed, TicksQueued

LEMMA TimedStep ==
  ASSUME TypeInv, PendingIsTimed, [Next]_vars
  PROVE  PendingIsTimed'
<1>0. /\ mailbox \in Seq(Messages) /\ Len(mailbox) \in Nat /\ Len(mailbox) <= Capacity
      /\ timer \in -1..Cooldown /\ Cooldown \in Nat /\ NoTimer = -1
  BY LenProperties, NumbersAssumption DEF TypeInv, TypeOK, NoTimer
<1>1. ASSUME NEW f \in Files, Announce(f) PROVE PendingIsTimed'
  <2>1. /\ Len(mailbox') = Len(mailbox) + 1
        /\ \A i \in 1..Len(mailbox) : mailbox'[i] = mailbox[i]
        /\ mailbox'[Len(mailbox) + 1] # Tick
        /\ UNCHANGED <<changed, armed, timer>>
    BY <1>0, <1>1, MailAppended, MessageKinds DEF Announce, actorVars
  <2>2. TicksQueued' = TicksQueued
    BY <1>0, <2>1 DEF TicksQueued
  <2> QED BY <2>1, <2>2 DEF PendingIsTimed
<1>2. CASE TakeChange
  <2>1. /\ Len(mailbox') = Len(mailbox) - 1 /\ mailbox[1] # Tick
        /\ \A i \in 1..Len(mailbox') : mailbox'[i] = mailbox[i + 1]
        /\ armed' = TRUE /\ timer' = IF armed THEN timer ELSE Cooldown
    BY <1>0, <1>2, MailTaken DEF TakeChange
  <2>2. \A i \in TicksQueued' : i \in Int /\ i + 1 \in TicksQueued
    BY <1>0, <2>1 DEF TicksQueued
  <2>3. \A i \in TicksQueued : i - 1 \in TicksQueued'
    BY <1>0, <2>1 DEF TicksQueued
  <2>4. TicksQueued' = {} <=> TicksQueued = {}
    BY <2>2, <2>3
  <2>5. \A i, j \in TicksQueued' : i = j
    BY <2>2 DEF PendingIsTimed
  <2>6. (timer' # NoTimer \/ TicksQueued' # {}) /\ (timer' # NoTimer => TicksQueued' = {})
    BY <1>0, <2>1, <2>4 DEF PendingIsTimed
  <2> QED BY <2>1, <2>5, <2>6 DEF PendingIsTimed
<1>3. CASE TakeTick
  <2>1. /\ Len(mailbox') = Len(mailbox) - 1 /\ mailbox[1] = Tick /\ Len(mailbox) # 0
        /\ \A i \in 1..Len(mailbox') : mailbox'[i] = mailbox[i + 1]
        /\ armed' = FALSE /\ changed' = {} /\ timer' = timer
    BY <1>0, <1>3, MailTaken DEF TakeTick
  <2>2. 1 \in TicksQueued
    BY <1>0, <2>1 DEF TicksQueued
  <2>3. timer = NoTimer
    BY <2>2 DEF PendingIsTimed
  <2>4. \A i \in TicksQueued' : i \in 1..Len(mailbox') /\ i + 1 \in TicksQueued
    BY <1>0, <2>1 DEF TicksQueued
  <2>5. \A i \in TicksQueued' : i + 1 = 1
    BY <2>2, <2>4 DEF PendingIsTimed
  <2>6. TicksQueued' = {}
    BY <1>0, <2>1, <2>4, <2>5
  <2> QED BY <2>1, <2>3, <2>6 DEF PendingIsTimed
<1>4. CASE Fire
  <2>1. /\ Len(mailbox') = Len(mailbox) + 1
        /\ \A i \in 1..Len(mailbox) : mailbox'[i] = mailbox[i]
        /\ mailbox'[Len(mailbox) + 1] = Tick
        /\ timer = 0 /\ timer' = NoTimer /\ UNCHANGED <<changed, armed>>
    BY <1>0, <1>4, MailAppended, MessageKinds DEF Fire
  <2>2. TicksQueued = {} /\ armed
    BY <1>0, <2>1 DEF PendingIsTimed
  <2>3. TicksQueued' = {Len(mailbox) + 1}
    BY <1>0, <2>1, <2>2 DEF TicksQueued
  <2> QED BY <2>1, <2>2, <2>3 DEF PendingIsTimed
<1>5. CASE Elapse
  <2>1. timer # NoTimer /\ timer' # NoTimer /\ UNCHANGED <<mailbox, changed, armed>>
    BY <1>0, <1>5 DEF Elapse
  <2> QED BY <2>1 DEF PendingIsTimed, TicksQueued
<1>6. CASE Restart
  <2>1. Len(mailbox') = 0 /\ changed' = {} /\ armed' = FALSE /\ timer' = NoTimer
    BY <1>6, EmptySeq DEF Restart
  <2>2. TicksQueued' = {}
    BY <2>1 DEF TicksQueued
  <2> QED BY <2>1, <2>2 DEF PendingIsTimed
<1>7. ASSUME \/ \E f \in Files, c \in Maybe : Change(f, c)
             \/ Process \/ UNCHANGED vars
      PROVE  PendingIsTimed'
  <2>1. UNCHANGED <<mailbox, changed, armed, timer>>
    BY <1>7 DEF Change, Process, Begin, ReadFile, ReadSummaries, ReadSummariesBlindly, ReadFails,
       Ask, AskFails, EmptyReply, Save, SaveBehind, SaveFails, Index, IndexFails, NextTier, Drop, EndGroup, vars, actorVars
  <2> QED BY <2>1, TimedStays
<1> QED BY <1>1, <1>2, <1>3, <1>4, <1>5, <1>6, <1>7 DEF Next, Handle

\* timer_armed tells the truth in every order of changes, sleeps, ticks and passes: a
\* pending change has exactly one timer or queued tick coming.
THEOREM AlwaysTimed == Spec => []PendingIsTimed
<1>1. Init => PendingIsTimed
  <2> SUFFICES ASSUME Init PROVE PendingIsTimed
    OBVIOUS
  <2>1. Len(mailbox) = 0
    BY EmptySeq DEF Init
  <2>2. TicksQueued = {}
    BY <2>1 DEF TicksQueued
  <2> QED BY <2>2 DEF Init, PendingIsTimed
<1> QED BY <1>1, TimedStep, Typed, PTL DEF Spec
-----------------------------------------------------------------------------
(* The tiers.                                                               *)

\* The files of which the Synthesizer has yet to start a batch.
OnTheWay == announcing \cup Waiting \cup changed

\* The sources of a group are the files that are due, as they are now; one that has
\* changed since it was read is on its way again, one that was misread is noted.
DraftFits ==
    group # NoGroup /\ step # "index" =>
        \A f \in DOMAIN draft :
            /\ f \in Due
            /\ \/ draft[f] = level[tier - 1][f]
               \/ tier = 1 /\ f \in OnTheWay
               \/ f \in misread
            /\ tier > 1 => Group(tier - 1, f) \in stored[tier - 1]

\* What is due and is no source has no summary below, or was passed over.
DraftWhole ==
    group # NoGroup /\ step \in {"ask", "save"} =>
        \A f \in Due \ DOMAIN draft :
            tier > 1 /\ (Group(tier - 1, f) \notin stored[tier - 1] \/ f \in misread)

\* The prior summary has the other files of the group as the latest one has them,
\* unless it was misread; it has none that was never folded.
PriorFits ==
    group # NoGroup /\ step = "save" =>
        \A f \in DOMAIN prior :
            /\ f \in FilesOf(tier, group)
            /\ prior[f] = level[tier][f] \/ f \in misread
            /\ prior[f] # NoMemory /\ tier > 1 => Group(tier - 1, f) \in stored[tier - 1]

\* Once its summary is stored, nothing of a group is due.
SavedIsDone == group # NoGroup /\ step = "index" => Due = {}

\* A summary reflects files only of groups that have one, on its tier and below.
StoredBelow ==
    \A k \in Tiers, f \in Files : level[k][f] # NoMemory =>
        Group(k, f) \in stored[k] /\ (k > 1 => Group(k - 1, f) \in stored[k - 1])

FoldInv == DraftFits /\ DraftWhole /\ PriorFits /\ SavedIsDone /\ StoredBelow /\ TiersAgree

\* One way in which the listings of a group can fail.
Blindly(hidden, skipped) ==
    LET unsure  == {f \in Due : Group(tier - 1, f) \in hidden}
        sources == {f \in Due : Group(tier - 1, f) \in stored[tier - 1] \ skipped}
    IN  IF sources = {}
        THEN /\ EndGroup({})
             /\ lost' = [lost EXCEPT ![tier] = @ \cup unsure]
        ELSE /\ draft' \in [sources -> Maybe]
             /\ \A f \in sources :
                   draft'[f] \in IF f \in unsure THEN Earlier(tier - 1, f)
                                ELSE {level[tier - 1][f]}
             /\ misread' = unsure
             /\ step' = "ask"
             /\ UNCHANGED <<announcing, mailbox, actorVars, tier, feed, group>>
             /\ UNCHANGED <<prior, lost, budget>>

\* What is pending for each tier.
LEMMA PendingIs ==
  /\ Pending(1) = feed[1] \cup OnTheWay
  /\ \A k \in {2, 3} : Pending(k) = feed[k] \cup
        (IF group # NoGroup /\ tier = k - 1 /\ step = "index" THEN FilesOf(tier, group) ELSE {})
  /\ Pending(1)' = feed'[1] \cup OnTheWay'
  /\ \A k \in {2, 3} : Pending(k)' = feed'[k] \cup
        (IF group' # NoGroup /\ tier' = k - 1 /\ step' = "index" THEN FilesOf(tier', group') ELSE {})
  BY DEF Pending, OnTheWay

\* Nothing but the way of the notifications changes, and none of them is lost.
LEMMA FoldStays ==
  ASSUME TypeInv, FoldInv, UNCHANGED <<level, stored, tier, feed, group, step, draft, lost>>,
         UNCHANGED <<prior, misread>>, OnTheWay \subseteq OnTheWay'
  PROVE  FoldInv'
<1>1. DraftFits' /\ DraftWhole' /\ PriorFits' /\ SavedIsDone' /\ StoredBelow'
  BY DEF FoldInv, DraftFits, DraftWhole, PriorFits, SavedIsDone, StoredBelow, Due, FilesOf
<1>2. \A k \in Tiers : Pending(k) \subseteq Pending(k)'
  BY PendingIs DEF Tiers
<1> QED BY <1>1, <1>2 DEF FoldInv, TiersAgree

\* A message in the mailbox stays, or its file joins the pending set.
LEMMA WayStays ==
  ASSUME TypeInv, \/ \E f \in Files : Announce(f)
                  \/ TakeChange \/ Fire
  PROVE  OnTheWay \subseteq OnTheWay'
<1>0. mailbox \in Seq(Messages) /\ Len(mailbox) \in Nat /\ Len(mailbox) <= Capacity
  BY LenProperties DEF TypeInv, TypeOK
<1>1. ASSUME NEW f \in Files, Announce(f) PROVE OnTheWay \subseteq OnTheWay'
  <2>1. /\ Len(mailbox') = Len(mailbox) + 1
        /\ \A i \in 1..Len(mailbox) : mailbox'[i] = mailbox[i]
        /\ mailbox'[Len(mailbox) + 1] = Changed(f)
        /\ announcing' = announcing \ {f} /\ changed' = changed
    BY <1>0, <1>1, MailAppended, MessageKinds DEF Announce, actorVars
  <2>2. Waiting \subseteq Waiting' /\ f \in Waiting'
    BY <1>0, <2>1 DEF Waiting
  <2> QED BY <2>1, <2>2 DEF OnTheWay
<1>2. CASE TakeChange
  <2>1. /\ Len(mailbox') = Len(mailbox) - 1 /\ Head(mailbox) = mailbox[1]
        /\ \A i \in 1..Len(mailbox') : mailbox'[i] = mailbox[i + 1]
        /\ announcing' = announcing /\ changed' = changed \cup {mailbox[1].path}
    BY <1>0, <1>2, MailTaken DEF TakeChange
  <2>2. ASSUME NEW f \in Waiting PROVE f \in Waiting' \/ f = mailbox[1].path
    <3>1. PICK i \in 1..Len(mailbox) : mailbox[i] = Changed(f)
      BY <2>2 DEF Waiting
    <3>2. f \in Files
      BY <2>2 DEF Waiting
    <3>3. CASE i = 1
      BY <3>1, <3>2, <3>3, MessageKinds
    <3>4. CASE i # 1
      <4>1. i - 1 \in 1..Len(mailbox') /\ mailbox'[i - 1] = Changed(f)
        BY <1>0, <2>1, <3>1, <3>4
      <4> QED BY <3>2, <4>1 DEF Waiting
    <3> QED BY <3>3, <3>4
  <2> QED BY <2>1, <2>2 DEF OnTheWay
<1>3. CASE Fire
  <2>1. /\ Len(mailbox') = Len(mailbox) + 1
        /\ \A i \in 1..Len(mailbox) : mailbox'[i] = mailbox[i]
        /\ UNCHANGED <<announcing, changed>>
    BY <1>0, <1>3, MailAppended, MessageKinds DEF Fire
  <2>2. Waiting \subseteq Waiting'
    BY <1>0, <2>1 DEF Waiting
  <2> QED BY <2>1, <2>2 DEF OnTheWay
<1> QED BY <1>1, <1>2, <1>3

\* The tick takes the pending set as the batch of the first tier.
LEMMA TickFolds ==
  ASSUME TypeInv, FoldInv, TakeTick
  PROVE  FoldInv'
<1>1. /\ mailbox \in Seq(Messages) /\ Len(mailbox) \in Nat
      /\ Len(mailbox') = Len(mailbox) - 1 /\ mailbox[1] = Tick
      /\ \A i \in 1..Len(mailbox') : mailbox'[i] = mailbox[i + 1]
  BY LenProperties, MailTaken DEF TypeInv, TypeOK, TakeTick
<1>2. Waiting \subseteq Waiting'
  <2> SUFFICES ASSUME NEW f \in Waiting PROVE f \in Waiting'
    OBVIOUS
  <2>1. PICK i \in 1..Len(mailbox) : mailbox[i] = Changed(f)
    BY DEF Waiting
  <2>2. f \in Files /\ i # 1
    BY <1>1, <2>1, MessageKinds DEF Waiting
  <2>3. i - 1 \in 1..Len(mailbox') /\ mailbox'[i - 1] = Changed(f)
    BY <1>1, <2>1, <2>2
  <2> QED BY <2>2, <2>3 DEF Waiting
<1>3. /\ tier = 0 /\ group = NoGroup /\ group' = NoGroup
      /\ UNCHANGED <<level, stored, lost, announcing>>
      /\ feed'[1] = changed /\ \A k \in {2, 3} : feed'[k] = feed[k]
  BY DEF TakeTick, TypeInv, TypeOK, fileVars, Tiers
<1>4. feed[1] = {}
  BY <1>3 DEF TypeInv, TypeOK, Tiers
<1>5. \A k \in Tiers : Pending(k) \subseteq Pending(k)'
  BY <1>2, <1>3, <1>4, PendingIs DEF Tiers, OnTheWay
<1>6. TiersAgree'
  BY <1>3, <1>5 DEF FoldInv, TiersAgree
<1>7. StoredBelow'
  BY <1>3 DEF FoldInv, StoredBelow
<1> QED BY <1>3, <1>6, <1>7 DEF FoldInv, DraftFits, DraftWhole, PriorFits, SavedIsDone

\* A group ends: what was due is folded or lost, and what goes up is pending or lost.
LEMMA EndFolds ==
  ASSUME TypeInv, FoldInv, group # NoGroup, NEW up \in SUBSET Files, EndGroup(up),
         UNCHANGED fileVars, \A k \in Tiers : lost[k] \subseteq lost'[k],
         \A f \in Due : level[tier][f] = level[tier - 1][f] \/ f \in lost'[tier],
         step = "index" /\ tier < 3 => FilesOf(tier, group) \subseteq up \cup lost'[tier + 1]
  PROVE  FoldInv'
<1>1. /\ tier \in Tiers /\ group' = NoGroup /\ UNCHANGED <<level, stored, announcing, mailbox, changed>>
      /\ \A k \in Tiers : feed'[k] = IF k = tier THEN feed[k] \ Due
                                     ELSE IF k = tier + 1 THEN feed[k] \cup up ELSE feed[k]
  BY DEF EndGroup, TypeInv, TypeOK, Tiers, fileVars, actorVars
<1>2. OnTheWay' = OnTheWay
  BY <1>1 DEF OnTheWay, Waiting
<1>3. ASSUME NEW k \in Tiers, NEW f \in Files, f \in Pending(k), f \notin Pending(k)'
      PROVE  f \in lost'[k] \/ level[k][f] = level[k - 1][f]
  <2>1. CASE f \in feed[k]
    <3>1. f \notin feed'[k]
      BY <1>3, PendingIs DEF Tiers
    <3>2. k = tier /\ f \in Due
      BY <1>1, <2>1, <3>1
    <3> QED BY <3>2
  <2>2. CASE f \notin feed[k]
    <3>1. k # 1
      BY <1>2, <1>3, <2>2, PendingIs
    <3>2. tier = k - 1 /\ step = "index" /\ f \in FilesOf(tier, group)
      BY <1>3, <2>2, <3>1, PendingIs DEF Tiers
    <3>3. tier < 3 /\ k = tier + 1 /\ f \notin feed'[k] /\ k # tier
      BY <1>1, <1>3, <3>1, <3>2, PendingIs DEF Tiers
    <3> QED BY <1>1, <3>2, <3>3
  <2> QED BY <2>1, <2>2
<1>4. TiersAgree'
  <2> SUFFICES ASSUME NEW k \in Tiers, NEW f \in Files
               PROVE  level[k][f] = level[k - 1][f] \/ f \in Pending(k)' \cup lost'[k]
    BY <1>1 DEF TiersAgree
  <2>1. level[k][f] = level[k - 1][f] \/ f \in Pending(k) \cup lost[k]
    BY DEF FoldInv, TiersAgree
  <2> QED BY <1>3, <2>1
<1>5. StoredBelow'
  BY <1>1 DEF FoldInv, StoredBelow
<1> QED BY <1>1, <1>4, <1>5 DEF FoldInv, DraftFits, DraftWhole, PriorFits, SavedIsDone

\* The summary of a group is stored.
LEMMA SaveFolds ==
  ASSUME TypeInv, FoldInv, Save
  PROVE  FoldInv'
<1>1. /\ group # NoGroup /\ step = "save" /\ step' = "index" /\ tier \in Tiers /\ tier \in 1..3
      /\ UNCHANGED <<announcing, mailbox, changed, tier, group>>
  BY DEF Save, actorVars, TypeInv, TypeOK, Tiers
<1>2. /\ \A f \in Files : level'[tier][f] = IF f \in DOMAIN draft THEN draft[f]
                                           ELSE IF f \in DOMAIN prior THEN prior[f]
                                           ELSE level[tier][f]
      /\ \A k \in 0..3 : k # tier => level'[k] = level[k]
  BY <1>1 DEF Save, TypeInv, TypeOK
<1>3. /\ stored'[tier] = stored[tier] \cup {group}
      /\ feed'[tier] = feed[tier] \ Due /\ lost'[tier] = (lost[tier] \ DOMAIN draft) \cup misread
      /\ \A k \in Tiers : k # tier => stored'[k] = stored[k] /\ feed'[k] = feed[k] /\ lost'[k] = lost[k]
  BY <1>1 DEF Save, TypeInv, TypeOK
<1>4. OnTheWay' = OnTheWay
  BY <1>1 DEF OnTheWay, Waiting
<1>5. /\ \A f \in DOMAIN draft :
            /\ f \in Due
            /\ draft[f] = level[tier - 1][f] \/ (tier = 1 /\ f \in OnTheWay) \/ f \in misread
            /\ tier > 1 => Group(tier - 1, f) \in stored[tier - 1]
      /\ \A f \in Due \ DOMAIN draft :
            tier > 1 /\ (Group(tier - 1, f) \notin stored[tier - 1] \/ f \in misread)
      /\ \A f \in DOMAIN prior :
            /\ f \in FilesOf(tier, group)
            /\ prior[f] = level[tier][f] \/ f \in misread
            /\ prior[f] # NoMemory /\ tier > 1 => Group(tier - 1, f) \in stored[tier - 1]
  BY <1>1 DEF FoldInv, DraftFits, DraftWhole, PriorFits
<1>6. SavedIsDone'
  BY <1>1, <1>3 DEF SavedIsDone, Due
<1>7. DraftFits' /\ DraftWhole' /\ PriorFits'
  BY <1>1 DEF DraftFits, DraftWhole, PriorFits
<1>8. /\ \A f \in Due : f \in Files /\ Group(tier, f) = group
      /\ \A f \in DOMAIN prior : f \in Files /\ Group(tier, f) = group
  BY <1>1, <1>5 DEF Due, FilesOf, TypeInv, TypeOK
<1>9. StoredBelow'
  <2> SUFFICES ASSUME NEW k \in Tiers, NEW f \in Files, level'[k][f] # NoMemory
               PROVE  Group(k, f) \in stored'[k] /\ (k > 1 => Group(k - 1, f) \in stored'[k - 1])
    BY DEF StoredBelow
  <2>1. \A j \in Tiers : stored[j] \subseteq stored'[j]
    BY <1>3
  <2>2. CASE k = tier /\ (f \in DOMAIN draft \/ f \in DOMAIN prior)
    <3>1. Group(k, f) \in stored'[k]
      BY <1>3, <1>5, <1>8, <2>2
    <3>2. k > 1 => k - 1 \in Tiers
      BY DEF Tiers
    <3>3. k > 1 => Group(k - 1, f) \in stored[k - 1]
      <4>1. CASE f \in DOMAIN draft
        BY <1>5, <2>2, <4>1
      <4>2. CASE f \notin DOMAIN draft
        BY <1>2, <1>5, <2>2, <4>2
      <4> QED BY <4>1, <4>2
    <3> QED BY <2>1, <3>1, <3>2, <3>3
  <2>3. CASE ~(k = tier /\ (f \in DOMAIN draft \/ f \in DOMAIN prior))
    <3>1. level'[k][f] = level[k][f]
      BY <1>2, <2>3 DEF Tiers
    <3>2. k > 1 => k - 1 \in Tiers
      BY DEF Tiers
    <3>3. Group(k, f) \in stored[k] /\ (k > 1 => Group(k - 1, f) \in stored[k - 1])
      BY <3>1 DEF FoldInv, StoredBelow
    <3> QED BY <2>1, <3>2, <3>3
  <2> QED BY <2>2, <2>3
<1>10. ASSUME NEW f \in Files
       PROVE  level'[tier][f] = level'[tier - 1][f] \/ f \in Pending(tier)' \cup lost'[tier]
  <2>0. tier - 1 \in 0..3 /\ tier - 1 # tier /\ level'[tier - 1] = level[tier - 1]
    BY <1>1, <1>2
  <2>1. CASE f \in misread
    BY <1>3, <2>1
  <2>2. CASE f \in DOMAIN draft /\ f \notin misread
    <3>1. CASE draft[f] = level[tier - 1][f]
      BY <1>2, <2>0, <2>2, <3>1
    <3>2. CASE tier = 1 /\ f \in OnTheWay
      BY <1>1, <1>4, <3>2, PendingIs
    <3> QED BY <1>5, <2>2, <3>1, <3>2
  <2>3. CASE f \notin DOMAIN draft /\ f \notin misread
    <3>1. level'[tier][f] = level[tier][f]
      BY <1>2, <1>5, <2>3
    <3>2. CASE f \in Due
      <4>1. tier > 1 /\ Group(tier - 1, f) \notin stored[tier - 1] /\ tier - 1 \in Tiers
        BY <1>1, <1>5, <2>3, <3>2 DEF Tiers
      <4>2. level[tier][f] = NoMemory /\ level[tier - 1][f] = NoMemory
        BY <1>1, <4>1 DEF FoldInv, StoredBelow
      <4> QED BY <2>0, <3>1, <4>2
    <3>3. CASE f \notin Due
      <4>1. level[tier][f] = level[tier - 1][f] \/ f \in Pending(tier) \cup lost[tier]
        BY <1>1 DEF FoldInv, TiersAgree
      <4>2. Pending(tier) = feed[tier] \cup (IF tier = 1 THEN OnTheWay ELSE {})
            /\ Pending(tier)' = feed'[tier] \cup (IF tier = 1 THEN OnTheWay' ELSE {})
        BY <1>1, PendingIs DEF Tiers
      <4> QED BY <1>3, <1>4, <2>0, <2>3, <3>1, <3>3, <4>1, <4>2
    <3> QED BY <3>2, <3>3
  <2> QED BY <2>1, <2>2, <2>3
<1>11. ASSUME NEW k \in Tiers, k # tier, NEW f \in Files
       PROVE  level'[k][f] = level'[k - 1][f] \/ f \in Pending(k)' \cup lost'[k]
  <2>1. level'[k] = level[k] /\ feed'[k] = feed[k] /\ lost'[k] = lost[k]
    BY <1>2, <1>3, <1>11 DEF Tiers
  <2>2. level[k][f] = level[k - 1][f] \/ f \in Pending(k) \cup lost[k]
    BY DEF FoldInv, TiersAgree
  <2>3. Pending(k) \subseteq Pending(k)'
    BY <1>1, <1>4, <2>1, PendingIs DEF Tiers
  <2>4. CASE k # tier + 1
    <3>1. level'[k - 1] = level[k - 1]
      BY <1>1, <1>2, <2>4 DEF Tiers
    <3> QED BY <2>1, <2>2, <2>3, <3>1
  <2>5. CASE k = tier + 1
    <3>1. CASE f \in DOMAIN draft \/ f \in DOMAIN prior
      <4>1. f \in FilesOf(tier, group)
        BY <1>5, <1>8, <3>1 DEF FilesOf
      <4>2. k \in {2, 3} /\ tier' = k - 1
        BY <1>1, <2>5 DEF Tiers
      <4> QED BY <1>1, <4>1, <4>2, PendingIs
    <3>2. CASE f \notin DOMAIN draft /\ f \notin DOMAIN prior
      <4>1. level'[k - 1][f] = level[k - 1][f]
        BY <1>1, <1>2, <2>5, <3>2
      <4> QED BY <2>1, <2>2, <2>3, <4>1
    <3> QED BY <3>1, <3>2
  <2> QED BY <2>4, <2>5
<1>12. TiersAgree'
  BY <1>1, <1>10, <1>11 DEF TiersAgree
<1> QED BY <1>6, <1>7, <1>9, <1>12 DEF FoldInv

\* The summary of a group is stored behind the latest one.
LEMMA SaveBehindFolds ==
  ASSUME TypeInv, FoldInv, SaveBehind
  PROVE  FoldInv'
<1>1. /\ group # NoGroup /\ step = "save" /\ step' = "index" /\ tier \in Tiers
      /\ UNCHANGED <<level, stored, announcing, mailbox, changed, tier, group>>
  BY DEF SaveBehind, actorVars, fileVars, TypeInv, TypeOK, Tiers
<1>2. /\ feed'[tier] = feed[tier] \ Due /\ lost'[tier] = lost[tier] \cup Due
      /\ \A k \in Tiers : k # tier => feed'[k] = feed[k] /\ lost'[k] = lost[k]
  BY <1>1 DEF SaveBehind, TypeInv, TypeOK
<1>3. OnTheWay' = OnTheWay
  BY <1>1 DEF OnTheWay, Waiting
<1>4. SavedIsDone' /\ DraftFits' /\ DraftWhole' /\ PriorFits'
  BY <1>1, <1>2 DEF SavedIsDone, Due, DraftFits, DraftWhole, PriorFits
<1>5. \A k \in Tiers : Pending(k) \cup lost[k] \subseteq Pending(k)' \cup lost'[k]
  BY <1>1, <1>2, <1>3, PendingIs DEF Tiers
<1>6. TiersAgree' /\ StoredBelow'
  BY <1>1, <1>5 DEF FoldInv, TiersAgree, StoredBelow
<1> QED BY <1>4, <1>6 DEF FoldInv

\* Every step of the state machine keeps the tiers in order.
LEMMA FoldStep ==
  ASSUME TypeInv, FoldInv, [Next]_vars
  PROVE  FoldInv'
<1>0. group # NoGroup => tier \in Tiers /\ Due \subseteq Files /\ FilesOf(tier, group) \subseteq Files
  <2>1. group # NoGroup => tier \in Tiers
    BY DEF TypeInv, TypeOK, Tiers
  <2> QED BY <2>1 DEF Due, FilesOf, TypeInv, TypeOK
<1>1. ASSUME NEW f \in Files, NEW c \in Maybe, Change(f, c) PROVE FoldInv'
  <2>1. /\ UNCHANGED <<stored, tier, feed, group, step, draft, prior, misread, lost>>
        /\ OnTheWay \subseteq OnTheWay' /\ f \in OnTheWay'
    BY <1>1 DEF Change, passVars, work, actorVars, OnTheWay, Waiting
  <2>2. /\ \A k \in Tiers : level'[k] = level[k]
        /\ \A g \in Files : g # f => level'[0][g] = level[0][g]
    BY <1>1 DEF Change, TypeInv, TypeOK, Tiers
  <2>3. DraftFits'
    <3> SUFFICES ASSUME group # NoGroup, step # "index", NEW g \in DOMAIN draft
                 PROVE  /\ g \in Due
                        /\ \/ draft[g] = level'[tier - 1][g]
                           \/ tier = 1 /\ g \in OnTheWay'
                           \/ g \in misread
                        /\ tier > 1 => Group(tier - 1, g) \in stored[tier - 1]
      BY <2>1 DEF DraftFits, Due
    <3>1. tier \in Tiers /\ g \in Files
      BY <1>0 DEF FoldInv, DraftFits
    <3>2. level'[tier - 1][g] = level[tier - 1][g] \/ (tier = 1 /\ g = f)
      BY <2>2, <3>1 DEF Tiers
    <3> QED BY <2>1, <3>2 DEF FoldInv, DraftFits
  <2>4. DraftWhole' /\ SavedIsDone' /\ StoredBelow'
    BY <2>1, <2>2 DEF FoldInv, DraftWhole, SavedIsDone, StoredBelow, Due
  <2>6. PriorFits'
    BY <1>0, <2>1, <2>2 DEF FoldInv, PriorFits, FilesOf
  <2>5. TiersAgree'
    <3> SUFFICES ASSUME NEW k \in Tiers, NEW g \in Files
                 PROVE  level'[k][g] = level'[k - 1][g] \/ g \in Pending(k)' \cup lost'[k]
      BY DEF TiersAgree
    <3>1. Pending(k) \subseteq Pending(k)' /\ (k = 1 => f \in Pending(k)')
      BY <2>1, PendingIs DEF Tiers
    <3>2. level'[k - 1][g] = level[k - 1][g] \/ (k = 1 /\ g = f)
      BY <2>2 DEF Tiers
    <3> QED BY <2>1, <2>2, <3>1, <3>2 DEF FoldInv, TiersAgree
  <2> QED BY <2>3, <2>4, <2>5, <2>6 DEF FoldInv
<1>2. CASE (\E f \in Files : Announce(f)) \/ TakeChange \/ Fire
  <2>1. UNCHANGED <<level, stored, tier, feed, group, step, draft, prior, misread, lost>>
    BY <1>2 DEF Announce, TakeChange, Fire, fileVars, passVars, work
  <2> QED BY <1>2, <2>1, WayStays, FoldStays
<1>3. CASE Elapse \/ UNCHANGED vars
  <2>1. UNCHANGED <<level, stored, tier, feed, group, step, draft, prior, misread, lost>>
        /\ OnTheWay' = OnTheWay
    BY <1>3 DEF Elapse, vars, fileVars, actorVars, passVars, work, OnTheWay, Waiting
  <2> QED BY <2>1, FoldStays
<1>4. CASE TakeTick
  BY <1>4, TickFolds
<1>5. ASSUME NEW g \in Groups, Begin(g) PROVE FoldInv'
  <2>1. /\ UNCHANGED <<level, stored, announcing, mailbox, changed, tier, feed, lost>>
        /\ group = NoGroup /\ step' = "read" /\ step' # "index" /\ DOMAIN draft' = {}
    BY <1>5, NoWorkTyped DEF Begin, fileVars, actorVars
  <2>2. OnTheWay' = OnTheWay
    BY <2>1 DEF OnTheWay, Waiting
  <2>3. \A k \in Tiers : Pending(k)' = Pending(k)
    <3>1. Pending(1)' = Pending(1)
      BY <2>1, <2>2, PendingIs
    <3>2. ASSUME NEW k \in {2, 3} PROVE Pending(k)' = Pending(k)
      BY <2>1, PendingIs
    <3> QED BY <3>1, <3>2 DEF Tiers
  <2>4. TiersAgree' /\ StoredBelow'
    BY <2>1, <2>3 DEF FoldInv, TiersAgree, StoredBelow
  <2> QED BY <2>1, <2>4 DEF FoldInv, DraftFits, DraftWhole, PriorFits, SavedIsDone
<1>6. ASSUME group # NoGroup, step \in {"read", "ask"}, step' \in {"read", "ask", "save"},
             UNCHANGED <<level, stored, announcing, mailbox, changed, tier, feed, group, lost>>,
             DraftFits', DraftWhole', PriorFits'
      PROVE  FoldInv'
  <2>1. OnTheWay' = OnTheWay /\ step # "index" /\ step' # "index"
    BY <1>6 DEF OnTheWay, Waiting
  <2>2. \A k \in Tiers : Pending(k)' = Pending(k)
    BY <1>6, <2>1, PendingIs DEF Tiers
  <2>3. TiersAgree' /\ StoredBelow'
    BY <1>6, <2>2 DEF FoldInv, TiersAgree, StoredBelow
  <2> QED BY <1>6, <2>1, <2>3 DEF FoldInv, SavedIsDone
<1>7. ASSUME NEW f \in Files, ReadFile(f) PROVE FoldInv'
  <2>1. /\ UNCHANGED <<level, stored, announcing, mailbox, changed, tier, feed, group, lost>>
        /\ UNCHANGED <<prior, misread>> /\ step' # "save"
        /\ tier = 1 /\ group # NoGroup /\ step = "read" /\ f \in Due
        /\ DOMAIN draft' = DOMAIN draft \cup {f}
        /\ \A g \in DOMAIN draft' : draft'[g] = IF g = f THEN level[0][f] ELSE draft[g]
        /\ step' = IF Due \subseteq DOMAIN draft \cup {f} THEN "ask" ELSE "read"
    BY <1>7 DEF ReadFile, fileVars, actorVars
  <2>2. Due' = Due /\ OnTheWay' = OnTheWay
    BY <2>1 DEF Due, OnTheWay, Waiting
  <2>3. DraftFits' /\ DraftWhole' /\ PriorFits'
    BY <2>1, <2>2 DEF FoldInv, DraftFits, DraftWhole, PriorFits
  <2> QED BY <1>6, <2>1, <2>3
<1>8. CASE ReadSummaries
  <2> DEFINE sources == {f \in Due : Group(tier - 1, f) \in stored[tier - 1]}
  <2>1. /\ tier \in {2, 3} /\ group # NoGroup /\ step = "read" /\ tier - 1 \in Tiers /\ tier \in Tiers
        /\ UNCHANGED <<fileVars, lost>> /\ UNCHANGED <<level, stored>>
    BY <1>8 DEF ReadSummaries, fileVars, Tiers
  <2>2. CASE sources = {}
    <3>1. EndGroup({})
      BY <1>8, <2>2 DEF ReadSummaries
    <3>2. \A f \in Due : level[tier][f] = level[tier - 1][f]
      <4> SUFFICES ASSUME NEW f \in Due PROVE level[tier][f] = level[tier - 1][f]
        OBVIOUS
      <4>1. f \in Files /\ Group(tier - 1, f) \notin stored[tier - 1]
        BY <1>0, <2>1, <2>2
      <4>2. level[tier][f] = NoMemory /\ level[tier - 1][f] = NoMemory
        BY <2>1, <4>1 DEF FoldInv, StoredBelow
      <4> QED BY <4>2
    <3>3. \A k \in Tiers : lost[k] \subseteq lost'[k]
      BY <2>1
    <3> QED BY <2>1, <3>1, <3>2, <3>3, EndFolds
  <2>3. CASE sources # {}
    <3>1. /\ DOMAIN draft' = sources /\ \A f \in sources : draft'[f] = level[tier - 1][f]
          /\ step' = "ask" /\ UNCHANGED <<announcing, mailbox, changed, tier, feed, group>>
      BY <1>8, <2>3 DEF ReadSummaries, actorVars
    <3>2. Due' = Due
      BY <3>1 DEF Due
    <3>3. DraftFits' /\ DraftWhole' /\ PriorFits'
      BY <2>1, <3>1, <3>2 DEF DraftFits, DraftWhole, PriorFits
    <3> QED BY <1>6, <2>1, <3>1, <3>3
  <2> QED BY <2>2, <2>3
<1>17. CASE ReadSummariesBlindly
  <2>1. /\ tier \in {2, 3} /\ group # NoGroup /\ step = "read" /\ tier - 1 \in Tiers /\ tier \in Tiers
        /\ UNCHANGED <<fileVars, level, stored>>
    BY <1>17 DEF ReadSummariesBlindly, fileVars, Tiers
  <2>2. PICK hidden \in SUBSET ({Group(tier - 1, f) : f \in Due} \cap stored[tier - 1]) :
        \E skipped \in SUBSET hidden : Blindly(hidden, skipped)
    BY <1>17, Zenon DEF ReadSummariesBlindly, Blindly
  <2>3. PICK skipped \in SUBSET hidden : Blindly(hidden, skipped)
    BY <2>2
  <2> DEFINE unsure  == {f \in Due : Group(tier - 1, f) \in hidden}
             sources == {f \in Due : Group(tier - 1, f) \in stored[tier - 1] \ skipped}
  <2>4. CASE sources = {}
    <3>1. EndGroup({}) /\ lost' = [lost EXCEPT ![tier] = @ \cup unsure]
      BY <2>3, <2>4 DEF Blindly
    <3>2. lost'[tier] = lost[tier] \cup unsure /\ \A k \in Tiers : lost[k] \subseteq lost'[k]
      BY <2>1, <3>1 DEF TypeInv, TypeOK
    <3>3. ASSUME NEW f \in Due PROVE level[tier][f] = level[tier - 1][f] \/ f \in lost'[tier]
      <4>1. f \in Files /\ Group(tier - 1, f) \notin stored[tier - 1] \ skipped
        BY <1>0, <2>1, <2>4
      <4>2. CASE Group(tier - 1, f) \in skipped
        BY <2>3, <3>2, <4>2
      <4>3. CASE Group(tier - 1, f) \notin stored[tier - 1]
        BY <2>1, <4>1, <4>3 DEF FoldInv, StoredBelow
      <4> QED BY <4>1, <4>2, <4>3
    <3> QED BY <2>1, <3>1, <3>2, <3>3, EndFolds
  <2>5. CASE sources # {}
    <3>1. /\ draft' \in [sources -> Maybe] /\ misread' = unsure /\ step' = "ask"
          /\ \A f \in sources : draft'[f] \in IF f \in unsure THEN Earlier(tier - 1, f)
                                              ELSE {level[tier - 1][f]}
          /\ UNCHANGED <<announcing, mailbox, changed, tier, feed, group, lost>>
      BY <2>3, <2>5 DEF Blindly, actorVars
    <3>2. Due' = Due /\ DOMAIN draft' = sources
      BY <3>1 DEF Due
    <3>3. \A f \in sources : f \in Due /\ Group(tier - 1, f) \in stored[tier - 1]
                            /\ (draft'[f] = level[tier - 1][f] \/ f \in misread')
      BY <3>1
    <3>4. ASSUME NEW f \in Due, f \notin sources
          PROVE  Group(tier - 1, f) \notin stored[tier - 1] \/ f \in misread'
      BY <2>3, <3>1, <3>4
    <3>5. DraftFits' /\ DraftWhole' /\ PriorFits'
      <4> HIDE DEF sources, unsure
      <4> QED BY <2>1, <3>1, <3>2, <3>3, <3>4 DEF DraftFits, DraftWhole, PriorFits
    <3> QED BY <1>6, <2>1, <3>1, <3>5
  <2> QED BY <2>4, <2>5
<1>9. CASE Ask
  <2>1. /\ UNCHANGED <<level, stored, announcing, mailbox, changed, tier, feed, group, draft, lost>>
        /\ group # NoGroup /\ step = "ask" /\ step' = "save" /\ misread \subseteq misread'
        /\ tier \in Tiers
    BY <1>0, <1>9 DEF Ask, fileVars, actorVars
  <2>2. Due' = Due /\ OnTheWay' = OnTheWay
    BY <2>1 DEF Due, OnTheWay, Waiting
  <2>3. DraftFits' /\ DraftWhole'
    BY <2>1, <2>2 DEF FoldInv, DraftFits, DraftWhole
  <2>4. PriorFits'
    <3>1. \A f \in Others :
            /\ f \in Files /\ f \in FilesOf(tier, group)
            /\ level[tier][f] # NoMemory /\ tier > 1 => Group(tier - 1, f) \in stored[tier - 1]
      BY <1>0, <2>1 DEF Others, FoldInv, StoredBelow
    <3>4. SUFFICES ASSUME NEW f \in DOMAIN prior'
                   PROVE  /\ f \in FilesOf(tier, group)
                          /\ prior'[f] = level[tier][f] \/ f \in misread'
                          /\ prior'[f] # NoMemory /\ tier > 1
                               => Group(tier - 1, f) \in stored[tier - 1]
      BY <2>1 DEF PriorFits, FilesOf
    <3>2. CASE prior' = [h \in Others |-> level[tier][h]] /\ UNCHANGED misread
      <4>1. f \in Others /\ prior'[f] = level[tier][f]
        BY <3>2, <3>4
      <4> QED BY <3>1, <4>1
    <3>3. CASE /\ prior' \in [Others -> Maybe] /\ misread' = misread \cup Others
               /\ \A h \in Others : prior'[h] \in Earlier(tier, h)
      <4>1. f \in Others
        BY <3>3, <3>4
      <4>2. ASSUME tier > 1 PROVE tier - 1 \in Tiers
        BY <2>1, <4>2 DEF Tiers
      <4>3. prior'[f] = NoMemory \/ \A j \in {tier - 1, tier} \cap Tiers : Group(j, f) \in stored[j]
        BY <3>3, <4>1 DEF Earlier
      <4>4. ASSUME prior'[f] # NoMemory, tier > 1 PROVE Group(tier - 1, f) \in stored[tier - 1]
        <5>1. tier - 1 \in {tier - 1, tier} \cap Tiers
          BY <4>2, <4>4
        <5> QED BY <4>3, <4>4, <5>1
      <4> QED BY <3>1, <3>3, <4>1, <4>4
    <3> QED BY <1>9, <3>2, <3>3 DEF Ask
  <2> QED BY <1>6, <2>1, <2>3, <2>4
<1>10. ASSUME group # NoGroup, step # "index", Drop PROVE FoldInv'
  <2>1. /\ EndGroup({}) /\ UNCHANGED fileVars /\ tier \in Tiers
        /\ lost' = [lost EXCEPT ![tier] = @ \cup Due]
    BY <1>0, <1>10 DEF Drop
  <2>2. \A k \in Tiers : lost[k] \subseteq lost'[k]
    BY <2>1 DEF TypeInv, TypeOK
  <2>3. Due \subseteq lost'[tier]
    BY <2>1 DEF TypeInv, TypeOK
  <2> QED BY <1>10, <2>1, <2>2, <2>3, EndFolds
<1>11. CASE EmptyReply
  <2>1. /\ EndGroup(FilesOf(tier, group)) /\ UNCHANGED fileVars /\ tier \in Tiers
        /\ lost' = [lost EXCEPT ![tier] = @ \cup Due]
        /\ group # NoGroup /\ step # "index" /\ FilesOf(tier, group) \in SUBSET Files
    BY <1>0, <1>11 DEF EmptyReply
  <2>2. \A k \in Tiers : lost[k] \subseteq lost'[k]
    BY <2>1 DEF TypeInv, TypeOK
  <2>3. Due \subseteq lost'[tier]
    BY <2>1 DEF TypeInv, TypeOK
  <2> QED BY <2>1, <2>2, <2>3, EndFolds
<1>12. CASE Save
  BY <1>12, SaveFolds
<1>18. CASE SaveBehind
  BY <1>18, SaveBehindFolds
<1>13. CASE Index
  <2>1. /\ EndGroup(FilesOf(tier, group)) /\ UNCHANGED <<fileVars, lost>>
        /\ group # NoGroup /\ step = "index" /\ FilesOf(tier, group) \in SUBSET Files
    BY <1>0, <1>13 DEF Index
  <2>2. Due = {}
    BY <2>1 DEF FoldInv, SavedIsDone
  <2>3. \A k \in Tiers : lost[k] \subseteq lost'[k]
    BY <2>1
  <2> QED BY <2>1, <2>2, <2>3, EndFolds
<1>14. CASE IndexFails
  <2>1. /\ EndGroup({}) /\ UNCHANGED fileVars /\ group # NoGroup /\ step = "index" /\ tier \in Tiers
        /\ \A k \in Tiers : lost'[k] = IF k = tier + 1 THEN lost[k] \cup FilesOf(tier, group)
                                       ELSE lost[k]
    BY <1>0, <1>14 DEF IndexFails
  <2>2. Due = {}
    BY <2>1 DEF FoldInv, SavedIsDone
  <2>3. \A k \in Tiers : lost[k] \subseteq lost'[k]
    BY <2>1
  <2>4. tier < 3 => FilesOf(tier, group) \subseteq lost'[tier + 1]
    BY <2>1 DEF Tiers
  <2> QED BY <2>1, <2>2, <2>3, <2>4, EndFolds
<1>15. CASE NextTier
  <2>1. /\ UNCHANGED <<level, stored, announcing, mailbox, changed, feed, group, lost>>
        /\ group = NoGroup
    BY <1>15 DEF NextTier, fileVars, actorVars
  <2>2. OnTheWay' = OnTheWay
    BY <2>1 DEF OnTheWay, Waiting
  <2>3. \A k \in Tiers : Pending(k)' = Pending(k)
    BY <2>1, <2>2, PendingIs DEF Tiers
  <2>4. TiersAgree' /\ StoredBelow'
    BY <2>1, <2>3 DEF FoldInv, TiersAgree, StoredBelow
  <2> QED BY <2>1, <2>4 DEF FoldInv, DraftFits, DraftWhole, PriorFits, SavedIsDone
<1>16. CASE Restart
  <2>1. /\ UNCHANGED <<level, stored>> /\ group' = NoGroup
        /\ \A k \in Tiers : lost'[k] = lost[k] \cup Pending(k)
    BY <1>16 DEF Restart, fileVars
  <2>2. TiersAgree' /\ StoredBelow'
    BY <2>1 DEF FoldInv, TiersAgree, StoredBelow
  <2> QED BY <2>1, <2>2 DEF FoldInv, DraftFits, DraftWhole, PriorFits, SavedIsDone
<1> QED
  BY <1>1, <1>2, <1>3, <1>4, <1>5, <1>7, <1>8, <1>9, <1>10, <1>11, <1>12, <1>13, <1>14,
     <1>15, <1>16, <1>17, <1>18
  DEF Next, Handle, Process, ReadFails, AskFails, SaveFails

\* Nothing is missed, for any number of files and groups: each tier reflects the tier
\* below, file by file, unless the file is on its way there or a failure dropped it.
THEOREM NothingMissed == Spec => []TiersAgree
<1>1. Init => FoldInv
  <2> SUFFICES ASSUME Init PROVE FoldInv
    OBVIOUS
  <2>1. /\ group = NoGroup
        /\ \A k \in 0..3 : level[k] = [f \in Files |-> NoMemory]
    BY DEF Init
  <2>2. ASSUME NEW k \in Tiers, NEW f \in Files
        PROVE  level[k][f] = NoMemory /\ level[k - 1][f] = NoMemory
    <3>1. k \in 0..3 /\ k - 1 \in 0..3
      BY DEF Tiers
    <3>2. level[k] = [g \in Files |-> NoMemory] /\ level[k - 1] = [g \in Files |-> NoMemory]
      BY <2>1, <3>1
    <3> QED BY <3>2
  <2> QED
    BY <2>1, <2>2 DEF FoldInv, DraftFits, DraftWhole, PriorFits, SavedIsDone, StoredBelow, TiersAgree
<1>2. FoldInv => TiersAgree
  BY DEF FoldInv
<1> QED BY <1>1, <1>2, FoldStep, Typed, PTL DEF Spec
=============================================================================
