------------------------ MODULE SynthesisFilesProofs ------------------------
(* Proofs about SynthesisFiles, for any days, suffixes, number of replies    *)
(* and set of faults.                                                        *)
EXTENDS SynthesisFiles, TLAPS

AtWrite == {"send", "write", "rename"}
WithText == {"pick"} \cup AtWrite

\* What readers can open is whole.
FolderWhole == \A n \in Names : folder[n] # Partial

\* A run holds the last reply, and one that writes has a place for it.
RunFits ==
    /\ run.stage = "asked" => texts < MaxTexts
    /\ run.stage \in WithText => run.text \in Texts /\ run.text.number = texts
    /\ run.stage \in AtWrite => run.path \in Names

\* No file is younger than the last reply, and none is there before one was stored.
NumbersFit ==
    /\ \A n \in Existing : folder[n].number <= texts
    /\ newest = 0 => Existing = {}
    /\ newest # 0 => Latest # {}

\* A run that saw the folder and the right day writes to its end.
PlacedLast ==
    run.stage \in AtWrite /\ ~run.misled => \A n \in Existing : n = run.path \/ Before(n, run.path)

\* What GetSummary is about to read is there, and as new as what there was.
ReaderFits ==
    reader.stage = "read" => /\ reader.path \in Existing
                             /\ folder[reader.path].number >= reader.since

FilesInv ==
    /\ TypeOK /\ FolderWhole /\ RunFits /\ NumbersFit
    /\ PlacedLast /\ ReaderFits /\ LatestIsNewest
-----------------------------------------------------------------------------
(* The order of names.                                                       *)

LEMMA NamesTyped ==
  ASSUME NEW n \in Names
  PROVE  n[1] \in Days /\ n[1] \in Nat /\ n[2] \in Nat /\ n = <<n[1], n[2]>>
<1>1. PICK day \in Days, suffix \in 1..MaxSuffix : n = <<day, suffix>>
  BY DEF Names
<1>2. suffix \in Nat
  BY NumbersAssumption
<1> QED BY <1>1, <1>2, NumbersAssumption

\* Names are in one order.
LEMMA BeforeTotal ==
  ASSUME NEW a \in Names, NEW b \in Names
  PROVE  (a = b \/ Before(a, b) \/ Before(b, a)) /\ ~Before(a, a) /\ ~(Before(a, b) /\ Before(b, a))
<1>1. /\ a[1] \in Nat /\ a[2] \in Nat /\ b[1] \in Nat /\ b[2] \in Nat
      /\ a[1] = b[1] /\ a[2] = b[2] => a = b
  <2>1. a = <<a[1], a[2]>> /\ b = <<b[1], b[2]>>
    BY NamesTyped
  <2> QED BY <2>1, NamesTyped
<1> QED BY <1>1 DEF Before

LEMMA BeforeTransitive ==
  ASSUME NEW a \in Names, NEW b \in Names, NEW c \in Names, Before(a, b), Before(b, c)
  PROVE  Before(a, c)
  BY NamesTyped DEF Before

\* The latest file is the last one.
LEMMA LatestIsLast ==
  ASSUME NEW n \in Latest, NEW m \in Existing
  PROVE  m = n \/ Before(m, n)
<1>1. n \in Names /\ m \in Names /\ ~Before(n, m)
  BY DEF Latest, Existing
<1> QED BY <1>1, BeforeTotal

\* next_filename goes beyond the latest name, unless the clock is behind it.
LEMMA NextIsAfter ==
  ASSUME NEW n \in Names, today \in Days, n[1] <= today
  PROVE  NextName(n)[1] = today /\ Before(n, NextName(n))
<1>1. n[1] \in Nat /\ n[2] \in Nat /\ today \in Nat
  BY NamesTyped, NumbersAssumption
<1>2. NextName(n)[1] = today /\ NextName(n)[2] = IF n[1] = today THEN n[2] + 1 ELSE 1
  BY DEF NextName
<1> QED BY <1>1, <1>2 DEF Before
-----------------------------------------------------------------------------
LEMMA NoneIsApart ==
  /\ NoFile \notin Texts /\ Partial \notin Texts /\ NoFile # Partial
  /\ \A t \in Texts : t.number \in Nat /\ t.number # 0 /\ t.number <= MaxTexts
  /\ MaxTexts \in Nat
  BY NoneAssumption, NumbersAssumption DEF Texts

\* The files that are there are texts.
LEMMA ExistingAreTexts ==
  ASSUME TypeOK, FolderWhole
  PROVE  \A n \in Existing : n \in Names /\ folder[n] \in Texts
  BY DEF TypeOK, FolderWhole, Existing

LEMMA InitFiles == Init => FilesInv
<1> SUFFICES ASSUME Init PROVE FilesInv
  OBVIOUS
<1>1. Existing = {} /\ Latest = {}
  BY DEF Init, Existing, Latest
<1>2. run.stage = "idle" /\ reader.stage = "idle" /\ texts = 0 /\ newest = 0 /\ astray = FALSE
  BY DEF Init, IdleRun, IdleReader
<1>3. TypeOK
  <2>1. run \in [stage : RunStages, text : Texts \cup {NoText}, path : Names \cup {NoName}, misled : BOOLEAN]
    BY DEF Init, IdleRun, RunStages
  <2>2. reader \in [stage : {"idle", "read"}, path : Names \cup {NoName}, since : 0..MaxTexts]
    BY NumbersAssumption DEF Init, IdleReader
  <2>3. texts \in 0..MaxTexts /\ newest \in 0..texts
    BY <1>2, NumbersAssumption
  <2>4. astray \in BOOLEAN
    BY DEF Init
  <2>5. /\ folder \in [Names -> Texts \cup {NoFile, Partial}]
        /\ temp \in [Names -> Texts \cup {NoFile, Partial}] /\ today \in Days
    BY DEF Init
  <2>6. run.stage # "rename"
    BY <1>2
  <2> QED BY <2>1, <2>2, <2>3, <2>4, <2>5, <2>6 DEF TypeOK
<1>4. FolderWhole
  BY NoneAssumption DEF Init, FolderWhole
<1> QED
  BY <1>1, <1>2, <1>3, <1>4
  DEF FilesInv, RunFits, NumbersFit, PlacedLast, ReaderFits, LatestIsNewest, WithText, AtWrite

\* A step of the run that leaves the folder as it is.
LEMMA RunStep ==
  ASSUME FilesInv, UNCHANGED <<folder, today, reader, newest, astray>>,
         texts' \in 0..MaxTexts, texts <= texts',
         temp' \in [Names -> Texts \cup {NoFile, Partial}],
         run' \in [stage : RunStages, text : Texts \cup {NoText}, path : Names \cup {NoName}, misled : BOOLEAN],
         run'.stage = "rename" => temp'[run'.path] = run'.text,
         RunFits', PlacedLast'
  PROVE  FilesInv'
<1>1. Existing' = Existing /\ Latest' = Latest
  BY DEF Existing, Latest
<1>2. TypeOK'
  <2>1. newest' \in 0..texts'
    BY DEF FilesInv, TypeOK
  <2> QED BY <2>1 DEF FilesInv, TypeOK
<1>3. NumbersFit'
  <2>1. \A n \in Existing : folder[n].number \in Nat /\ folder[n].number <= texts
    BY ExistingAreTexts, NoneIsApart DEF FilesInv, NumbersFit
  <2>2. texts \in Nat /\ texts' \in Nat
    BY DEF FilesInv, TypeOK
  <2> QED BY <1>1, <2>1, <2>2 DEF FilesInv, NumbersFit
<1>4. FolderWhole' /\ ReaderFits' /\ LatestIsNewest'
  BY <1>1 DEF FilesInv, FolderWhole, ReaderFits, LatestIsNewest
<1> QED BY <1>2, <1>3, <1>4 DEF FilesInv

\* A run ends without a summary.
LEMMA RunEnds ==
  ASSUME FilesInv, run' = IdleRun, UNCHANGED <<folder, temp, today, reader, history>>
  PROVE  FilesInv'
<1>1. /\ run' \in [stage : RunStages, text : Texts \cup {NoText}, path : Names \cup {NoName}, misled : BOOLEAN]
      /\ run'.stage = "idle"
  BY DEF IdleRun, RunStages
<1>2. UNCHANGED <<texts, newest, astray>>
  BY DEF history
<1>3. RunFits' /\ PlacedLast'
  BY <1>1 DEF RunFits, PlacedLast, WithText, AtWrite
<1>4. texts' \in 0..MaxTexts /\ texts <= texts' /\ temp' \in [Names -> Texts \cup {NoFile, Partial}]
  BY <1>2, NumbersAssumption DEF FilesInv, TypeOK
<1> QED BY <1>1, <1>2, <1>3, <1>4, RunStep

\* current_synthesis_path: a run that is not misled goes on at the end of the folder.
LEMMA PickStep ==
  ASSUME FilesInv, Pick
  PROVE  FilesInv'
<1>1. PICK latest \in Listings : \E name \in Current(latest) \cap Names :
         run' = [run EXCEPT !.stage = "send", !.path = name, !.misled = Misled(latest)]
  BY DEF Pick
<1>2. PICK name \in Current(latest) \cap Names :
         run' = [run EXCEPT !.stage = "send", !.path = name, !.misled = Misled(latest)]
  BY <1>1
<1>3. run.stage = "pick" /\ UNCHANGED <<folder, temp, today, reader, texts, newest, astray>>
  BY DEF Pick, history
<1>4. Misled(latest) \in BOOLEAN
  BY DEF Misled
<1>5. /\ run' \in [stage : RunStages, text : Texts \cup {NoText}, path : Names \cup {NoName}, misled : BOOLEAN]
      /\ run'.stage = "send" /\ run'.path = name /\ run'.text = run.text
      /\ run'.misled = Misled(latest)
  BY <1>2, <1>4 DEF FilesInv, TypeOK, RunStages
<1>6. RunFits'
  BY <1>3, <1>5 DEF FilesInv, RunFits, WithText, AtWrite
<1>7. ASSUME ~Misled(latest), NEW m \in Existing PROVE m = name \/ Before(m, name)
  <2>1. latest = Latest /\ m \in Names /\ \A n \in Existing : ~(n[1] > today)
    BY <1>7 DEF Misled, Existing
  <2>2. Latest # {}
    BY DEF FilesInv, NumbersFit
  <2>3. PICK n \in Latest : name = n \/ name = NextName(n)
    BY <1>2, <2>1, <2>2 DEF Current
  <2>4. n \in Existing /\ n \in Names /\ n[1] \in Nat /\ today \in Days /\ today \in Nat
    BY <2>3, NamesTyped, NumbersAssumption DEF Latest, Existing, FilesInv, TypeOK
  <2>5. m = n \/ Before(m, n)
    BY <2>3, LatestIsLast
  <2>6. CASE name = n
    BY <2>5, <2>6
  <2>7. CASE name = NextName(n)
    <3>1. Before(n, name)
      BY <2>1, <2>4, <2>7, NextIsAfter
    <3> QED BY <2>1, <2>4, <2>5, <3>1, BeforeTransitive
  <2> QED BY <2>3, <2>6, <2>7
<1>8. PlacedLast'
  <2>1. Existing' = Existing
    BY <1>3 DEF Existing
  <2> QED BY <1>5, <1>7, <2>1 DEF PlacedLast
<1>9. texts' \in 0..MaxTexts /\ texts <= texts' /\ temp' \in [Names -> Texts \cup {NoFile, Partial}]
  BY <1>3, NumbersAssumption DEF FilesInv, TypeOK
<1> QED BY <1>3, <1>5, <1>6, <1>8, <1>9, RunStep

\* The rename makes a run's text the latest, or leaves some latest file if it was misled.
LEMMA RenameStep ==
  ASSUME FilesInv, Rename
  PROVE  FilesInv'
<1> DEFINE path == run.path
<1>1. /\ run.stage = "rename" /\ path \in Names /\ temp[path] = run.text
      /\ run.text \in Texts /\ run.text.number = texts /\ run.misled \in BOOLEAN
      /\ texts \in Nat /\ texts # 0 /\ texts \in 0..MaxTexts
  BY NoneIsApart DEF Rename, FilesInv, TypeOK, RunFits, WithText, AtWrite
<1>2. /\ newest' = texts /\ astray' = run.misled /\ run' = IdleRun
      /\ UNCHANGED <<today, reader, texts>>
  BY <1>1 DEF Rename
<1>3. /\ folder' \in [Names -> Texts \cup {NoFile, Partial}]
      /\ temp' \in [Names -> Texts \cup {NoFile, Partial}]
      /\ folder'[path] = run.text /\ \A n \in Names : n # path => folder'[n] = folder[n]
  BY <1>1 DEF Rename, FilesInv, TypeOK
<1>4. Existing' = Existing \cup {path} /\ Existing \subseteq Names
  BY <1>1, <1>3, NoneIsApart DEF Existing
<1>5. Latest' = {n \in Existing' : \A m \in Existing' : ~Before(n, m)}
  BY DEF Latest
<1>6. /\ run' \in [stage : RunStages, text : Texts \cup {NoText}, path : Names \cup {NoName}, misled : BOOLEAN]
      /\ run'.stage = "idle"
  BY <1>2 DEF IdleRun, RunStages
<1>7. TypeOK'
  <2>1. newest' \in 0..texts' /\ texts' \in 0..MaxTexts /\ astray' \in BOOLEAN
    BY <1>1, <1>2
  <2> QED BY <1>2, <1>3, <1>6, <2>1 DEF FilesInv, TypeOK
<1>8. FolderWhole'
  BY <1>1, <1>3, NoneIsApart DEF FilesInv, FolderWhole
<1>9. RunFits' /\ PlacedLast'
  BY <1>6 DEF RunFits, PlacedLast, WithText, AtWrite
<1>10. Latest' # {}
  <2>1. CASE Latest = {}
    <3>1. Existing = {}
      BY <2>1 DEF FilesInv, NumbersFit
    <3> QED BY <1>1, <1>4, <1>5, <3>1, BeforeTotal
  <2>2. CASE Latest # {}
    <3>1. PICK n \in Latest : TRUE
      BY <2>2
    <3>2. n \in Existing /\ n \in Names /\ \A m \in Existing : m \in Names /\ (m = n \/ Before(m, n))
      BY <1>4, <3>1, LatestIsLast DEF Latest
    <3>3. CASE Before(n, path)
      <4>1. \A m \in Existing : Before(m, path)
        BY <1>1, <3>2, <3>3, BeforeTransitive
      <4>2. \A m \in Existing' : ~Before(path, m)
        BY <1>1, <1>4, <3>2, <4>1, BeforeTotal
      <4> QED BY <1>4, <1>5, <4>2
    <3>4. CASE ~Before(n, path)
      <4>1. \A m \in Existing' : ~Before(n, m)
        BY <1>4, <3>2, <3>4, BeforeTotal
      <4> QED BY <1>4, <1>5, <3>2, <4>1
    <3> QED BY <3>3, <3>4
  <2> QED BY <2>1, <2>2
<1>11. ASSUME ~run.misled PROVE Latest' = {path}
  <2>1. \A m \in Existing : m \in Names /\ (m = path \/ Before(m, path))
    BY <1>1, <1>4, <1>11 DEF FilesInv, PlacedLast, AtWrite
  <2>2. \A m \in Existing' : ~Before(path, m)
    BY <1>1, <1>4, <2>1, BeforeTotal
  <2>3. \A n \in Existing' : n # path => Before(n, path)
    BY <1>4, <2>1
  <2> QED BY <1>4, <1>5, <2>2, <2>3
<1>12. LatestIsNewest'
  <2>1. \A n \in Latest' : n \in Names /\ folder'[n] # Partial
    BY <1>1, <1>4, <1>5, <1>8 DEF FolderWhole
  <2>2. ~astray' => \A n \in Latest' : folder'[n].number = newest'
    BY <1>1, <1>2, <1>3, <1>11
  <2> QED BY <1>1, <1>2, <1>10, <2>1, <2>2 DEF LatestIsNewest
<1>13. NumbersFit'
  <2>1. \A n \in Existing' : folder'[n].number <= texts
    BY <1>1, <1>3, <1>4 DEF FilesInv, NumbersFit
  <2> QED BY <1>1, <1>2, <1>10, <2>1 DEF NumbersFit
<1>14. ReaderFits'
  <2> SUFFICES ASSUME reader.stage = "read"
               PROVE  reader.path \in Existing' /\ folder'[reader.path].number >= reader.since
    BY <1>2 DEF ReaderFits
  <2>1. /\ reader.path \in Existing /\ reader.path \in Names
        /\ folder[reader.path].number >= reader.since /\ folder[reader.path].number <= texts
        /\ folder[reader.path].number \in Nat /\ reader.since \in Nat
    BY ExistingAreTexts, NoneIsApart DEF FilesInv, ReaderFits, NumbersFit, TypeOK
  <2>2. folder'[reader.path].number >= reader.since
    BY <1>1, <1>3, <2>1
  <2> QED BY <1>4, <2>1, <2>2
<1> QED BY <1>7, <1>8, <1>9, <1>12, <1>13, <1>14 DEF FilesInv

\* Every step keeps the invariant.
LEMMA FilesStep ==
  ASSUME FilesInv, [Next]_vars
  PROVE  FilesInv'
<1> DEFINE Runs == [stage : RunStages, text : Texts \cup {NoText}, path : Names \cup {NoName}, misled : BOOLEAN]
<1>0. /\ run \in Runs /\ texts \in 0..MaxTexts /\ texts <= texts /\ MaxTexts \in Nat
      /\ temp \in [Names -> Texts \cup {NoFile, Partial}]
  BY NumbersAssumption DEF FilesInv, TypeOK
<1>1. CASE Begin
  <2>1. /\ run' \in Runs /\ run'.stage = "asked" /\ texts < MaxTexts
        /\ UNCHANGED <<folder, temp, today, reader, texts, newest, astray>>
    BY <1>1 DEF Begin, IdleRun, RunStages, history
  <2>2. RunFits' /\ PlacedLast'
    BY <2>1 DEF RunFits, PlacedLast, WithText, AtWrite
  <2> QED BY <1>0, <2>1, <2>2, RunStep
<1>2. CASE Reply
  <2>1. PICK full \in BOOLEAN :
           run' = [run EXCEPT !.stage = "pick", !.text = [number |-> texts', full |-> full]]
    BY <1>2 DEF Reply
  <2>2. texts < MaxTexts /\ texts' = texts + 1 /\ UNCHANGED <<folder, temp, today, reader, newest, astray>>
    BY <1>2 DEF Reply, FilesInv, RunFits
  <2>3. texts' \in 0..MaxTexts /\ texts <= texts' /\ [number |-> texts', full |-> full] \in Texts
    BY <1>0, <2>1, <2>2 DEF Texts
  <2>4. run' \in Runs /\ run'.stage = "pick" /\ run'.text \in Texts /\ run'.text.number = texts'
    BY <1>0, <2>1, <2>3 DEF RunStages
  <2>5. RunFits' /\ PlacedLast'
    BY <2>4 DEF RunFits, PlacedLast, WithText, AtWrite
  <2> QED BY <1>0, <2>2, <2>3, <2>4, <2>5, RunStep
<1>3. CASE NoReply \/ WriteFails
  BY <1>3, RunEnds DEF NoReply, WriteFails
<1>4. CASE Pick
  BY <1>4, PickStep
<1>5. CASE Open
  <2>1. /\ run.stage = "send" /\ run' = [run EXCEPT !.stage = "write"]
        /\ temp' = [temp EXCEPT ![run.path] = Partial]
        /\ UNCHANGED <<folder, today, reader, texts, newest, astray>>
    BY <1>5 DEF Open, history
  <2>2. /\ run' \in Runs /\ run'.stage = "write" /\ run'.text = run.text
        /\ run'.path = run.path /\ run'.misled = run.misled
    BY <1>0, <2>1 DEF RunStages
  <2>3. temp' \in [Names -> Texts \cup {NoFile, Partial}]
    BY <1>0, <2>1
  <2>4. RunFits' /\ PlacedLast'
    BY <2>1, <2>2 DEF FilesInv, RunFits, PlacedLast, WithText, AtWrite, Existing
  <2> QED BY <1>0, <2>1, <2>2, <2>3, <2>4, RunStep
<1>6. CASE Write
  <2>1. /\ run.stage = "write" /\ run' = [run EXCEPT !.stage = "rename"]
        /\ temp' = [temp EXCEPT ![run.path] = run.text]
        /\ UNCHANGED <<folder, today, reader, texts, newest, astray>>
    BY <1>6 DEF Write, history
  <2>2. /\ run' \in Runs /\ run'.stage = "rename" /\ run'.text = run.text
        /\ run'.path = run.path /\ run'.misled = run.misled
    BY <1>0, <2>1 DEF RunStages
  <2>3. run.path \in Names /\ run.text \in Texts
    BY <2>1 DEF FilesInv, RunFits, WithText, AtWrite
  <2>4. temp' \in [Names -> Texts \cup {NoFile, Partial}] /\ temp'[run'.path] = run'.text
    BY <1>0, <2>1, <2>2, <2>3
  <2>5. RunFits' /\ PlacedLast'
    BY <2>1, <2>2 DEF FilesInv, RunFits, PlacedLast, WithText, AtWrite, Existing
  <2> QED BY <1>0, <2>1, <2>2, <2>4, <2>5, RunStep
<1>7. CASE Rename
  BY <1>7, RenameStep
<1>8. ASSUME UNCHANGED <<folder, temp, run, texts, newest, astray>>, today' \in Days,
             reader' \in [stage : {"idle", "read"}, path : Names \cup {NoName}, since : 0..MaxTexts],
             ReaderFits'
      PROVE  FilesInv'
  <2>1. Existing' = Existing /\ Latest' = Latest
    BY <1>8 DEF Existing, Latest
  <2>2. TypeOK'
    BY <1>8 DEF FilesInv, TypeOK
  <2>3. FolderWhole' /\ RunFits' /\ NumbersFit'
    BY <1>8, <2>1 DEF FilesInv, FolderWhole, RunFits, NumbersFit
  <2>4. PlacedLast' /\ LatestIsNewest'
    BY <1>8, <2>1 DEF FilesInv, PlacedLast, LatestIsNewest
  <2> QED BY <1>8, <2>2, <2>3, <2>4 DEF FilesInv
<1>9. CASE GetLatest
  <2>0. PICK latest \in Listings : \E n \in latest :
           reader' = [stage |-> "read", path |-> n,
                      since |-> IF astray \/ latest # Latest THEN 0 ELSE newest]
    BY <1>9 DEF GetLatest
  <2>1. PICK n \in latest :
           reader' = [stage |-> "read", path |-> n,
                      since |-> IF astray \/ latest # Latest THEN 0 ELSE newest]
    BY <2>0
  <2>2. UNCHANGED <<folder, temp, today, run, texts, newest, astray>>
    BY <1>9 DEF GetLatest, history
  <2>3. n \in Existing /\ n \in Names
    <3>1. latest = Latest \/ \E m \in Existing : latest = {m} \/ latest = {}
      BY <2>1 DEF Listings
    <3> QED BY <2>1, <3>1 DEF Latest, Existing
  <2>4. folder[n].number \in Nat /\ newest \in Nat /\ newest \in 0..MaxTexts
    BY <1>0, <2>3, ExistingAreTexts, NoneIsApart DEF FilesInv, TypeOK
  <2>5. latest = Latest /\ ~astray => folder[n].number = newest
    BY <2>1 DEF FilesInv, LatestIsNewest
  <2>6. /\ reader' \in [stage : {"idle", "read"}, path : Names \cup {NoName}, since : 0..MaxTexts]
        /\ reader'.path = n /\ reader'.since \in {0, newest}
        /\ reader'.since # 0 => latest = Latest /\ ~astray
    BY <1>0, <2>1, <2>3, <2>4
  <2>7. ReaderFits'
    BY <2>2, <2>3, <2>4, <2>5, <2>6 DEF ReaderFits, Existing
  <2> QED BY <1>8, <2>2, <2>6, <2>7 DEF FilesInv, TypeOK
<1>10. ASSUME reader' = IdleReader
       PROVE  /\ reader' \in [stage : {"idle", "read"}, path : Names \cup {NoName}, since : 0..MaxTexts]
              /\ ReaderFits'
  BY <1>0, <1>10 DEF IdleReader, ReaderFits
<1>11. CASE ReadLatest
  <2>1. reader' = IdleReader /\ UNCHANGED <<folder, temp, today, run, texts, newest, astray>>
    BY <1>11 DEF ReadLatest, history
  <2> QED BY <1>8, <1>10, <2>1 DEF FilesInv, TypeOK
<1>12. CASE NextDay
  <2>1. today' \in Days /\ UNCHANGED <<folder, temp, run, reader, texts, newest, astray>>
    BY <1>12 DEF NextDay, history
  <2>2. ReaderFits'
    BY <2>1 DEF FilesInv, ReaderFits, Existing
  <2> QED BY <1>8, <2>1, <2>2 DEF FilesInv, TypeOK
<1>13. CASE Crash
  <2>1. /\ run' = IdleRun /\ reader' = IdleReader
        /\ UNCHANGED <<folder, temp, today, texts, newest, astray>>
    BY <1>13 DEF Crash, history
  <2>2. Existing' = Existing /\ Latest' = Latest
    BY <2>1 DEF Existing, Latest
  <2>3. run' \in Runs /\ run'.stage = "idle"
    BY <2>1 DEF IdleRun, RunStages
  <2>4. TypeOK'
    BY <1>10, <2>1, <2>3 DEF FilesInv, TypeOK
  <2>5. RunFits' /\ PlacedLast'
    BY <2>3 DEF RunFits, PlacedLast, WithText, AtWrite
  <2>6. FolderWhole' /\ NumbersFit' /\ LatestIsNewest'
    BY <2>1, <2>2 DEF FilesInv, FolderWhole, NumbersFit, LatestIsNewest
  <2> QED BY <1>10, <2>1, <2>4, <2>5, <2>6 DEF FilesInv
<1>14. CASE UNCHANGED vars
  <2>1. UNCHANGED <<folder, temp, today, run, reader, texts, newest, astray>>
    BY <1>14 DEF vars, history
  <2>2. ReaderFits'
    BY <2>1 DEF FilesInv, ReaderFits, Existing
  <2> QED BY <1>8, <2>1, <2>2 DEF FilesInv, TypeOK
<1> QED
  BY <1>1, <1>2, <1>3, <1>4, <1>5, <1>6, <1>7, <1>9, <1>11, <1>12, <1>13, <1>14
  DEF Next, Synthesize, GetSummary

LEMMA FilesAlways == Spec => []FilesInv
  BY InitFiles, FilesStep, PTL DEF Spec

\* The variables have their types, and what is about to be renamed is complete.
THEOREM TypeCorrect == Spec => []TypeOK
<1>1. FilesInv => TypeOK
  BY DEF FilesInv
<1> QED BY <1>1, FilesAlways, PTL

\* Over all roll-overs, failures and crashes the file found as the latest is the summary
\* stored last, unless the run that stored it was misled.
THEOREM LatestAlwaysNewest == Spec => []LatestIsNewest
<1>1. FilesInv => LatestIsNewest
  BY DEF FilesInv
<1> QED BY <1>1, FilesAlways, PTL

\* No run that was not misled writes over any file but the latest.
THEOREM OldFilesAlwaysStay == Spec => OldFilesStay
<1>1. FilesInv /\ [Next]_vars =>
        [\A n \in Existing : n \in Latest \/ folder'[n] = folder[n] \/ run.misled]_vars
  <2> SUFFICES ASSUME FilesInv, [Next]_vars, NEW n \in Existing, n \notin Latest, ~run.misled
               PROVE  folder'[n] = folder[n]
    OBVIOUS
  <2>1. CASE ~Rename
    <3>1. folder' = folder
      BY <2>1 DEF Next, Synthesize, GetSummary, Begin, Reply, NoReply, Pick, Open, Write, WriteFails,
         GetLatest, ReadLatest, NextDay, Crash, vars
    <3> QED BY <3>1
  <2>2. CASE Rename
    <3>1. /\ run.stage = "rename" /\ run.path \in Names /\ n \in Names
          /\ folder' = [folder EXCEPT ![run.path] = temp[run.path]]
      BY <2>2 DEF Rename, FilesInv, RunFits, AtWrite, Existing
    <3>2. \A m \in Existing : m \in Names /\ (m = run.path \/ Before(m, run.path))
      BY <3>1 DEF FilesInv, PlacedLast, AtWrite, Existing
    <3>3. n # run.path
      <4>1. ASSUME n = run.path PROVE \A m \in Existing : ~Before(n, m)
        BY <3>1, <3>2, <4>1, BeforeTotal
      <4> QED BY <4>1 DEF Latest
    <3> QED BY <3>1, <3>3 DEF FilesInv, TypeOK
  <2> QED BY <2>1, <2>2
<1> QED BY <1>1, FilesAlways, PTL DEF Spec, OldFilesStay

\* GetSummary answers with a whole text, and none older than the newest it could see.
THEOREM AlwaysReadsWholeAndNew == Spec => ReadsWholeAndNew
<1>1. FilesInv /\ [Next]_vars =>
        [reader.stage = "read" /\ reader'.stage = "idle" /\ UNCHANGED run
           => folder[reader.path] \in Texts /\ folder[reader.path].number >= reader.since]_vars
  BY ExistingAreTexts DEF FilesInv, ReaderFits
<1> QED BY <1>1, FilesAlways, PTL DEF Spec, ReadsWholeAndNew
=============================================================================
