--------------------------- MODULE SynthesisFiles ---------------------------
(***************************************************************************)
(* The folder of the summaries of one target: which file is the latest,    *)
(* where the next summary goes, how Storage writes it, and how GetSummary  *)
(* reads it meanwhile.  Only the Synthesizer writes to the folder, one     *)
(* summary at a time.  Both sides list the folder themselves and reach the *)
(* files through Storage.                                                  *)
(*                                                                         *)
(* A file name is a day and a suffix, {date}-{NN}.md; a text is its number *)
(* in the sequence of replies and whether it reaches the size cap.         *)
(***************************************************************************)
EXTENDS Integers

CONSTANTS Days,       \* dates, as numbers
          MaxSuffix,  \* bound: suffixes
          MaxTexts,   \* bound: replies of the language model
          NoFile, NoName, Partial,
          Faults      \* the faults the environment may inject

FaultKinds == {"llm", "disk", "crash", "list", "clock"}

ASSUME NumbersAssumption == Days \subseteq Nat /\ Days # {} /\ MaxSuffix \in Nat \ {0} /\ MaxTexts \in Nat
ASSUME FaultsAssumption == Faults \subseteq FaultKinds

Names == Days \X (1..MaxSuffix)
Texts == [number : 1..MaxTexts, full : BOOLEAN]

ASSUME NoneAssumption == NoFile \notin Texts /\ Partial \notin Texts /\ NoFile # Partial /\ NoName \notin Names

VARIABLES folder,  \* name -> the text of {name}.md
          temp,    \* name -> what is in {name}.tmp
          today,   \* Utc::now().date_naive()
          run,     \* the synthesis of the target that is under way
          reader,  \* the GetSummary that is under way
          texts,   \* history: replies so far
          newest,  \* history: the number of the text stored last, 0 for none
          astray   \* history: the run that stored it had been misled

history == <<texts, newest, astray>>
vars == <<folder, temp, today, run, reader, history>>

NoText == [number |-> 0, full |-> FALSE]
IdleRun == [stage |-> "idle", text |-> NoText, path |-> NoName, misled |-> FALSE]
IdleReader == [stage |-> "idle", path |-> NoName, since |-> 0]

Init ==
    /\ folder = [n \in Names |-> NoFile]
    /\ temp = [n \in Names |-> NoFile]
    /\ today \in Days
    /\ run = IdleRun
    /\ reader = IdleReader
    /\ texts = 0
    /\ newest = 0
    /\ astray = FALSE
-----------------------------------------------------------------------------
(* Names.                                                                   *)

\* Seeded fault: names are compared by suffix before date.
BySuffix(a, b) == a[2] < b[2] \/ (a[2] = b[2] /\ a[1] < b[1])

\* The order of the keys that parse_filename makes.
Before(a, b) == a[1] < b[1] \/ (a[1] = b[1] /\ a[2] < b[2])

Existing == {n \in Names : folder[n] # NoFile}

\* find_latest_synthesis_file: the greatest key; its temp files have other names.
Latest == {n \in Existing : \A m \in Existing : ~Before(n, m)}

\* What a listing makes of the folder: an error of the directory or of the file
\* counts as none, and one half-way leaves the greatest of the entries before it.
Listings ==
    {Latest} \cup (IF "list" \in Faults THEN {{}} \cup {{n} : n \in Existing} ELSE {})

\* next_filename.
NextName(name) == <<today, IF name[1] = today THEN name[2] + 1 ELSE 1>>

\* current_synthesis_path.
Current(latest) ==
    {n \in latest : ~folder[n].full} \cup {NextName(n) : n \in {n \in latest : folder[n].full}}
      \cup (IF latest = {} THEN {<<today, 1>>} ELSE {})
-----------------------------------------------------------------------------
(* A synthesis of the target, from its prior summary to write_synthesis.    *)

\* The prior summary is read and the model asked; nobody else writes meanwhile.
Begin ==
    /\ run.stage = "idle"
    /\ texts < MaxTexts
    /\ run' = [IdleRun EXCEPT !.stage = "asked"]
    /\ UNCHANGED <<folder, temp, today, reader, history>>

Reply ==
    /\ run.stage = "asked"
    /\ texts' = texts + 1
    /\ \E full \in BOOLEAN :
          run' = [run EXCEPT !.stage = "pick", !.text = [number |-> texts', full |-> full]]
    /\ UNCHANGED <<folder, temp, today, reader, newest, astray>>

\* An error of the model, or a reply with nothing in it, which is not stored.
NoReply ==
    /\ "llm" \in Faults
    /\ run.stage = "asked"
    /\ run' = IdleRun
    /\ UNCHANGED <<folder, temp, today, reader, history>>

\* History: the folder could not be listed, or the clock is behind its files.
Misled(latest) == latest # Latest \/ \E n \in Existing : n[1] > today

Pick ==
    /\ run.stage = "pick"
    /\ \E latest \in Listings : \E name \in Current(latest) \cap Names :
          run' = [run EXCEPT !.stage = "send", !.path = name, !.misled = Misled(latest)]
    /\ UNCHANGED <<folder, temp, today, reader, history>>

\* Storage takes the StorageWrite and opens the temp file, which empties it.
Open ==
    /\ run.stage = "send"
    /\ temp' = [temp EXCEPT ![run.path] = Partial]
    /\ run' = [run EXCEPT !.stage = "write"]
    /\ UNCHANGED <<folder, today, reader, history>>

\* Seeded fault: the result of the write is not awaited.
WriteUnfinished ==
    /\ run.stage = "write"
    /\ run' = [run EXCEPT !.stage = "rename"]
    /\ UNCHANGED <<folder, temp, today, reader, history>>

\* Seeded fault: the text is written where the readers look.
WriteInPlace ==
    /\ run.stage = "write"
    /\ folder' = [folder EXCEPT ![run.path] = Partial]
    /\ temp' = [temp EXCEPT ![run.path] = run.text]
    /\ run' = [run EXCEPT !.stage = "rename"]
    /\ UNCHANGED <<today, reader, history>>

Write ==
    /\ run.stage = "write"
    /\ temp' = [temp EXCEPT ![run.path] = run.text]
    /\ run' = [run EXCEPT !.stage = "rename"]
    /\ UNCHANGED <<folder, today, reader, history>>

Rename ==
    /\ run.stage = "rename"
    /\ folder' = [folder EXCEPT ![run.path] = temp[run.path]]
    /\ temp' = [temp EXCEPT ![run.path] = NoFile]
    /\ newest' = run.text.number
    /\ astray' = run.misled
    /\ run' = IdleRun
    /\ UNCHANGED <<today, reader, texts>>

\* An I/O error ends the StorageWrite where it is, and the synthesis with it.
WriteFails ==
    /\ "disk" \in Faults
    /\ run.stage \in {"send", "write", "rename"}
    /\ run' = IdleRun
    /\ UNCHANGED <<folder, temp, today, reader, history>>
-----------------------------------------------------------------------------
(* GetSummary.                                                              *)

\* It lists the folder and answers 404 when there is nothing.
GetLatest ==
    /\ reader.stage = "idle"
    /\ \E latest \in Listings : \E n \in latest :
          reader' = [stage |-> "read", path |-> n,
                     since |-> IF astray \/ latest # Latest THEN 0 ELSE newest]
    /\ UNCHANGED <<folder, temp, today, run, history>>

\* Storage reads the file, when it is not writing one.
ReadLatest ==
    /\ reader.stage = "read"
    /\ run.stage \notin {"write", "rename"}
    /\ reader' = IdleReader
    /\ UNCHANGED <<folder, temp, today, run, history>>
-----------------------------------------------------------------------------
\* Days pass; the clock of a server may also be set back.
NextDay ==
    /\ today' \in Days
    /\ today' > today \/ (today' < today /\ "clock" \in Faults)
    /\ UNCHANGED <<folder, temp, run, reader, history>>

\* The process ends and starts again; what is in the folder stays.
Crash ==
    /\ "crash" \in Faults
    /\ run' = IdleRun
    /\ reader' = IdleReader
    /\ UNCHANGED <<folder, temp, today, history>>

Synthesize == Begin \/ Reply \/ NoReply \/ Pick \/ Open \/ Write \/ Rename \/ WriteFails
GetSummary == GetLatest \/ ReadLatest

Next == Synthesize \/ GetSummary \/ NextDay \/ Crash

Spec == Init /\ [][Next]_vars
-----------------------------------------------------------------------------
(* Properties.                                                              *)

RunStages == {"idle", "asked", "pick", "send", "write", "rename"}

\* Every variable has its type; what is about to be renamed is complete.
TypeOK ==
    /\ folder \in [Names -> Texts \cup {NoFile, Partial}]
    /\ temp \in [Names -> Texts \cup {NoFile, Partial}]
    /\ today \in Days
    /\ run \in [stage : RunStages, text : Texts \cup {NoText}, path : Names \cup {NoName}, misled : BOOLEAN]
    /\ reader \in [stage : {"idle", "read"}, path : Names \cup {NoName}, since : 0..MaxTexts]
    /\ texts \in 0..MaxTexts /\ newest \in 0..texts /\ astray \in BOOLEAN
    /\ run.stage = "rename" => temp[run.path] = run.text

\* The file taken for the latest is the one written last, over all roll-overs by
\* size and by date, failed writes and crashes: the model is given, and the caller
\* answered, with the newest summary.  Only a run that could not list the folder, or
\* whose clock was behind it, may store one elsewhere, and the next that is stored
\* makes up for it.
LatestIsNewest ==
    /\ Latest = {} <=> newest = 0
    /\ \A n \in Latest : folder[n] # Partial /\ (~astray => folder[n].number = newest)

\* Only the latest file is ever written over; the files before it keep their text
\* and none is removed (old files accumulate), unless the run was misled.
OldFilesStay ==
    [][\A n \in Existing : n \in Latest \/ folder'[n] = folder[n] \/ run.misled]_vars

\* GetSummary never answers with half a file, nor with a summary older than the
\* newest that was there when it listed the folder, if it could list all of it.
ReadsWholeAndNew ==
    [][reader.stage = "read" /\ reader'.stage = "idle" /\ UNCHANGED run
           => folder[reader.path] \in Texts /\ folder[reader.path].number >= reader.since]_vars
=============================================================================
