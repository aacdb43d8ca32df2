--------------------------- MODULE RunnerCacheProofs ---------------------------
(***************************************************************************)
(* The cache of RunnerCache is never wrongly taken for complete, for any   *)
(* number of runners, members and packages.                                *)
(***************************************************************************)
EXTENDS RunnerCache, TLAPS

Steps == {"idle", "exit_0", "exit_1", "killed"} \cup Preparing \cup Executing

TypeOK ==
  /\ pc \in [Runners -> Steps]
  /\ todo \in [Runners -> SUBSET (Members \cup Packages \cup {Installed})]
  /\ open \in [Runners -> Members \cup {None}]
  /\ src \in [Members -> Runners \cup {"absent", "whole"}]
  /\ extracted \in {"no", "yes"}
  /\ deps \subseteq Packages \cup {Installed}
  /\ pip \in [Runners -> {None, "running", "ok", "failed"}]
  /\ left \in [Runners -> SUBSET Packages]
  /\ crowded \in {"no", "yes"}

\* What a runner does to the archive, and to the packages.
Extracting == {"download", "extract"}
Installing == {"clear", "remove", "install"}

\* A runner of inline source touches nothing.
InlineApart == \A r \in Inline : pc[r] \notin Preparing

\* Who is past the check has seen the marker, or has written it.
Checked ==
  \A r \in Runners \ Inline :
    pc[r] \in {"deps"} \cup Installing \cup Executing => extracted = "yes"

\* Members are opened when they are extracted.
Untouched ==
  \A r \in Runners : pc[r] \in {"idle", "check", "download"} => open[r] = None

\* The markers say the truth.
Truth ==
  /\ extracted = "yes" => SourceComplete
  /\ Installed \in deps => DepsComplete

\* Only one runner changes the directory.
OneChanger ==
  \A r, q \in Runners :
    pc[r] \in Extracting \cup Installing /\ pc[q] \in Extracting \cup Installing => r = q

\* While the archive is extracted there is no marker, and what is not to do is done.
Extraction ==
  \A r \in Runners :
    /\ pc[r] \in Extracting => extracted = "no"
    /\ pc[r] = "extract" =>
         /\ \A m \in Members \ todo[r] : src[m] = "whole"
         /\ open[r] # None => src[open[r]] = r

\* While packages are installed there is no marker, and pip has them or will.
Installation ==
  \A r \in Runners :
    /\ pc[r] \in Installing => HasRequirements /\ Installed \notin deps
    /\ pc[r] = "install" /\ pip[r] \in {"running", "ok"} =>
         Packages \subseteq deps \cup left[r]
    /\ pip[r] = "ok" => left[r] = {}

\* A runner that executes has seen the second marker too, or needs none.
Ready ==
  \A r \in Runners \ Inline :
    pc[r] \in Executing /\ HasRequirements => Installed \in deps

\* What holds until two runners get into each other's way.
Quiet ==
  /\ OneChanger
  /\ Extraction
  /\ Installation
  /\ Ready
  /\ Truth

Inv ==
  /\ TypeOK
  /\ InlineApart
  /\ Checked
  /\ Untouched
  /\ crowded = "no" => Quiet

-----------------------------------------------------------------------------
LEMMA InvInit == Init => Inv
BY RunnerAssumption
   DEF Init, Inv, Quiet, TypeOK, InlineApart, Checked, Untouched, OneChanger, Extraction,
       Installation, Ready, Truth, Steps, Preparing, Executing, Extracting, Installing

LEMMA InvUnmoved == Inv /\ UNCHANGED vars => Inv'
BY DEF Inv, Quiet, TypeOK, InlineApart, Checked, Untouched, OneChanger, Extraction, Installation, Ready,
       Truth, SourceComplete, DepsComplete, vars, cache, installer

\* A runner that starts, executes or ends, and changes nothing else.
LEMMA MovesKeeps ==
  ASSUME Inv, NEW r \in Runners,
         NEW to \in {"check", "exit_0", "exit_1", "killed"} \cup Executing, Goes(r, to),
         UNCHANGED <<todo, open, cache, installer, crowded>>,
         to = "check" => r \notin Inline /\ pc[r] = "idle",
         to \in Executing => r \in Inline \/ pc[r] \in Executing
  PROVE  Inv'
<1> USE RunnerAssumption DEF Inv, Goes, Alive, Steps, Preparing, Executing, Extracting, Installing, cache, installer
<1>1. TypeOK' BY DEF TypeOK
<1>2. InlineApart' /\ Checked' BY DEF TypeOK, InlineApart, Checked
<1>4. Untouched' BY DEF TypeOK, Untouched
<1>3. ASSUME crowded' = "no" PROVE Quiet'
  <2>c. crowded = "no" /\ Quiet BY <1>3 DEF TypeOK
  <2> USE <2>c DEF Quiet
  <2>1. OneChanger'
    <3>1. \A q \in Runners : pc'[q] \in Extracting \cup Installing => pc[q] = pc'[q]
      BY DEF TypeOK
    <3> QED BY <3>1 DEF OneChanger
  <2>2. Extraction'
    BY <1>3 DEF TypeOK, OneChanger, Extraction, InlineApart, Checked
  <2>3. Installation'
    BY <1>3 DEF TypeOK, OneChanger, Installation, Checked, HasRequirements, InlineApart,
             Truth, SourceComplete
  <2>4. Ready'
    BY <1>3 DEF TypeOK, OneChanger, Installation, Ready, HasRequirements
  <2>5. Truth'
    BY <1>3 DEF TypeOK, Truth, SourceComplete, DepsComplete, OneChanger, Extraction,
             Installation
  <2> QED BY <2>1, <2>2, <2>3, <2>4, <2>5
<1> QED BY <1>1, <1>2, <1>3, <1>4

LEMMA CheckExtractedKeeps ==
  ASSUME Inv, NEW r \in Runners, CheckExtracted(r)
  PROVE  Inv'
<1> USE RunnerAssumption DEF Inv, CheckExtracted, Crowds,
        Goes, Alive, Steps, Preparing, Executing, Extracting, Installing, cache, installer
<1>1. TypeOK' BY DEF TypeOK
<1>2. InlineApart' /\ Checked' BY DEF TypeOK, InlineApart, Checked
<1>4. Untouched' BY DEF TypeOK, Untouched
<1>3. ASSUME crowded' = "no" PROVE Quiet'
  <2>c. crowded = "no" /\ Quiet BY <1>3 DEF TypeOK
  <2> USE <2>c DEF Quiet
  <2>1. OneChanger'
    <3>1. CASE extracted = "yes"
      <4>1. \A q \in Runners : pc'[q] \in Extracting \cup Installing => pc[q] = pc'[q]
        BY <3>1 DEF TypeOK
      <4> QED BY <4>1 DEF OneChanger
    <3>2. CASE extracted # "yes"
      <4>1. \A q \in Runners : pc'[q] \in Extracting \cup Installing => q = r
        BY <1>3, <3>2 DEF TypeOK, InlineApart
      <4> QED BY <4>1 DEF OneChanger
    <3> QED BY <3>1, <3>2
  <2>2. Extraction'
    BY <1>3 DEF TypeOK, OneChanger, Extraction, InlineApart, Checked
  <2>3. Installation'
    BY <1>3 DEF TypeOK, OneChanger, Installation, Checked, HasRequirements, InlineApart,
             Truth, SourceComplete
  <2>4. Ready'
    BY <1>3 DEF TypeOK, OneChanger, Installation, Ready, HasRequirements
  <2>5. Truth'
    BY <1>3 DEF TypeOK, Truth, SourceComplete, DepsComplete, OneChanger, Extraction,
             Installation
  <2> QED BY <2>1, <2>2, <2>3, <2>4, <2>5
<1> QED BY <1>1, <1>2, <1>3, <1>4

LEMMA DownloadKeeps ==
  ASSUME Inv, NEW r \in Runners, Download(r)
  PROVE  Inv'
<1> USE RunnerAssumption DEF Inv, Download,
        Goes, Alive, Steps, Preparing, Executing, Extracting, Installing, cache, installer
<1>1. TypeOK' BY DEF TypeOK
<1>2. InlineApart' /\ Checked' BY DEF TypeOK, InlineApart, Checked
<1>4. Untouched' BY DEF TypeOK, Untouched
<1>3. ASSUME crowded' = "no" PROVE Quiet'
  <2>c. crowded = "no" /\ Quiet BY <1>3 DEF TypeOK
  <2> USE <2>c DEF Quiet
  <2>1. OneChanger'
    BY <1>3 DEF TypeOK, OneChanger, InlineApart, Checked, Extraction, Installation,
             HasRequirements
  <2>2. Extraction'
    <3>1. \A q \in Runners : pc[q] \in Extracting => q = r BY DEF OneChanger
    <3>2. pc' = [pc EXCEPT ![r] = "extract"] /\ todo'[r] = Members BY DEF TypeOK
    <3>3. open'[r] # None => src'[open'[r]] = r BY DEF TypeOK, Untouched
    <3> QED BY <3>1, <3>2, <3>3 DEF TypeOK, Extraction
  <2>3. Installation'
    BY <1>3 DEF TypeOK, OneChanger, Installation, Checked, HasRequirements, InlineApart,
             Truth, SourceComplete
  <2>4. Ready'
    BY <1>3 DEF TypeOK, OneChanger, Installation, Ready, HasRequirements
  <2>5. Truth'
    BY <1>3 DEF TypeOK, Truth, SourceComplete, DepsComplete, OneChanger, Extraction,
             Installation
  <2> QED BY <2>1, <2>2, <2>3, <2>4, <2>5
<1> QED BY <1>1, <1>2, <1>3, <1>4

LEMMA OpenMemberKeeps ==
  ASSUME Inv, NEW r \in Runners, NEW m \in Members, OpenMember(r, m)
  PROVE  Inv'
<1> USE RunnerAssumption DEF Inv, OpenMember,
        Goes, Alive, Steps, Preparing, Executing, Extracting, Installing, cache, installer
<1>1. TypeOK' BY DEF TypeOK
<1>2. InlineApart' /\ Checked' BY DEF TypeOK, InlineApart, Checked
<1>4. Untouched' BY DEF TypeOK, Untouched
<1>3. ASSUME crowded' = "no" PROVE Quiet'
  <2>c. crowded = "no" /\ Quiet BY <1>3 DEF TypeOK
  <2> USE <2>c DEF Quiet
  <2>1. OneChanger'
    BY <1>3 DEF TypeOK, OneChanger, InlineApart, Checked, Extraction, Installation,
             HasRequirements
  <2>2. Extraction'
    BY <1>3 DEF TypeOK, OneChanger, Extraction, InlineApart, Checked
  <2>3. Installation'
    BY <1>3 DEF TypeOK, OneChanger, Installation, Checked, HasRequirements, InlineApart,
             Truth, SourceComplete
  <2>4. Ready'
    BY <1>3 DEF TypeOK, OneChanger, Installation, Ready, HasRequirements
  <2>5. Truth'
    BY <1>3 DEF TypeOK, Truth, SourceComplete, DepsComplete, OneChanger, Extraction,
             Installation
  <2> QED BY <2>1, <2>2, <2>3, <2>4, <2>5
<1> QED BY <1>1, <1>2, <1>3, <1>4

LEMMA WriteMemberKeeps ==
  ASSUME Inv, NEW r \in Runners, NEW m \in Members, WriteMember(r, m)
  PROVE  Inv'
<1> USE RunnerAssumption DEF Inv, WriteMember,
        Goes, Alive, Steps, Preparing, Executing, Extracting, Installing, cache, installer
<1>1. TypeOK' BY DEF TypeOK
<1>2. InlineApart' /\ Checked' BY DEF TypeOK, InlineApart, Checked
<1>4. Untouched' BY DEF TypeOK, Untouched
<1>3. ASSUME crowded' = "no" PROVE Quiet'
  <2>c. crowded = "no" /\ Quiet BY <1>3 DEF TypeOK
  <2> USE <2>c DEF Quiet
  <2>1. OneChanger'
    BY <1>3 DEF TypeOK, OneChanger, InlineApart, Checked, Extraction, Installation,
             HasRequirements
  <2>2. Extraction'
    BY <1>3 DEF TypeOK, OneChanger, Extraction, InlineApart, Checked
  <2>3. Installation'
    BY <1>3 DEF TypeOK, OneChanger, Installation, Checked, HasRequirements, InlineApart,
             Truth, SourceComplete
  <2>4. Ready'
    BY <1>3 DEF TypeOK, OneChanger, Installation, Ready, HasRequirements
  <2>5. Truth'
    BY <1>3 DEF TypeOK, Truth, SourceComplete, DepsComplete, OneChanger, Extraction,
             Installation
  <2> QED BY <2>1, <2>2, <2>3, <2>4, <2>5
<1> QED BY <1>1, <1>2, <1>3, <1>4

LEMMA MarkExtractedKeeps ==
  ASSUME Inv, NEW r \in Runners, MarkExtracted(r)
  PROVE  Inv'
<1> USE RunnerAssumption DEF Inv, MarkExtracted,
        Goes, Alive, Steps, Preparing, Executing, Extracting, Installing, cache, installer
<1>1. TypeOK' BY DEF TypeOK
<1>2. InlineApart' /\ Checked' BY DEF TypeOK, InlineApart, Checked
<1>4. Untouched' BY DEF TypeOK, Untouched
<1>3. ASSUME crowded' = "no" PROVE Quiet'
  <2>c. crowded = "no" /\ Quiet BY <1>3 DEF TypeOK
  <2> USE <2>c DEF Quiet
  <2>1. OneChanger'
    BY <1>3 DEF TypeOK, OneChanger, InlineApart, Checked, Extraction, Installation,
             HasRequirements
  <2>2. Extraction'
    BY <1>3 DEF TypeOK, OneChanger, Extraction, InlineApart, Checked
  <2>3. Installation'
    BY <1>3 DEF TypeOK, OneChanger, Installation, Checked, HasRequirements, InlineApart,
             Truth, SourceComplete
  <2>4. Ready'
    BY <1>3 DEF TypeOK, OneChanger, Installation, Ready, HasRequirements
  <2>5. Truth'
    BY <1>3 DEF TypeOK, Truth, SourceComplete, DepsComplete, OneChanger, Extraction,
             Installation
  <2> QED BY <2>1, <2>2, <2>3, <2>4, <2>5
<1> QED BY <1>1, <1>2, <1>3, <1>4

LEMMA CheckInstalledKeeps ==
  ASSUME Inv, NEW r \in Runners, CheckInstalled(r)
  PROVE  Inv'
<1> USE RunnerAssumption DEF Inv, CheckInstalled, Crowds,
        Goes, Alive, Steps, Preparing, Executing, Extracting, Installing, cache, installer
<1>1. TypeOK' BY DEF TypeOK
<1>2. InlineApart' /\ Checked' BY DEF TypeOK, InlineApart, Checked
<1>4. Untouched' BY DEF TypeOK, Untouched
<1>3. ASSUME crowded' = "no" PROVE Quiet'
  <2>c. crowded = "no" /\ Quiet BY <1>3 DEF TypeOK
  <2> USE <2>c DEF Quiet
  <2>1. OneChanger'
    <3>1. CASE ~(HasRequirements /\ Installed \notin deps)
      <4>1. \A q \in Runners : pc'[q] \in Extracting \cup Installing => pc[q] = pc'[q]
        BY <3>1 DEF TypeOK
      <4> QED BY <4>1 DEF OneChanger
    <3>2. CASE HasRequirements /\ Installed \notin deps
      <4>1. \A q \in Runners : pc'[q] \in Extracting \cup Installing => q = r
        BY <1>3, <3>2 DEF TypeOK, InlineApart
      <4> QED BY <4>1 DEF OneChanger
    <3> QED BY <3>1, <3>2
  <2>2. Extraction'
    BY <1>3 DEF TypeOK, OneChanger, Extraction, InlineApart, Checked
  <2>3. Installation'
    BY <1>3 DEF TypeOK, OneChanger, Installation, Checked, HasRequirements, InlineApart,
             Truth, SourceComplete
  <2>4. Ready'
    BY <1>3 DEF TypeOK, OneChanger, Installation, Ready, HasRequirements
  <2>5. Truth'
    BY <1>3 DEF TypeOK, Truth, SourceComplete, DepsComplete, OneChanger, Extraction,
             Installation
  <2> QED BY <2>1, <2>2, <2>3, <2>4, <2>5
<1> QED BY <1>1, <1>2, <1>3, <1>4

LEMMA ListKeeps ==
  ASSUME Inv, NEW r \in Runners, List(r)
  PROVE  Inv'
<1> USE RunnerAssumption DEF Inv, List,
        Goes, Alive, Steps, Preparing, Executing, Extracting, Installing, cache, installer
<1>1. TypeOK' BY DEF TypeOK
<1>2. InlineApart' /\ Checked' BY DEF TypeOK, InlineApart, Checked
<1>4. Untouched' BY DEF TypeOK, Untouched
<1>3. ASSUME crowded' = "no" PROVE Quiet'
  <2>c. crowded = "no" /\ Quiet BY <1>3 DEF TypeOK
  <2> USE <2>c DEF Quiet
  <2>1. OneChanger'
    BY <1>3 DEF TypeOK, OneChanger, InlineApart, Checked, Extraction, Installation,
             HasRequirements
  <2>2. Extraction'
    BY <1>3 DEF TypeOK, OneChanger, Extraction, InlineApart, Checked
  <2>3. Installation'
    BY <1>3 DEF TypeOK, OneChanger, Installation, Checked, HasRequirements, InlineApart,
             Truth, SourceComplete
  <2>4. Ready'
    BY <1>3 DEF TypeOK, OneChanger, Installation, Ready, HasRequirements
  <2>5. Truth'
    BY <1>3 DEF TypeOK, Truth, SourceComplete, DepsComplete, OneChanger, Extraction,
             Installation
  <2> QED BY <2>1, <2>2, <2>3, <2>4, <2>5
<1> QED BY <1>1, <1>2, <1>3, <1>4

LEMMA RemoveKeeps ==
  ASSUME Inv, NEW r \in Runners, NEW x \in Packages \cup {Installed}, Remove(r, x)
  PROVE  Inv'
<1> USE RunnerAssumption DEF Inv, Remove,
        Goes, Alive, Steps, Preparing, Executing, Extracting, Installing, cache, installer
<1>1. TypeOK' BY DEF TypeOK
<1>2. InlineApart' /\ Checked' BY DEF TypeOK, InlineApart, Checked
<1>4. Untouched' BY DEF TypeOK, Untouched
<1>3. ASSUME crowded' = "no" PROVE Quiet'
  <2>c. crowded = "no" /\ Quiet BY <1>3 DEF TypeOK
  <2> USE <2>c DEF Quiet
  <2>1. OneChanger'
    BY <1>3 DEF TypeOK, OneChanger, InlineApart, Checked, Extraction, Installation,
             HasRequirements
  <2>2. Extraction'
    BY <1>3 DEF TypeOK, OneChanger, Extraction, InlineApart, Checked
  <2>3. Installation'
    BY <1>3 DEF TypeOK, OneChanger, Installation, Checked, HasRequirements, InlineApart,
             Truth, SourceComplete
  <2>4. Ready'
    BY <1>3 DEF TypeOK, OneChanger, Installation, Ready, HasRequirements
  <2>5. Truth'
    BY <1>3 DEF TypeOK, Truth, SourceComplete, DepsComplete, OneChanger, Extraction,
             Installation
  <2> QED BY <2>1, <2>2, <2>3, <2>4, <2>5
<1> QED BY <1>1, <1>2, <1>3, <1>4

LEMMA StartPipKeeps ==
  ASSUME Inv, NEW r \in Runners, StartPip(r)
  PROVE  Inv'
<1> USE RunnerAssumption DEF Inv, StartPip,
        Goes, Alive, Steps, Preparing, Executing, Extracting, Installing, cache, installer
<1>1. TypeOK'
  <2>1. pc' \in [Runners -> Steps] /\ pip' \in [Runners -> {None, "running", "ok", "failed"}]
    BY DEF TypeOK
  <2>2. left' \in [Runners -> SUBSET Packages]
    <3>1. PICK asked \in SUBSET Packages : left' = [left EXCEPT ![r] = asked] OBVIOUS
    <3> QED BY <3>1 DEF TypeOK
  <2> QED BY <2>1, <2>2 DEF TypeOK
<1>2. InlineApart' /\ Checked' BY DEF TypeOK, InlineApart, Checked
<1>4. Untouched' BY DEF TypeOK, Untouched
<1>3. ASSUME crowded' = "no" PROVE Quiet'
  <2>c. crowded = "no" /\ Quiet BY <1>3 DEF TypeOK
  <2> USE <2>c DEF Quiet
  <2>1. OneChanger'
    BY <1>3 DEF TypeOK, OneChanger, InlineApart, Checked, Extraction, Installation,
             HasRequirements
  <2>2. Extraction'
    BY <1>3 DEF TypeOK, OneChanger, Extraction, InlineApart, Checked
  <2>3. Installation'
    <3>1. src[Requirements] = "whole"
      <4>1. r \in Runners \ Inline /\ pc[r] \in Installing BY DEF InlineApart
      <4>2. extracted = "yes" BY <4>1 DEF Checked
      <4>3. Requirements \in Members BY <4>1 DEF Installation, HasRequirements
      <4> QED BY <4>2, <4>3 DEF Truth, SourceComplete
    <3>2. left' = [left EXCEPT ![r] = Packages] /\ pip' = [pip EXCEPT ![r] = "running"]
      BY <3>1
    <3>3. deps' = deps /\ pc' = [pc EXCEPT ![r] = "install"]
      OBVIOUS
    <3>4. \A q \in Runners \ {r} :
            pc'[q] = pc[q] /\ left'[q] = left[q] /\ pip'[q] = pip[q]
      BY <3>2, <3>3 DEF TypeOK
    <3>5. pc[r] \in Installing /\ left'[r] = Packages /\ pip'[r] = "running"
      BY <3>2 DEF TypeOK
    <3> QED BY <3>3, <3>4, <3>5 DEF Installation, HasRequirements
  <2>4. Ready'
    BY <1>3 DEF TypeOK, OneChanger, Installation, Ready, HasRequirements
  <2>5. Truth'
    BY <1>3 DEF TypeOK, Truth, SourceComplete, DepsComplete, OneChanger, Extraction,
             Installation
  <2> QED BY <2>1, <2>2, <2>3, <2>4, <2>5
<1> QED BY <1>1, <1>2, <1>3, <1>4

LEMMA MarkInstalledKeeps ==
  ASSUME Inv, NEW r \in Runners, MarkInstalled(r)
  PROVE  Inv'
<1> USE RunnerAssumption DEF Inv, MarkInstalled,
        Goes, Alive, Steps, Preparing, Executing, Extracting, Installing, cache, installer
<1>1. TypeOK' BY DEF TypeOK
<1>2. InlineApart' /\ Checked' BY DEF TypeOK, InlineApart, Checked
<1>4. Untouched' BY DEF TypeOK, Untouched
<1>3. ASSUME crowded' = "no" PROVE Quiet'
  <2>c. crowded = "no" /\ Quiet BY <1>3 DEF TypeOK
  <2> USE <2>c DEF Quiet
  <2>1. OneChanger'
    BY <1>3 DEF TypeOK, OneChanger, InlineApart, Checked, Extraction, Installation,
             HasRequirements
  <2>2. Extraction'
    BY <1>3 DEF TypeOK, OneChanger, Extraction, InlineApart, Checked
  <2>3. Installation'
    BY <1>3 DEF TypeOK, OneChanger, Installation, Checked, HasRequirements, InlineApart,
             Truth, SourceComplete
  <2>4. Ready'
    BY <1>3 DEF TypeOK, OneChanger, Installation, Ready, HasRequirements
  <2>5. Truth'
    BY <1>3 DEF TypeOK, Truth, SourceComplete, DepsComplete, OneChanger, Extraction,
             Installation
  <2> QED BY <2>1, <2>2, <2>3, <2>4, <2>5
<1> QED BY <1>1, <1>2, <1>3, <1>4

LEMMA InstallFailsKeeps ==
  ASSUME Inv, NEW r \in Runners, InstallFails(r)
  PROVE  Inv'
<1> USE RunnerAssumption DEF Inv, InstallFails,
        Goes, Alive, Steps, Preparing, Executing, Extracting, Installing, cache, installer
<1>1. TypeOK' BY DEF TypeOK
<1>2. InlineApart' /\ Checked' BY DEF TypeOK, InlineApart, Checked
<1>4. Untouched' BY DEF TypeOK, Untouched
<1>3. ASSUME crowded' = "no" PROVE Quiet'
  <2>c. crowded = "no" /\ Quiet BY <1>3 DEF TypeOK
  <2> USE <2>c DEF Quiet
  <2>1. OneChanger'
    BY <1>3 DEF TypeOK, OneChanger, InlineApart, Checked, Extraction, Installation,
             HasRequirements
  <2>2. Extraction'
    BY <1>3 DEF TypeOK, OneChanger, Extraction, InlineApart, Checked
  <2>3. Installation'
    <3>1. \A q \in Runners : pc'[q] \in Installing => HasRequirements /\ Installed \notin deps'
      BY DEF TypeOK, Installation, None
    <3>2. \A q \in Runners : pc'[q] = "install" /\ pip'[q] \in {"running", "ok"} =>
                            Packages \subseteq deps' \cup left'[q]
      BY DEF TypeOK, Installation, None
    <3>3. \A q \in Runners : pip'[q] = "ok" => left'[q] = {}
      BY DEF TypeOK, Installation, None
    <3> QED BY <3>1, <3>2, <3>3 DEF Installation, HasRequirements
  <2>4. Ready'
    BY <1>3 DEF TypeOK, OneChanger, Installation, Ready, HasRequirements
  <2>5. Truth'
    BY <1>3 DEF TypeOK, Truth, SourceComplete, DepsComplete, OneChanger, Extraction,
             Installation
  <2> QED BY <2>1, <2>2, <2>3, <2>4, <2>5
<1> QED BY <1>1, <1>2, <1>3, <1>4

LEMMA PipInstallsKeeps ==
  ASSUME Inv, NEW r \in Runners, NEW p \in Packages, PipInstalls(r, p)
  PROVE  Inv'
<1> USE RunnerAssumption DEF Inv, PipInstalls,
        Goes, Alive, Steps, Preparing, Executing, Extracting, Installing, cache, installer
<1>1. TypeOK' BY DEF TypeOK
<1>2. InlineApart' /\ Checked' BY DEF TypeOK, InlineApart, Checked
<1>4. Untouched' BY DEF TypeOK, Untouched
<1>3. ASSUME crowded' = "no" PROVE Quiet'
  <2>c. crowded = "no" /\ Quiet BY <1>3 DEF TypeOK
  <2> USE <2>c DEF Quiet
  <2>1. OneChanger'
    BY <1>3 DEF TypeOK, OneChanger, InlineApart, Checked, Extraction, Installation,
             HasRequirements
  <2>2. Extraction'
    BY <1>3 DEF TypeOK, OneChanger, Extraction, InlineApart, Checked
  <2>3. Installation'
    BY <1>3 DEF TypeOK, OneChanger, Installation, Checked, HasRequirements, InlineApart,
             Truth, SourceComplete
  <2>4. Ready'
    BY <1>3 DEF TypeOK, OneChanger, Installation, Ready, HasRequirements
  <2>5. Truth'
    BY <1>3 DEF TypeOK, Truth, SourceComplete, DepsComplete, OneChanger, Extraction,
             Installation
  <2> QED BY <2>1, <2>2, <2>3, <2>4, <2>5
<1> QED BY <1>1, <1>2, <1>3, <1>4

LEMMA PipEndsKeeps ==
  ASSUME Inv, NEW r \in Runners, PipEnds(r)
  PROVE  Inv'
<1> USE RunnerAssumption DEF Inv, PipEnds,
        Goes, Alive, Steps, Preparing, Executing, Extracting, Installing, cache, installer
<1>1. TypeOK' BY DEF TypeOK
<1>2. InlineApart' /\ Checked' BY DEF TypeOK, InlineApart, Checked
<1>4. Untouched' BY DEF TypeOK, Untouched
<1>3. ASSUME crowded' = "no" PROVE Quiet'
  <2>c. crowded = "no" /\ Quiet BY <1>3 DEF TypeOK
  <2> USE <2>c DEF Quiet
  <2>1. OneChanger'
    BY <1>3 DEF TypeOK, OneChanger, InlineApart, Checked, Extraction, Installation,
             HasRequirements
  <2>2. Extraction'
    BY <1>3 DEF TypeOK, OneChanger, Extraction, InlineApart, Checked
  <2>3. Installation'
    BY <1>3 DEF TypeOK, OneChanger, Installation, Checked, HasRequirements, InlineApart,
             Truth, SourceComplete
  <2>4. Ready'
    BY <1>3 DEF TypeOK, OneChanger, Installation, Ready, HasRequirements
  <2>5. Truth'
    BY <1>3 DEF TypeOK, Truth, SourceComplete, DepsComplete, OneChanger, Extraction,
             Installation
  <2> QED BY <2>1, <2>2, <2>3, <2>4, <2>5
<1> QED BY <1>1, <1>2, <1>3, <1>4

LEMMA RestartKeeps ==
  ASSUME Inv, Restart
  PROVE  Inv'
<1> USE RunnerAssumption DEF Inv, Restart,
        Goes, Alive, Steps, Preparing, Executing, Extracting, Installing, cache, installer
<1>1. TypeOK' BY DEF TypeOK
<1>2. InlineApart' /\ Checked' BY DEF TypeOK, InlineApart, Checked
<1>4. Untouched' BY DEF TypeOK, Untouched
<1>3. ASSUME crowded' = "no" PROVE Quiet'
  <2>c. crowded = "no" /\ Quiet BY <1>3 DEF TypeOK
  <2> USE <2>c DEF Quiet
  <2>1. OneChanger'
    BY <1>3 DEF TypeOK, OneChanger, InlineApart, Checked, Extraction, Installation,
             HasRequirements
  <2>2. Extraction'
    BY <1>3 DEF TypeOK, OneChanger, Extraction, InlineApart, Checked
  <2>3. Installation'
    <3>1. \A q \in Runners : pc'[q] \in Installing => HasRequirements /\ Installed \notin deps'
      BY DEF TypeOK, Installation, None
    <3>2. \A q \in Runners : pc'[q] = "install" /\ pip'[q] \in {"running", "ok"} =>
                            Packages \subseteq deps' \cup left'[q]
      BY DEF TypeOK, Installation, None
    <3>3. \A q \in Runners : pip'[q] = "ok" => left'[q] = {}
      BY DEF TypeOK, Installation, None
    <3> QED BY <3>1, <3>2, <3>3 DEF Installation, HasRequirements
  <2>4. Ready'
    BY <1>3 DEF TypeOK, OneChanger, Installation, Ready, HasRequirements
  <2>5. Truth'
    BY <1>3 DEF TypeOK, Truth, SourceComplete, DepsComplete, OneChanger, Extraction,
             Installation
  <2> QED BY <2>1, <2>2, <2>3, <2>4, <2>5
<1> QED BY <1>1, <1>2, <1>3, <1>4

LEMMA InvStep == Inv /\ [Next]_vars => Inv'
<1> SUFFICES ASSUME Inv, [Next]_vars PROVE Inv' OBVIOUS
<1>1. CASE Restart BY <1>1, RestartKeeps
<1>2. ASSUME NEW r \in Runners,
             \/ Start(r) \/ Load(r) \/ HandlerEnds(r) \/ Kill(r)
             \/ RemoveRaises(r) \/ PreparationRaises(r)
      PROVE  Inv'
  <2>1. PICK to \in {"check", "exit_0", "exit_1", "killed"} \cup Executing :
          /\ Goes(r, to) /\ UNCHANGED <<todo, open, cache, installer, crowded>>
          /\ to = "check" => r \notin Inline /\ pc[r] = "idle"
          /\ to \in Executing => r \in Inline \/ pc[r] \in Executing
    BY <1>2 DEF Start, Load, HandlerEnds, Kill, RemoveRaises, PreparationRaises, Fails,
                Goes, Executing
  <2> QED BY <2>1, MovesKeeps
<1>3. ASSUME NEW r \in Runners,
             \/ CheckExtracted(r) \/ Download(r) \/ MarkExtracted(r)
             \/ \E m \in Members : OpenMember(r, m) \/ WriteMember(r, m)
      PROVE  Inv'
  BY <1>3, CheckExtractedKeeps, DownloadKeeps, MarkExtractedKeeps, OpenMemberKeeps,
     WriteMemberKeeps
<1>4. ASSUME NEW r \in Runners,
             \/ CheckInstalled(r) \/ List(r) \/ StartPip(r)
             \/ \E x \in Packages \cup {Installed} : Remove(r, x)
             \/ MarkInstalled(r) \/ InstallFails(r)
      PROVE  Inv'
  BY <1>4, CheckInstalledKeeps, ListKeeps, StartPipKeeps, RemoveKeeps, MarkInstalledKeeps,
     InstallFailsKeeps
<1>5. ASSUME NEW r \in Runners, PipEnds(r) \/ \E p \in Packages : PipInstalls(r, p)
      PROVE  Inv'
  BY <1>5, PipEndsKeeps, PipInstallsKeeps
<1> QED BY <1>1, <1>2, <1>3, <1>4, <1>5, InvUnmoved DEF Next

THEOREM Invariance == Spec => []Inv
BY InvInit, InvStep, PTL DEF Spec

\* Kills, failures and left-over pips never make a marker lie: for any number of
\* runners, and any archive and requirements.
THEOREM TruthOfMarkers == Spec => []MarkersTellTheTruth
<1>1. Inv => MarkersTellTheTruth BY DEF Inv, Quiet, Truth, MarkersTellTheTruth
<1> QED BY <1>1, Invariance, PTL

\* A runner that executes has everything before it.
THEOREM HandlersFind == Spec => []HandlersFindAll
<1>1. Inv => HandlersFindAll
  BY DEF Inv, Quiet, Truth, Ready, Checked, HandlersFindAll, DepsComplete
<1> QED BY <1>1, Invariance, PTL

\* No step makes a warm cache cold, not even when runners have crowded it before.
THEOREM WarmForGood == Spec => WarmStaysWarm
<1>1. Inv /\ [Next]_vars => (Warm => Warm')
  <2> SUFFICES ASSUME Inv, Next, Warm PROVE Warm'
    BY DEF Warm, SourceComplete, vars, cache, installer
  <2> USE DEF Warm, Inv, TypeOK, Goes
  <2>1. CASE Restart BY <2>1 DEF Restart, Alive, SourceComplete, cache
  <2>2. ASSUME NEW r \in Runners,
               \/ Start(r) \/ Load(r) \/ HandlerEnds(r) \/ Kill(r)
               \/ RemoveRaises(r) \/ PreparationRaises(r)
               \/ CheckExtracted(r) \/ CheckInstalled(r) \/ PipEnds(r)
        PROVE  Warm'
    BY <2>2 DEF Start, Load, HandlerEnds, Kill, RemoveRaises, PreparationRaises, Fails,
                CheckExtracted, CheckInstalled, PipEnds, SourceComplete, cache
  <2>3. ASSUME NEW r \in Runners, NEW p \in Packages, PipInstalls(r, p) PROVE Warm'
    BY <2>3 DEF PipInstalls, SourceComplete
  <2> QED BY <2>1, <2>2, <2>3
        DEF Next, Download, MarkExtracted, OpenMember, WriteMember, List, StartPip, Remove,
            MarkInstalled, InstallFails
<1> QED BY <1>1, Invariance, PTL DEF Spec, WarmStaysWarm

=============================================================================
