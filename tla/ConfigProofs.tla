----------------------------- MODULE ConfigProofs -----------------------------
(***************************************************************************)
(* Proofs about the configuration store, for every number of groups, every *)
(* size of a page, every set of firmwares and any number of attempts.  The *)
(* argument turns on the last word: it comes from a save that is still a   *)
(* candidate, and with an ideal checksum a content that passes is then the *)
(* whole image of that save.                                               *)
(***************************************************************************)
EXTENDS ConfigStore, TLAPS

(* The last word is none, or that of a candidate. *)
TailOK == flash[Last] \in {Erased, Garbled} \cup {image[Last] : image \in candidates}

(* The target of the save that is under way is a candidate. *)
TargetOK ==
    /\ pc \in {"write", "program", "dead"} => target \in candidates
    /\ pc \notin {"write", "program", "dead"} => target = Lost

(* When every word has been written the last one is that of the target. *)
WrittenOK ==
    /\ pc = "program" => at <= Last /\ ~err
    /\ pc = "write" /\ ~err /\ at > Last => flash[Last] \in {target[Last], Garbled}

IInv == ConfigTypeOK /\ TailOK /\ TargetOK /\ WrittenOK /\ SaveIsDurable

(* Place 0, the footer and the checksum are places of their own. *)
LEMMA PlaceFacts ==
    /\ NumGroups \in Nat /\ Footer \in Nat /\ Last \in Nat /\ Footer = Last - 1
    /\ 0 \in Places /\ Last \in Places /\ 0 # Last /\ 0 # Footer
    /\ Groups \subseteq Places /\ \A g \in Groups : g # 0 /\ g # Footer /\ g # Last
    /\ \A i \in Places : i # Last => i \in 0 .. Footer
    /\ 0 .. Footer \subseteq Places
BY ConfigAssumption DEF ConfigAssumption, Footer, Last, Places, Groups

LEMMA ImageFacts ==
    ASSUME NEW f \in Firmwares, NEW config \in [Groups -> Values]
    PROVE  /\ Image(f, config) \in Images
           /\ Image(f, config) \in [Places -> Words]
           /\ Image(f, config)[Last] = Checksum(Body(f, config))
           /\ \A i \in 0 .. Footer : Image(f, config)[i] = Body(f, config)[i]
<1>1. Image(f, config) \in Images
  BY DEF Images
<1>2. DOMAIN Image(f, config) = Places
     /\ Image(f, config) = [i \in Places |-> Image(f, config)[i]]
  BY DEF Image
<1>3. \A i \in Places : Image(f, config)[i] \in Words
  BY <1>1 DEF Words
<1>4. Image(f, config) \in [Places -> Words]
  BY <1>2, <1>3
<1>5. /\ Image(f, config)[Last] = Checksum(Body(f, config))
      /\ \A i \in 0 .. Footer : i # Last
  BY PlaceFacts DEF Image
<1>6. \A i \in 0 .. Footer : Image(f, config)[i] = Body(f, config)[i]
  BY <1>5, PlaceFacts DEF Image
<1> QED
  BY <1>1, <1>4, <1>5, <1>6

(* A content that passes and ends in the last word of an image is that image. *)
LEMMA WholeIsImage ==
    ASSUME NEW words \in [Places -> Words], NEW image \in Images,
           Whole(words), words[Last] = image[Last]
    PROVE  words = image
<1>1. PICK f \in Firmwares, config \in [Groups -> Values] : image = Image(f, config)
  BY DEF Images
<1>2. Checksum(words) = Checksum(Body(f, config))
  BY <1>1, ImageFacts DEF Whole
<1>3. [i \in 0 .. Footer |-> words[i]] = [i \in 0 .. Footer |-> Body(f, config)[i]]
  BY <1>2 DEF Checksum
<1>4. \A i \in 0 .. Footer : words[i] = Body(f, config)[i]
  BY <1>3
<1>5. image \in [Places -> Words] /\ \A i \in 0 .. Footer : image[i] = Body(f, config)[i]
  BY <1>1, ImageFacts
<1>6. \A i \in Places : words[i] = image[i]
  BY <1>4, <1>5, PlaceFacts
<1> QED
  BY <1>5, <1>6

(* Erased and garbled words are not checksums, and no image is Lost. *)
LEMMA Distinct ==
    /\ \A words \in [Places -> Words] :
          Whole(words) => words[Last] # Erased /\ words[Last] # Garbled
    /\ Lost \notin Images
<1>1. ASSUME NEW words \in [Places -> Words], Whole(words)
      PROVE  words[Last] # Erased /\ words[Last] # Garbled
  <2>1. words[Last][1] = "crc"
    BY <1>1 DEF Whole, Checksum
  <2> QED
    BY <2>1 DEF Erased, Garbled
<1>2. ASSUME NEW image \in Images
      PROVE  image # Lost
  <2>1. 0 \in DOMAIN image
    BY <1>2, PlaceFacts DEF Images, Image
  <2> QED
    BY <2>1 DEF Lost
<1> QED
  BY <1>1, <1>2

(* A record carries a setting. *)
LEMMA RecordFacts ==
    ASSUME NEW word \in Words, word[1] = "record"
    PROVE  word[4] \in Values
<1>1. PICK image \in Images, i \in Places : word = image[i]
  BY DEF Words, Erased, Garbled
<1>2. PICK f \in Firmwares, config \in [Groups -> Values] : image = Image(f, config)
  BY DEF Images
<1>3. i # Last
  <2>1. SUFFICES ASSUME i = Last PROVE FALSE
    OBVIOUS
  <2>2. word = <<"crc", [j \in 0 .. Footer |-> Body(f, config)[j]]>>
    BY <1>1, <1>2, <2>1, ImageFacts DEF Checksum
  <2>3. word[1] = "crc"
    BY <2>2
  <2> QED
    BY <2>3
<1>4. i \in 0 .. Footer /\ word = Body(f, config)[i]
  BY <1>1, <1>2, <1>3, ImageFacts, PlaceFacts
<1>5. i # 0 /\ i # Footer
  BY <1>4 DEF Body
<1>6. i \in Groups
  BY <1>4, <1>5, PlaceFacts DEF Groups, Footer
<1>7. word = <<"record", i, f.version[i], config[i]>>
  BY <1>4, <1>5 DEF Body
<1> QED
  BY <1>6, <1>7

(* A content that passes and ends in none, or in the last word of a candidate,
   is one of the candidates.                                               *)
LEMMA WholeIsOneOf ==
    ASSUME NEW words \in [Places -> Words], NEW images, images \subseteq Images,
           words[Last] \in {Erased, Garbled} \cup {image[Last] : image \in images},
           Whole(words)
    PROVE  words \in images
<1>1. PICK image \in images : words[Last] = image[Last]
  BY Distinct
<1> QED
  BY <1>1, WholeIsImage

LEMMA WholeIsCandidate ==
    ASSUME IInv, Whole(flash)
    PROVE  flash \in candidates
BY WholeIsOneOf DEF IInv, ConfigTypeOK, TailOK

(* The type invariant but for the numbers of the streamer. *)
DataOK ==
    /\ flash \in [Places -> Words] /\ settings \in [Groups -> Values] /\ firmware \in Firmwares
    /\ pc \in {"boot", "write", "program", "read", "idle", "dead"} /\ after \in {"read", "idle"}
    /\ err \in BOOLEAN /\ target \in Images \cup {Lost} /\ candidates \subseteq Images
CountOK == at \in 0 .. Last + 1 /\ attempt \in 1 .. Attempts /\ installs \in 0 .. MaxInstalls

LEMMA TypeParts ==
    /\ ConfigTypeOK <=> DataOK /\ CountOK
    /\ ConfigTypeOK' <=> DataOK' /\ CountOK'
BY DEF ConfigTypeOK, DataOK, CountOK

(* The next word, the attempt and the installations start at values in range. *)
LEMMA StartFacts == 0 \in 0 .. Last + 1 /\ 1 \in 1 .. Attempts /\ 0 \in 0 .. MaxInstalls
BY PlaceFacts, ConfigAssumption DEF ConfigAssumption

LEMMA InitIInv == Init => IInv
<1> SUFFICES ASSUME Init PROVE IInv
  OBVIOUS
<1> USE DEF Init
<1>1. ConfigTypeOK
  <2>1. CountOK
    BY StartFacts DEF CountOK
  <2>2. Erased \in Words
    BY DEF Words
  <2>3. DataOK
    BY <2>2, ConfigAssumption DEF DataOK, ConfigAssumption, Defaults
  <2> QED
    BY <2>1, <2>3, TypeParts
<1>2. TailOK
  BY PlaceFacts DEF TailOK
<1>3. TargetOK /\ WrittenOK /\ SaveIsDurable
  BY DEF TargetOK, WrittenOK, SaveIsDurable
<1> QED
  BY <1>1, <1>2, <1>3 DEF IInv

(* A save begins with a target that is an image, and a candidate. *)
LEMMA BeginStep ==
    ASSUME IInv, settings' \in [Groups -> Values], NEW next \in {"idle", "read"}, BeginSave(next)
    PROVE  IInv'
<1> USE DEF BeginSave
<1>1. target' \in Images
  BY ImageFacts DEF IInv, ConfigTypeOK
<1>2. ConfigTypeOK'
  <2>1. CountOK'
    BY StartFacts DEF IInv, ConfigTypeOK, CountOK
  <2>2. DataOK'
    BY <1>1 DEF IInv, ConfigTypeOK, DataOK
  <2> QED
    BY <2>1, <2>2, TypeParts
<1>3. TailOK'
  BY DEF IInv, TailOK
<1>4. TargetOK' /\ WrittenOK' /\ SaveIsDurable'
  BY PlaceFacts DEF TargetOK, WrittenOK, SaveIsDurable
<1> QED
  BY <1>2, <1>3, <1>4 DEF IInv

LEMMA BootStep == ASSUME IInv, Boot PROVE IInv'
<1>1. CASE isEEPROMContentValid
  <2> USE <1>1 DEF Boot
  <2>1. UNCHANGED <<flash, settings, firmware, installs, after, at, err, attempt, target, candidates>>
        /\ pc = "boot" /\ pc' = "read"
    OBVIOUS
  <2>2. Whole(flash)'
    BY <2>1 DEF isEEPROMContentValid, Whole, ScanEnds, Checksum
  <2>3. ConfigTypeOK' /\ TailOK'
    BY <2>1 DEF IInv, ConfigTypeOK, TailOK
  <2>4. TargetOK' /\ WrittenOK' /\ SaveIsDurable'
    BY <2>1, <2>2 DEF IInv, TargetOK, WrittenOK, SaveIsDurable
  <2> QED
    BY <2>3, <2>4 DEF IInv
<1>2. CASE ~isEEPROMContentValid
  <2>1. settings' \in [Groups -> Values]
    BY <1>2, ConfigAssumption DEF Boot, Defaults, ConfigAssumption
  <2> QED
    BY <1>2, <2>1, BeginStep DEF Boot
<1> QED
  BY <1>1, <1>2

(* What is loaded is made of settings. *)
LEMMA LoadedFacts ==
    ASSUME NEW words \in [Places -> Words]
    PROVE  Loaded(words) \in [Groups -> Values]
<1>1. ASSUME NEW g \in Groups, words[g][1] = "record"
      PROVE  Fixed(words[g][4]) \in Values
  <2>1. words[g] \in Words
    BY PlaceFacts
  <2>2. words[g][4] \in Values
    BY <1>1, <2>1, RecordFacts
  <2> QED
    BY <2>2, ConfigAssumption DEF Fixed, ConfigAssumption
<1> QED
  BY <1>1, ConfigAssumption DEF Loaded, ConfigAssumption

LEMMA ReadStep == ASSUME IInv, ReadEEPROM PROVE IInv'
<1> USE DEF ReadEEPROM
<1>1. Whole(flash) /\ flash \in [Places -> Words] /\ flash \in Images
  BY WholeIsCandidate DEF IInv, SaveIsDurable, ConfigTypeOK
<1>2. settings' \in [Groups -> Values]
  BY <1>1, LoadedFacts
<1>3. ConfigTypeOK'
  BY <1>1, <1>2 DEF IInv, ConfigTypeOK
<1>4. TailOK'
  BY <1>1 DEF TailOK
<1>5. TargetOK' /\ WrittenOK'
  BY DEF IInv, TargetOK, WrittenOK
<1>6. SaveIsDurable'
  BY <1>1 DEF SaveIsDurable, Whole, ScanEnds, Checksum
<1> QED
  BY <1>3, <1>4, <1>5, <1>6 DEF IInv

LEMMA ChangeStep == ASSUME IInv, Change PROVE IInv'
<1> USE DEF Change
<1>1. ConfigTypeOK'
  BY DEF IInv, ConfigTypeOK
<1>2. TailOK' /\ TargetOK' /\ WrittenOK'
  BY DEF IInv, TailOK, TargetOK, WrittenOK
<1>3. SaveIsDurable'
  BY DEF IInv, SaveIsDurable, Whole, ScanEnds, Checksum
<1> QED
  BY <1>1, <1>2, <1>3 DEF IInv

LEMMA SaveStep == ASSUME IInv, Save PROVE IInv'
<1>1. settings' \in [Groups -> Values]
  BY ConfigAssumption DEF Save, IInv, ConfigTypeOK, Defaults, ConfigAssumption
<1> QED
  BY <1>1, BeginStep DEF Save

(* Erasing a page puts no checksum into the flash. *)
LEMMA EraseStep == ASSUME IInv, EraseSector PROVE IInv'
<1> USE DEF EraseSector
<1>1. flash' \in {flash, Wiped(Erased), Wiped(Garbled)}
  OBVIOUS
<1>2. /\ flash' \in [Places -> Words]
      /\ flash'[Last] \in {flash[Last], Erased, Garbled}
  BY <1>1, PlaceFacts DEF IInv, ConfigTypeOK, Wiped, Words
<1>3. ConfigTypeOK'
  BY <1>2 DEF IInv, ConfigTypeOK
<1>4. TailOK'
  BY <1>2 DEF IInv, TailOK
<1>5. TargetOK' /\ WrittenOK' /\ SaveIsDurable'
  BY DEF IInv, TargetOK, WrittenOK, SaveIsDurable
<1> QED
  BY <1>3, <1>4, <1>5 DEF IInv

(* Programming the last word puts there that of the target, a candidate. *)
LEMMA ProgramStep == ASSUME IInv, ProgramWord PROVE IInv'
<1> USE DEF ProgramWord
<1>1. /\ target \in candidates /\ target \in Images /\ target \in [Places -> Words]
      /\ at \in Places /\ at <= Last /\ ~err
  <2>1. target \in candidates /\ target \in Images
    BY DEF IInv, TargetOK, ConfigTypeOK
  <2>2. target \in [Places -> Words]
    BY <2>1, ImageFacts DEF Images
  <2>3. at <= Last /\ ~err
    BY DEF IInv, WrittenOK
  <2>4. at \in Places
    BY <2>3, PlaceFacts DEF IInv, ConfigTypeOK, Places
  <2> QED
    BY <2>1, <2>2, <2>3, <2>4
<1>2. PICK word \in {target[at], Garbled} : flash' = Programmed(word)
  OBVIOUS
<1>3. word \in Words
  BY <1>1, <1>2 DEF Words
<1>4. /\ flash' \in [Places -> Words]
      /\ flash'[Last] \in {IF at = Last THEN target[Last] ELSE flash[Last], Garbled}
  BY <1>1, <1>2, <1>3, PlaceFacts DEF IInv, ConfigTypeOK, Programmed, Words
<1>5. ConfigTypeOK'
  <2>1. CountOK'
    BY <1>1, PlaceFacts DEF IInv, ConfigTypeOK, CountOK, Places
  <2>2. DataOK'
    BY <1>4 DEF IInv, ConfigTypeOK, DataOK
  <2> QED
    BY <2>1, <2>2, TypeParts
<1>6. TailOK'
  BY <1>1, <1>4 DEF IInv, TailOK
<1>7. TargetOK' /\ SaveIsDurable'
  BY DEF IInv, TargetOK, SaveIsDurable
<1>8. WrittenOK'
  BY <1>1, <1>4, PlaceFacts DEF WrittenOK, Places
<1> QED
  BY <1>5, <1>6, <1>7, <1>8 DEF IInv

(* A save that returns has its target in the flash. *)
LEMMA Delivered ==
    ASSUME IInv, pc = "write", at > Last, Succeeded
    PROVE  flash = target
<1>1. Whole(flash) /\ flash \in [Places -> Words] /\ target \in Images
  BY DEF IInv, TargetOK, ConfigTypeOK, Succeeded, isEEPROMContentValid
<1>2. flash[Last] = target[Last]
  BY <1>1, Distinct DEF IInv, WrittenOK, Succeeded
<1> QED
  BY <1>1, <1>2, WholeIsImage

LEMMA FinishStep == ASSUME IInv, FinishAttempt PROVE IInv'
<1> USE DEF FinishAttempt, MayRetry, Counted
<1>1. CASE Succeeded /\ pc' = after
  <2>1. flash = target /\ target \in Images /\ Whole(flash)
    BY <1>1, Delivered DEF IInv, TargetOK, ConfigTypeOK, Succeeded, isEEPROMContentValid
  <2>2. /\ pc' = after /\ after' = "read" /\ attempt' = 1 /\ at' = 0 /\ err' = FALSE
        /\ candidates' = {target} /\ target' = Lost
        /\ UNCHANGED <<flash, settings, firmware, installs>>
    BY <1>1 DEF IInv, ConfigTypeOK, Succeeded
  <2>3. ConfigTypeOK'
    <3>1. CountOK'
      BY <2>2, StartFacts DEF IInv, ConfigTypeOK, CountOK
    <3>2. DataOK'
      BY <2>1, <2>2 DEF IInv, ConfigTypeOK, DataOK
    <3> QED
      BY <3>1, <3>2, TypeParts
  <2>4. TailOK'
    BY <2>1, <2>2 DEF TailOK
  <2>5. TargetOK' /\ WrittenOK'
    BY <2>2 DEF IInv, ConfigTypeOK, TargetOK, WrittenOK
  <2>6. SaveIsDurable'
    BY <2>1, <2>2 DEF SaveIsDurable, Whole, ScanEnds, Checksum
  <2> QED
    BY <2>3, <2>4, <2>5, <2>6 DEF IInv
<1>2. CASE MayRetry /\ Counted /\ UNCHANGED <<pc, after, target, candidates>>
  <2>1. ConfigTypeOK'
    <3>1. CountOK'
      BY <1>2, StartFacts, ConfigAssumption DEF IInv, ConfigTypeOK, CountOK, ConfigAssumption
    <3>2. DataOK'
      BY <1>2 DEF IInv, ConfigTypeOK, DataOK
    <3> QED
      BY <3>1, <3>2, TypeParts
  <2>2. TailOK'
    BY <1>2 DEF IInv, TailOK
  <2>3. TargetOK' /\ WrittenOK' /\ SaveIsDurable'
    BY <1>2, PlaceFacts DEF IInv, TargetOK, WrittenOK, SaveIsDurable
  <2> QED
    BY <2>1, <2>2, <2>3 DEF IInv
<1>3. CASE pc' = "dead" /\ UNCHANGED <<after, attempt, target, candidates>>
  <2>1. ConfigTypeOK'
    <3>1. CountOK'
      BY <1>3, StartFacts DEF IInv, ConfigTypeOK, CountOK
    <3>2. DataOK'
      BY <1>3 DEF IInv, ConfigTypeOK, DataOK
    <3> QED
      BY <3>1, <3>2, TypeParts
  <2>2. TailOK'
    BY <1>3 DEF IInv, TailOK
  <2>3. TargetOK' /\ WrittenOK' /\ SaveIsDurable'
    BY <1>3 DEF IInv, TargetOK, WrittenOK, SaveIsDurable
  <2> QED
    BY <2>1, <2>2, <2>3 DEF IInv
<1> QED
  BY <1>1, <1>2, <1>3

LEMMA PowerStep == ASSUME IInv, PowerCycle PROVE IInv'
<1> USE DEF PowerCycle
<1>1. ConfigTypeOK'
  <2>1. CountOK'
    BY StartFacts, ConfigAssumption DEF IInv, ConfigTypeOK, CountOK, ConfigAssumption
  <2>2. DataOK'
    BY ConfigAssumption DEF IInv, ConfigTypeOK, DataOK, ConfigAssumption, Defaults
  <2> QED
    BY <2>1, <2>2, TypeParts
<1>2. TailOK'
  BY DEF IInv, TailOK
<1>3. TargetOK' /\ WrittenOK' /\ SaveIsDurable'
  BY DEF TargetOK, WrittenOK, SaveIsDurable
<1> QED
  BY <1>1, <1>2, <1>3 DEF IInv

LEMMA StutterStep == ASSUME IInv, UNCHANGED vars PROVE IInv'
<1> USE DEF vars
<1>1. ConfigTypeOK' /\ TailOK' /\ TargetOK' /\ WrittenOK'
  BY DEF IInv, ConfigTypeOK, TailOK, TargetOK, WrittenOK
<1>2. SaveIsDurable'
  BY DEF IInv, SaveIsDurable, Whole, ScanEnds, Checksum
<1> QED
  BY <1>1, <1>2 DEF IInv

LEMMA IInvHolds == Spec => []IInv
<1>1. ASSUME IInv, [Next]_vars PROVE IInv'
  BY <1>1, BootStep, ReadStep, ChangeStep, SaveStep, EraseStep, ProgramStep, FinishStep, PowerStep,
     StutterStep DEF Next, Write
<1> QED
  BY <1>1, InitIInv, PTL DEF Spec

(* The store keeps its types: the flash holds words of images, erased and
   garbled words, and RAM settings.                                        *)
THEOREM TypeCorrect == Spec => []ConfigTypeOK
BY IInvHolds, PTL DEF IInv

(* A save that has returned is in the flash as a whole, and stays there until
   the next one begins.                                                    *)
THEOREM Durable == Spec => []SaveIsDurable
BY IInvHolds, PTL DEF IInv

(* A boot loads the configuration of the last finished save or of one begun
   since, as a whole.                                                      *)
THEOREM LoadsWhole == Spec => LoadIsWhole
<1>1. ASSUME IInv, [Next]_vars, pc = "read", pc' = "idle"
      PROVE  \E words \in candidates : settings' = Loaded(words)
  <2>1. ReadEEPROM
    BY <1>1 DEF Next, Write, Boot, Change, Save, EraseSector, ProgramWord, FinishAttempt,
       PowerCycle, vars
  <2>2. flash \in candidates
    BY <1>1, <2>1, WholeIsCandidate DEF IInv, SaveIsDurable, ReadEEPROM
  <2> QED
    BY <2>1, <2>2 DEF ReadEEPROM
<1> QED
  BY <1>1, IInvHolds, PTL DEF Spec, LoadIsWhole

(* What is stored is a candidate, or lost, and changes only with the flash. *)
LEMMA StoredFacts ==
    /\ IInv => Stored \in candidates \cup {Lost}
    /\ IInv' => Stored' \in candidates' \cup {Lost}
    /\ UNCHANGED flash => UNCHANGED Stored
<1>1. IInv => Stored \in candidates \cup {Lost}
  BY WholeIsCandidate DEF Stored
<1>2. IInv' => Stored' \in candidates' \cup {Lost}
  <2>1. ASSUME IInv', Whole(flash') PROVE flash' \in candidates'
    BY <2>1, WholeIsOneOf DEF IInv, ConfigTypeOK, TailOK
  <2> QED
    BY <2>1 DEF Stored, Whole, ScanEnds, Checksum
<1>3. UNCHANGED flash => UNCHANGED Stored
  BY DEF Stored, Whole, ScanEnds, Checksum
<1> QED
  BY <1>1, <1>2, <1>3

LEMMA RegisterInit == Init => Register!Init
<1> SUFFICES ASSUME Init PROVE Register!Init
  OBVIOUS
<1>1. flash[0] = Erased /\ Erased[1] # "header"
  BY PlaceFacts DEF Init, Erased
<1>2. ~Whole(flash)
  BY <1>1 DEF Whole, ScanEnds
<1> QED
  BY <1>2 DEF Init, Stored, Saving, Register!Init

(* The beginning of a save is that of the register. *)
LEMMA BeginMaps ==
    ASSUME IInv, IInv', pc \in {"boot", "idle"}, NEW next \in {"idle", "read"}, BeginSave(next)
    PROVE  Register!Begin
<1>1. Saving = Lost /\ Saving' = target'
  BY DEF Saving, BeginSave
<1>2. target' \in Images
  BY DEF BeginSave, IInv, TargetOK, ConfigTypeOK
<1>3. UNCHANGED Stored
  BY StoredFacts DEF BeginSave
<1> QED
  BY <1>1, <1>2, <1>3 DEF BeginSave, Register!Begin

(* Steps that write to the flash in a save store a candidate, or lose it. *)
LEMMA StoreMaps ==
    ASSUME IInv, IInv', EraseSector \/ ProgramWord
    PROVE  Register!Store
<1>1. /\ pc \in {"write", "program"} /\ pc' \in {"write", "program"}
      /\ UNCHANGED <<target, candidates>>
  BY DEF EraseSector, ProgramWord
<1>2. Saving = target /\ Saving' = target
  BY <1>1 DEF Saving
<1>3. target # Lost
  BY <1>1, Distinct DEF IInv, TargetOK, ConfigTypeOK
<1>4. Stored' \in candidates \cup {Lost}
  BY <1>1, StoredFacts
<1> QED
  BY <1>1, <1>2, <1>3, <1>4 DEF Register!Store

LEMMA FinishMaps ==
    ASSUME IInv, IInv', FinishAttempt
    PROVE  [Register!Next]_(Register!vars)
<1>1. pc = "write" /\ Saving = target /\ target # Lost /\ UNCHANGED Stored
  BY StoredFacts, Distinct DEF FinishAttempt, Saving, IInv, TargetOK, ConfigTypeOK
<1>2. CASE Succeeded /\ pc' = after /\ candidates' = {target} /\ target' = Lost
  <2>1. flash = target /\ Whole(flash)
    BY <1>2, Delivered DEF FinishAttempt, Succeeded, isEEPROMContentValid
  <2>2. Stored = target
    BY <2>1 DEF Stored
  <2>3. Saving' = Lost
    BY <1>2 DEF Saving, IInv, ConfigTypeOK
  <2> QED
    BY <1>1, <1>2, <2>2, <2>3 DEF Register!Next, Register!End
<1>3. CASE pc' \in {pc, "dead"} /\ UNCHANGED <<target, candidates>>
  <2>1. Saving' = target
    BY <1>1, <1>3 DEF Saving
  <2> QED
    BY <1>1, <1>3, <2>1 DEF Register!vars
<1> QED
  BY <1>2, <1>3 DEF FinishAttempt

(* Every step of the store is a step of the register or a stutter. *)
LEMMA RegisterStep ==
    ASSUME IInv, IInv', [Next]_vars
    PROVE  [Register!Next]_(Register!vars)
<1>1. CASE Boot
  <2>1. CASE isEEPROMContentValid
    <3>1. pc = "boot" /\ pc' = "read" /\ UNCHANGED <<flash, target, candidates>>
      BY <1>1, <2>1 DEF Boot
    <3> QED
      BY <3>1, StoredFacts DEF Saving, Register!vars
  <2>2. CASE ~isEEPROMContentValid
    BY <1>1, <2>2, BeginMaps DEF Boot, Register!Next
  <2> QED
    BY <2>1, <2>2
<1>2. CASE ReadEEPROM
  <2>1. /\ pc = "read" /\ pc' = "idle" /\ candidates' = {flash} /\ Whole(flash)
        /\ UNCHANGED flash
    BY <1>2 DEF ReadEEPROM, IInv, SaveIsDurable
  <2>2. Stored = flash /\ Stored' = flash /\ Saving = Lost /\ Saving' = Lost
    BY <2>1, StoredFacts DEF Stored, Saving
  <2>3. Stored # Lost
    BY <2>2, StoredFacts, Distinct, <2>1, WholeIsCandidate DEF IInv, ConfigTypeOK
  <2> QED
    BY <2>1, <2>2, <2>3 DEF Register!Next, Register!Load
<1>3. CASE Change \/ UNCHANGED vars
  <2>1. UNCHANGED <<flash, pc, target, candidates>>
    BY <1>3 DEF Change, vars
  <2> QED
    BY <2>1, StoredFacts DEF Saving, Register!vars
<1>4. CASE Save
  BY <1>4, BeginMaps DEF Save, Register!Next
<1>5. CASE EraseSector \/ ProgramWord
  BY <1>5, StoreMaps DEF Register!Next
<1>6. CASE FinishAttempt
  BY <1>6, FinishMaps
<1>7. CASE PowerCycle
  <2>1. pc' = "boot" /\ UNCHANGED <<flash, candidates>>
    BY <1>7 DEF PowerCycle
  <2> QED
    BY <2>1, StoredFacts DEF Saving, Register!Next, Register!PowerCycle
<1> QED
  BY <1>1, <1>2, <1>3, <1>4, <1>5, <1>6, <1>7 DEF Next, Write

(* The store implements the register: what the flash holds as a whole changes
   only in a save, and only to what was saved or begun since.              *)
THEOREM ImplementsRegister == Spec => RegisterSpec
<1>1. Init => Register!Init
  BY RegisterInit
<1>2. IInv /\ IInv' /\ [Next]_vars => [Register!Next]_(Register!vars)
  BY RegisterStep
<1> QED
  BY <1>1, <1>2, IInvHolds, PTL DEF Spec, RegisterSpec, Register!Spec
===============================================================================
