------------------------ MODULE NodeCredentialProofs ------------------------
(***************************************************************************)
(* Proofs about NodeCredential for any passwords, writers and file sizes.  *)
(***************************************************************************)
EXTENDS NodeCredential, TLAPS

\* A configuration from which the next start shows the password p or none.
Shows(cfg, p) ==
  /\ cfg.password \in {None, p}
  /\ cfg.password_enc # None => ~cfg.password_enc.intact \/ cfg.password_enc.pw = p

\* What LastPasswordOrNone rests on: so do the file, and every configuration
\* loaded since the last CONNECT.
LastShown ==
  ~lapse =>
    /\ disk # None => Shows(disk.cfg, last)
    /\ \A w \in Writer :
         save[w] # None /\ ~save[w].written /\ ~save[w].old
           /\ save[w].kind # "connect" => Shows(save[w].cfg, last)

\* A CONNECT saves what was typed, and nothing when that was cleared.
ConnectsTyped ==
  \A w \in Writer : save[w] # None /\ save[w].kind = "connect" =>
    /\ save[w].cfg.password = save[w].typed
    /\ save[w].typed = None => save[w].cfg.password_enc = None

\* What ParsesAtRest rests on: a save alone is the only one writing, and what
\* it wrote is all there; while nothing is disturbed every save is alone.
AlonesWhole ==
  /\ \A w \in Writing :
       /\ disk # None
       /\ ~disturbed => save[w].alone
       /\ save[w].alone => /\ \A r \in Writing : r = w
                           /\ disk.whole /\ disk.size = save[w].size
  /\ disk # None /\ ~disturbed /\ Writing = {} => Parses(disk)

-------------------------------------------------------------------------------
LEMMA EnvelopeType ==
  ASSUME NEW p \in Password
  PROVE  Protect(p) \in Envelope
BY DEF Protect, Envelope

LEMMA DefaultType == Default \in Config
BY DEF Default, Config

\* Whatever is on the disk, a configuration is loaded.
LEMMA LoadType ==
  ASSUME TypeOK
  PROVE  LoadAppConfig(disk) \in Config
BY DefaultType DEF LoadAppConfig, TypeOK, Disk

LEMMA ProtectType ==
  ASSUME NEW cfg \in Config, NEW available \in BOOLEAN
  PROVE  /\ ProtectNodePassword(cfg, available) \in Config
         /\ ProtectNodePassword(cfg, available).password = None
<1>1. CASE cfg.password = None
  BY <1>1 DEF ProtectNodePassword
<1>2. CASE cfg.password # None
  <2>1. Protect(cfg.password) \in Envelope
    BY <1>2, EnvelopeType DEF Config
  <2> QED BY <1>2, <2>1 DEF ProtectNodePassword, Config
<1> QED BY <1>1, <1>2

\* What a load adds.
LEMMA BeginSave ==
  ASSUME TypeOK, NEW w \in Writer, NEW kind \in Kind, NEW cfg \in Config,
         NEW p \in Password \cup {None}, Begin(w, kind, cfg, p)
  PROVE  /\ save' \in [Writer -> Save \cup {None}]
         /\ save'[w] # None
         /\ save'[w].kind = kind /\ save'[w].cfg = cfg /\ save'[w].typed = p
         /\ ~save'[w].written
         /\ \A r \in Writer : r # w => save'[r] = save[r]
         /\ save[w] = None
         /\ UNCHANGED <<hosted, disk, last, lapse, written, disturbed>>
<1> DEFINE new == [kind |-> kind, cfg |-> cfg, written |-> FALSE, size |-> 1,
                   alone |-> FALSE, old |-> FALSE, typed |-> p]
<1>1. 1 \in 1 .. MaxSize
  BY ConstantsOK
<1>2. new \in Save
  BY <1>1 DEF Save
<1>3. /\ new # None /\ new.kind = kind /\ new.cfg = cfg /\ new.typed = p
      /\ ~new.written
  BY <1>2, ConstantsOK
<1> HIDE DEF new
<1>4. save' = [save EXCEPT ![w] = new]
  BY DEF Begin, new
<1>5. /\ save' \in [Writer -> Save \cup {None}]
      /\ save'[w] = new
      /\ \A r \in Writer : r # w => save'[r] = save[r]
  BY <1>2, <1>4 DEF TypeOK
<1> QED BY <1>3, <1>5 DEF Begin

\* Every load is one of these.
LEMMA LoadStep ==
  ASSUME TypeOK, NEW w \in Writer,
         Connect(w) \/ HandlerLoad(w) \/ SendLoad(w) \/ WorkerLoad(w)
  PROVE  \E kind \in Kind, cfg \in Config, p \in Password \cup {None} :
           /\ Begin(w, kind, cfg, p)
           /\ IF kind = "connect"
              THEN cfg.password = p /\ (p = None => cfg.password_enc = None)
              ELSE cfg = LoadAppConfig(disk)
<1>1. CASE Connect(w)
  <2>1. PICK p \in Password \cup {None} :
          Begin(w, "connect",
                [password |-> p,
                 password_enc |-> IF p = None THEN None
                                  ELSE LoadAppConfig(disk).password_enc], p)
    BY <1>1 DEF Connect
  <2>2. [password |-> p,
         password_enc |-> IF p = None THEN None
                          ELSE LoadAppConfig(disk).password_enc] \in Config
    BY LoadType DEF Config
  <2> QED BY <2>1, <2>2 DEF Kind
<1>2. CASE HandlerLoad(w)
  BY <1>2, LoadType DEF HandlerLoad, Kind
<1>3. CASE SendLoad(w)
  BY <1>3, LoadType DEF SendLoad, Kind
<1>4. CASE WorkerLoad(w)
  BY <1>4, LoadType DEF WorkerLoad, Kind
<1> QED BY <1>1, <1>2, <1>3, <1>4

\* A write leaves the other loads and saves what they were but alone and old.
LEMMA OthersType ==
  ASSUME TypeOK, NEW w \in Writer, save[w] # None, NEW r \in Writer
  PROVE  /\ OthersAfter(w)[r] \in Save \cup {None}
         /\ OthersAfter(w)[r] = None <=> save[r] = None
         /\ save[r] # None =>
              /\ OthersAfter(w)[r].kind = save[r].kind
              /\ OthersAfter(w)[r].cfg = save[r].cfg
              /\ OthersAfter(w)[r].written = save[r].written
              /\ OthersAfter(w)[r].typed = save[r].typed
              /\ ~OthersAfter(w)[r].alone
              /\ OthersAfter(w)[r].old = (save[r].old \/ save[w].kind = "connect")
<1>1. CASE save[r] = None
  BY <1>1 DEF OthersAfter
<1>2. CASE save[r] # None
  <2> DEFINE new == [save[r] EXCEPT !.alone = FALSE,
                       !.old = save[r].old \/ save[w].kind = "connect"]
  <2>1. save[r] \in Save
    BY <1>2 DEF TypeOK
  <2>2. /\ new \in Save
        /\ new.kind = save[r].kind /\ new.cfg = save[r].cfg
        /\ new.written = save[r].written /\ new.typed = save[r].typed
        /\ ~new.alone /\ new.old = (save[r].old \/ save[w].kind = "connect")
    BY <2>1 DEF Save
  <2>3. OthersAfter(w)[r] = new
    BY <1>2 DEF OthersAfter
  <2> HIDE DEF new
  <2> QED BY <1>2, <2>2, <2>3, ConstantsOK
<1> QED BY <1>1, <1>2

\* What a write leaves, with the file's new contents.
LEMMA WriteStep ==
  ASSUME TypeOK, NEW w \in Writer, Write(w)
  PROVE  \E available \in BOOLEAN, n \in 1 .. MaxSize :
           /\ disk' \in Disk
           /\ disk'.cfg = ProtectNodePassword(save[w].cfg, available)
           /\ disk'.size = n /\ disk'.whole
           /\ save[w] \in Save /\ ~save[w].written
           /\ save' \in [Writer -> Save \cup {None}]
           /\ save'[w] \in Save /\ save'[w].written /\ save'[w].size = n
           /\ save'[w].alone = (Writing = {})
           /\ save'[w].kind = save[w].kind /\ save'[w].cfg = save[w].cfg
           /\ save'[w].typed = save[w].typed
           /\ \A r \in Writer : r # w => save'[r] = OthersAfter(w)[r]
           /\ Record(w, save[w].typed # None /\ ~available)
           /\ disturbed' = (disturbed \/ Writing # {})
           /\ written' = TRUE /\ hosted' = hosted
<1>1. save[w] \in Save /\ ~save[w].written
  BY DEF Write, MayWrite, TypeOK
<1>2. PICK available \in BOOLEAN, n \in 1 .. MaxSize :
        /\ disk' = [cfg |-> ProtectNodePassword(save[w].cfg, available),
                    size |-> n, whole |-> TRUE,
                    length |-> IF disk # None /\ disk.length > n
                               THEN disk.length ELSE n]
        /\ save' = [OthersAfter(w) EXCEPT ![w] =
                      [save[w] EXCEPT !.written = TRUE, !.size = n,
                                      !.alone = (Writing = {})]]
        /\ Record(w, save[w].typed # None /\ ~available)
  BY DEF Write
<1>3. ProtectNodePassword(save[w].cfg, available) \in Config
  BY <1>1, ProtectType DEF Save
<1>4. disk # None => disk.length \in 1 .. MaxSize
  BY DEF TypeOK, Disk
<1>5. disk' \in Disk
  BY <1>2, <1>3, <1>4 DEF Disk
<1> DEFINE own == [save[w] EXCEPT !.written = TRUE, !.size = n,
                                  !.alone = (Writing = {})]
<1>6. /\ own \in Save /\ own.written /\ own.size = n
      /\ own.alone = (Writing = {}) /\ own.kind = save[w].kind
      /\ own.cfg = save[w].cfg /\ own.typed = save[w].typed
  BY <1>1 DEF Save
<1> HIDE DEF own
<1>7. save' = [OthersAfter(w) EXCEPT ![w] = own]
  BY <1>2 DEF own
<1>8. DOMAIN OthersAfter(w) = Writer
      /\ OthersAfter(w) = [r \in Writer |-> OthersAfter(w)[r]]
  BY DEF OthersAfter
<1>9. /\ save'[w] = own
      /\ \A r \in Writer : r # w => save'[r] = OthersAfter(w)[r]
      /\ save' = [r \in Writer |-> save'[r]]
  BY <1>7, <1>8
<1>10. \A r \in Writer : OthersAfter(w)[r] \in Save \cup {None}
  BY OthersType, <1>1, ConstantsOK
<1>11. save' \in [Writer -> Save \cup {None}]
  BY <1>6, <1>9, <1>10
<1>12. /\ disturbed' = (disturbed \/ Writing # {})
       /\ written' = TRUE /\ hosted' = hosted
  BY DEF Write
<1> QED BY <1>1, <1>2, <1>5, <1>6, <1>9, <1>11, <1>12

\* A truncation changes the length, and finds out whether the rest is there.
LEMMA TruncateStep ==
  ASSUME TypeOK, disk # None, NEW w \in Writer, Truncate(w)
  PROVE  /\ disk' \in Disk
         /\ disk'.cfg = disk.cfg /\ disk'.size = disk.size
         /\ disk'.length = save[w].size
         /\ disk'.whole = (disk.whole /\ disk.size <= save[w].size)
         /\ save' \in [Writer -> Save \cup {None}]
         /\ save'[w] = None
         /\ \A r \in Writer : r # w => save'[r] = save[r]
         /\ w \in Writing
         /\ disturbed' = (disturbed /\ ~save[w].alone)
         /\ UNCHANGED <<hosted, last, lapse, written>>
<1>1. save[w] \in Save /\ disk \in Disk
  BY DEF Truncate, Writing, TypeOK
<1>2. save[w].size \in 1 .. MaxSize
  BY <1>1 DEF Save
<1>3. disk' = [disk EXCEPT !.length = save[w].size,
                           !.whole = disk.whole /\ disk.size <= save[w].size]
  BY DEF Truncate
<1>4. /\ disk' \in Disk
      /\ disk'.cfg = disk.cfg /\ disk'.size = disk.size
      /\ disk'.length = save[w].size
      /\ disk'.whole = (disk.whole /\ disk.size <= save[w].size)
  BY <1>1, <1>2, <1>3 DEF Disk
<1>5. /\ save' \in [Writer -> Save \cup {None}]
      /\ save'[w] = None
      /\ \A r \in Writer : r # w => save'[r] = save[r]
  BY DEF Truncate, TypeOK
<1> QED BY <1>4, <1>5 DEF Truncate

\* What a file cut short keeps.
LEMMA CutFile ==
  ASSUME TypeOK, CutShort
  PROVE  /\ disk' \in Disk \cup {None}
         /\ disk' # None <=> disk # None
         /\ disk' # None =>
              /\ disk'.cfg.password = disk.cfg.password
              /\ \/ disk'.cfg.password_enc = disk.cfg.password_enc
                 \/ ~disk'.cfg.password_enc.intact
<1>1. CASE UNCHANGED disk
  BY <1>1 DEF TypeOK
<1>2. CASE disk # None /\ disk' = [disk EXCEPT !.whole = FALSE]
  <2>1. disk \in Disk
    BY <1>2 DEF TypeOK
  <2>2. disk' \in Disk /\ disk'.cfg = disk.cfg
    BY <1>2, <2>1 DEF Disk
  <2> QED BY <1>2, <2>2, ConstantsOK
<1>3. CASE /\ disk # None /\ disk.cfg.password_enc # None
           /\ disk' = [disk EXCEPT !.cfg.password_enc =
                                        [pw |-> Noise, intact |-> FALSE]]
  <2> DEFINE torn == [pw |-> Noise, intact |-> FALSE]
             cfg == [disk.cfg EXCEPT !.password_enc = torn]
  <2>1. disk \in Disk /\ disk.cfg \in Config
    BY <1>3 DEF TypeOK, Disk
  <2>2. torn \in Envelope
    BY DEF Envelope
  <2>3. /\ cfg \in Config /\ cfg.password = disk.cfg.password
        /\ cfg.password_enc = torn
    BY <2>1, <2>2 DEF Config
  <2>4. disk' = [disk EXCEPT !.cfg = cfg]
    BY <1>3, <2>1 DEF Disk
  <2>5. disk' \in Disk /\ disk'.cfg = cfg
    BY <2>1, <2>3, <2>4 DEF Disk
  <2>6. ~torn.intact
    OBVIOUS
  <2> HIDE DEF torn, cfg
  <2>7. disk' # None
    BY <2>5, ConstantsOK
  <2> QED BY <1>3, <2>3, <2>5, <2>6, <2>7
<1> QED BY <1>1, <1>2, <1>3 DEF CutShort

\* A write cut short ends its save.
LEMMA CutStep ==
  ASSUME TypeOK, NEW w \in Writer, WriteCut(w)
  PROVE  /\ save[w] \in Save /\ ~save[w].written
         /\ save' \in [Writer -> Save \cup {None}]
         /\ save'[w] = None
         /\ \A r \in Writer : r # w => save'[r] = OthersAfter(w)[r]
         /\ Record(w, TRUE)
         /\ disturbed' = TRUE
         /\ UNCHANGED <<hosted, written>>
<1>1. save[w] \in Save /\ save[w] # None /\ ~save[w].written
  BY DEF WriteCut, MayWrite, TypeOK
<1>2. save' = [OthersAfter(w) EXCEPT ![w] = None]
  BY DEF WriteCut
<1>3. /\ DOMAIN OthersAfter(w) = Writer
      /\ OthersAfter(w) = [r \in Writer |-> OthersAfter(w)[r]]
  BY DEF OthersAfter
<1>4. /\ save'[w] = None
      /\ \A r \in Writer : r # w => save'[r] = OthersAfter(w)[r]
      /\ save' = [r \in Writer |-> save'[r]]
  BY <1>2, <1>3
<1>5. \A r \in Writer : OthersAfter(w)[r] \in Save \cup {None}
  BY OthersType, <1>1
<1>6. save' \in [Writer -> Save \cup {None}]
  BY <1>4, <1>5
<1> QED BY <1>1, <1>4, <1>6 DEF WriteCut

\* The history a write leaves is typed.
LEMMA RecordType ==
  ASSUME TypeOK, NEW w \in Writer, save[w] \in Save, NEW kept \in BOOLEAN,
         Record(w, kept)
  PROVE  last' \in Password \cup {None} /\ lapse' \in BOOLEAN
<1>1. save[w].typed \in Password \cup {None} /\ save[w].old \in BOOLEAN
  BY DEF Save
<1> QED BY <1>1 DEF Record, TypeOK

-------------------------------------------------------------------------------
\* A file is there while one is being written.
TypeInv == TypeOK /\ (\A w \in Writer : w \in Writing => disk # None)

LEMMA TypeInit ==
  ASSUME Init
  PROVE  TypeInv
<1>1. 1 \in 1 .. MaxSize
  BY ConstantsOK
<1>2. disk \in Disk \cup {None} /\ last \in Password \cup {None}
  <2>1. PICK p \in Password :
          \/ disk = None /\ last = None
          \/ \E cfg \in {[password |-> p, password_enc |-> None],
                         [password |-> None, password_enc |-> Protect(p)]} :
               /\ disk = [cfg |-> cfg, size |-> 1, length |-> 1, whole |-> TRUE]
               /\ last = p
    BY DEF Init
  <2>2. /\ [password |-> p, password_enc |-> None] \in Config
        /\ [password |-> None, password_enc |-> Protect(p)] \in Config
    BY EnvelopeType DEF Config
  <2>3. CASE disk = None /\ last = None
    BY <2>3
  <2>4. ASSUME NEW cfg \in {[password |-> p, password_enc |-> None],
                          [password |-> None, password_enc |-> Protect(p)]},
               disk = [cfg |-> cfg, size |-> 1, length |-> 1, whole |-> TRUE],
               last = p
        PROVE  disk \in Disk /\ last \in Password
    <3>1. cfg \in Config
      BY <2>2
    <3> QED BY <1>1, <2>4, <3>1 DEF Disk
  <2> QED BY <2>1, <2>3, <2>4
<1>3. save = [w \in Writer |-> None] /\ Writing = {}
  BY DEF Init, Writing
<1> QED BY <1>2, <1>3 DEF Init, TypeInv, TypeOK

\* A load changes no field of the saves that are written.
LEMMA LoadFrame ==
  ASSUME TypeOK, NEW w \in Writer,
         Connect(w) \/ HandlerLoad(w) \/ SendLoad(w) \/ WorkerLoad(w)
  PROVE  /\ TypeOK'
         /\ \A r \in Writer : r \in Writing' => r \in Writing /\ save'[r] = save[r]
         /\ \A r \in Writer : r \in Writing => r \in Writing'
         /\ UNCHANGED <<hosted, disk, last, lapse, written, disturbed>>
<1>1. PICK kind \in Kind, cfg \in Config, p \in Password \cup {None} :
        Begin(w, kind, cfg, p)
  BY LoadStep
<1>2. /\ save' \in [Writer -> Save \cup {None}]
      /\ ~save'[w].written
      /\ \A r \in Writer : r # w => save'[r] = save[r]
      /\ save[w] = None
      /\ UNCHANGED <<hosted, disk, last, lapse, written, disturbed>>
  BY <1>1, BeginSave
<1> QED BY <1>2 DEF TypeOK, Writing

LEMMA TypeNext ==
  ASSUME TypeInv, [Next]_vars
  PROVE  TypeInv'
<1> USE DEF TypeInv
<1>1. ASSUME NEW w \in Writer,
             Connect(w) \/ HandlerLoad(w) \/ SendLoad(w) \/ WorkerLoad(w)
      PROVE  TypeInv'
  <2>1. /\ TypeOK'
        /\ \A r \in Writer : r \in Writing' => r \in Writing
        /\ UNCHANGED disk
    BY <1>1, LoadFrame
  <2> QED BY <2>1
<1>2. ASSUME NEW w \in Writer, Write(w)
      PROVE  TypeInv'
  <2>1. PICK available \in BOOLEAN :
          /\ disk' \in Disk /\ save[w] \in Save
          /\ save' \in [Writer -> Save \cup {None}]
          /\ Record(w, save[w].typed # None /\ ~available)
          /\ disturbed' = (disturbed \/ Writing # {})
          /\ written' = TRUE /\ hosted' = hosted
    BY <1>2, WriteStep
  <2>2. last' \in Password \cup {None} /\ lapse' \in BOOLEAN
    BY <2>1, RecordType
  <2>3. disk' # None
    BY <2>1, ConstantsOK
  <2> QED BY <2>1, <2>2, <2>3 DEF TypeOK
<1>3. ASSUME NEW w \in Writer, Truncate(w)
      PROVE  TypeInv'
  <2>1. disk # None
    BY <1>3 DEF Truncate
  <2>2. /\ disk' \in Disk /\ save' \in [Writer -> Save \cup {None}]
        /\ disturbed' = (disturbed /\ ~save[w].alone)
        /\ UNCHANGED <<hosted, last, lapse, written>>
    BY <1>3, <2>1, TruncateStep
  <2>3. disk' # None
    BY <2>2, ConstantsOK
  <2> QED BY <2>2, <2>3 DEF TypeOK
<1>4. ASSUME NEW w \in Writer, WriteCut(w)
      PROVE  TypeInv'
  <2>1. /\ disk' \in Disk \cup {None}
        /\ disk' # None <=> disk # None
    BY <1>4, CutFile DEF WriteCut
  <2>2. /\ save[w] \in Save
        /\ save' \in [Writer -> Save \cup {None}]
        /\ save'[w] = None
        /\ \A r \in Writer : r # w => save'[r] = OthersAfter(w)[r]
        /\ Record(w, TRUE)
        /\ disturbed' = TRUE
        /\ UNCHANGED <<hosted, written>>
    BY <1>4, CutStep
  <2>3. last' \in Password \cup {None} /\ lapse' \in BOOLEAN
    BY <2>2, RecordType
  <2>4. ASSUME NEW r \in Writer, r \in Writing'
        PROVE  r \in Writing
    <3>1. r # w /\ OthersAfter(w)[r] # None /\ OthersAfter(w)[r].written
      BY <2>2, <2>4 DEF Writing
    <3> QED BY <2>2, <3>1, OthersType, ConstantsOK DEF Writing
  <2> QED BY <2>1, <2>2, <2>3, <2>4 DEF TypeOK
<1>5. CASE Restart
  <2>1. save' = [w \in Writer |-> None]
        /\ UNCHANGED <<hosted, disk, last, lapse, written>>
        /\ disturbed' = (disturbed \/ Writing # {})
    BY <1>5 DEF Restart
  <2> QED BY <2>1 DEF TypeOK, Writing
<1>6. CASE UNCHANGED vars
  BY <1>6 DEF vars, TypeOK, Writing
<1> QED BY <1>1, <1>2, <1>3, <1>4, <1>5, <1>6 DEF Next

LEMMA TypeAlways == Spec => []TypeInv
<1>1. Init => TypeInv
  BY TypeInit
<1>2. TypeInv /\ [Next]_vars => TypeInv'
  BY TypeNext
<1> QED BY <1>1, <1>2, PTL DEF Spec

\* The file, the loads and the history stay typed (main.rs:385-514).
THEOREM TypeCorrect == Spec => []TypeOK
<1>1. TypeInv => TypeOK
  BY DEF TypeInv
<1> QED BY <1>1, TypeAlways, PTL

-------------------------------------------------------------------------------
LEMMA PlainNext ==
  ASSUME TypeInv, NoPlaintext, [Next]_vars
  PROVE  NoPlaintext'
<1> USE DEF TypeInv
<1>1. ASSUME NEW w \in Writer,
             Connect(w) \/ HandlerLoad(w) \/ SendLoad(w) \/ WorkerLoad(w)
      PROVE  NoPlaintext'
  <2>1. UNCHANGED <<disk, written>>
    BY <1>1, LoadFrame
  <2> QED BY <2>1 DEF NoPlaintext
<1>2. ASSUME NEW w \in Writer, Write(w)
      PROVE  NoPlaintext'
  <2>1. PICK available \in BOOLEAN :
          /\ disk'.cfg = ProtectNodePassword(save[w].cfg, available)
          /\ save[w] \in Save
    BY <1>2, WriteStep
  <2>2. save[w].cfg \in Config
    BY <2>1 DEF Save
  <2> QED BY <2>1, <2>2, ProtectType DEF NoPlaintext
<1>3. ASSUME NEW w \in Writer, Truncate(w)
      PROVE  NoPlaintext'
  <2>1. disk # None
    BY <1>3 DEF Truncate
  <2>2. disk'.cfg = disk.cfg /\ UNCHANGED written
    BY <1>3, <2>1, TruncateStep
  <2> QED BY <2>1, <2>2 DEF NoPlaintext
<1>4. ASSUME NEW w \in Writer, WriteCut(w)
      PROVE  NoPlaintext'
  <2>1. /\ disk' # None <=> disk # None
        /\ disk' # None => disk'.cfg.password = disk.cfg.password
        /\ UNCHANGED written
    BY <1>4, CutFile DEF WriteCut
  <2> QED BY <2>1 DEF NoPlaintext
<1>5. CASE Restart
  BY <1>5 DEF Restart, NoPlaintext
<1>6. CASE UNCHANGED vars
  BY <1>6 DEF vars, NoPlaintext
<1> QED BY <1>1, <1>2, <1>3, <1>4, <1>5, <1>6 DEF Next

\* main.rs:437-442 and 478: once a save wrote the file, it never again holds a
\* password in plaintext, for any interleaving of saves and failures.
THEOREM PasswordEnveloped == Spec => []NoPlaintext
<1>1. Init => NoPlaintext
  BY DEF Init, NoPlaintext
<1>2. TypeInv /\ NoPlaintext /\ [Next]_vars => NoPlaintext'
  BY PlainNext
<1> QED BY <1>1, <1>2, TypeAlways, PTL DEF Spec

-------------------------------------------------------------------------------
\* Encrypting a configuration's password does not change what it shows.
LEMMA ProtectShows ==
  ASSUME NEW cfg \in Config, NEW available \in BOOLEAN,
         NEW p \in Password \cup {None}, Shows(cfg, p)
  PROVE  Shows(ProtectNodePassword(cfg, available), p)
<1>1. CASE cfg.password = None
  BY <1>1 DEF ProtectNodePassword
<1>2. CASE cfg.password # None
  <2>1. cfg.password = p
    BY <1>2 DEF Shows
  <2>2. CASE available
    <3>1. /\ ProtectNodePassword(cfg, available).password = None
          /\ ProtectNodePassword(cfg, available).password_enc = Protect(p)
      BY <1>2, <2>1, <2>2 DEF ProtectNodePassword
    <3> QED BY <3>1 DEF Shows, Protect
  <2>3. CASE ~available
    <3>1. /\ ProtectNodePassword(cfg, available).password = None
          /\ ProtectNodePassword(cfg, available).password_enc = cfg.password_enc
      BY <1>2, <2>3 DEF ProtectNodePassword
    <3> QED BY <3>1 DEF Shows
  <2> QED BY <2>2, <2>3
<1> QED BY <1>1, <1>2

\* What a CONNECT writes shows what was typed, if it could be encrypted.
LEMMA TypedShown ==
  ASSUME NEW cfg \in Config, NEW available \in BOOLEAN,
         NEW p \in Password \cup {None}, cfg.password = p,
         p = None => cfg.password_enc = None,
         ~(p # None /\ ~available)
  PROVE  Shows(ProtectNodePassword(cfg, available), p)
<1>1. CASE p = None
  <2>1. ProtectNodePassword(cfg, available) = cfg
    BY <1>1 DEF ProtectNodePassword
  <2> QED BY <1>1, <2>1 DEF Shows
<1>2. CASE p # None
  <2>1. /\ ProtectNodePassword(cfg, available).password = None
        /\ ProtectNodePassword(cfg, available).password_enc = Protect(p)
    BY <1>2 DEF ProtectNodePassword
  <2> QED BY <2>1 DEF Shows, Protect
<1> QED BY <1>1, <1>2

\* What is loaded shows no more than the file does.
LEMMA LoadShows ==
  ASSUME NEW p \in Password \cup {None}, disk # None => Shows(disk.cfg, p)
  PROVE  Shows(LoadAppConfig(disk), p)
BY DEF LoadAppConfig, Default, Shows

ShownInv == TypeInv /\ ConnectsTyped /\ LastShown

\* The saves under way after a write of another.
LEMMA OthersTyped ==
  ASSUME TypeOK, ConnectsTyped, NEW w \in Writer, save[w] # None,
         NEW r \in Writer, OthersAfter(w)[r] # None,
         OthersAfter(w)[r].kind = "connect"
  PROVE  /\ OthersAfter(w)[r].cfg.password = OthersAfter(w)[r].typed
         /\ OthersAfter(w)[r].typed = None =>
              OthersAfter(w)[r].cfg.password_enc = None
<1>1. /\ save[r] # None
      /\ OthersAfter(w)[r].kind = save[r].kind
      /\ OthersAfter(w)[r].cfg = save[r].cfg
      /\ OthersAfter(w)[r].typed = save[r].typed
  BY OthersType
<1> QED BY <1>1 DEF ConnectsTyped

LEMMA OthersShown ==
  ASSUME TypeOK, LastShown, ~lapse, NEW w \in Writer, save[w] # None,
         save[w].kind # "connect",
         NEW r \in Writer, OthersAfter(w)[r] # None,
         ~OthersAfter(w)[r].written, ~OthersAfter(w)[r].old,
         OthersAfter(w)[r].kind # "connect"
  PROVE  Shows(OthersAfter(w)[r].cfg, last)
<1>1. /\ save[r] # None
      /\ OthersAfter(w)[r].kind = save[r].kind
      /\ OthersAfter(w)[r].cfg = save[r].cfg
      /\ OthersAfter(w)[r].written = save[r].written
      /\ OthersAfter(w)[r].old = (save[r].old \/ save[w].kind = "connect")
  BY OthersType
<1> QED BY <1>1 DEF LastShown

\* A write or a cut keeps what the saves of CONNECT hold.
LEMMA TypedAfter ==
  ASSUME TypeOK, ConnectsTyped, NEW w \in Writer, save[w] # None,
         \A r \in Writer : r # w => save'[r] = OthersAfter(w)[r],
         \/ save'[w] = None
         \/ /\ save'[w].kind = save[w].kind /\ save'[w].cfg = save[w].cfg
            /\ save'[w].typed = save[w].typed
  PROVE  ConnectsTyped'
<1>1. ASSUME NEW r \in Writer, save'[r] # None, save'[r].kind = "connect"
      PROVE  /\ save'[r].cfg.password = save'[r].typed
             /\ save'[r].typed = None => save'[r].cfg.password_enc = None
  <2>1. CASE r = w
    BY <1>1, <2>1 DEF ConnectsTyped
  <2>2. CASE r # w
    BY <1>1, <2>2, OthersTyped
  <2> QED BY <2>1, <2>2
<1> QED BY <1>1 DEF ConnectsTyped

LEMMA ShownNext ==
  ASSUME ShownInv, [Next]_vars
  PROVE  ConnectsTyped' /\ LastShown'
<1> USE DEF ShownInv, TypeInv
<1>0. last \in Password \cup {None}
  BY DEF TypeOK
<1>1. ASSUME NEW w \in Writer,
             Connect(w) \/ HandlerLoad(w) \/ SendLoad(w) \/ WorkerLoad(w)
      PROVE  ConnectsTyped' /\ LastShown'
  <2>1. PICK kind \in Kind, cfg \in Config, p \in Password \cup {None} :
          /\ Begin(w, kind, cfg, p)
          /\ IF kind = "connect"
             THEN cfg.password = p /\ (p = None => cfg.password_enc = None)
             ELSE cfg = LoadAppConfig(disk)
    BY <1>1, LoadStep
  <2>2. /\ save'[w].kind = kind /\ save'[w].cfg = cfg /\ save'[w].typed = p
        /\ \A r \in Writer : r # w => save'[r] = save[r]
        /\ UNCHANGED <<disk, last, lapse>>
    BY <2>1, BeginSave
  <2>3. ConnectsTyped'
    BY <2>1, <2>2 DEF ConnectsTyped
  <2>4. ~lapse /\ kind # "connect" => Shows(cfg, last)
    BY <1>0, <2>1, LoadShows DEF LastShown
  <2>5. LastShown'
    BY <2>2, <2>4 DEF LastShown
  <2> QED BY <2>3, <2>5
<1>2. ASSUME NEW w \in Writer, Write(w)
      PROVE  ConnectsTyped' /\ LastShown'
  <2>1. PICK available \in BOOLEAN :
          /\ disk' \in Disk
          /\ disk'.cfg = ProtectNodePassword(save[w].cfg, available)
          /\ save[w] \in Save /\ ~save[w].written /\ save'[w].written
          /\ save'[w].kind = save[w].kind /\ save'[w].cfg = save[w].cfg
          /\ save'[w].typed = save[w].typed
          /\ \A r \in Writer : r # w => save'[r] = OthersAfter(w)[r]
          /\ Record(w, save[w].typed # None /\ ~available)
    BY <1>2, WriteStep
  <2>2. /\ save[w] # None /\ save[w].cfg \in Config
        /\ save[w].typed \in Password \cup {None}
    BY <2>1, ConstantsOK DEF Save
  <2>3. ConnectsTyped'
    BY <2>1, <2>2, TypedAfter
  <2>4. CASE save[w].kind = "connect"
    <3>1. last' = save[w].typed /\ lapse' = (save[w].typed # None /\ ~available)
      BY <2>1, <2>4 DEF Record
    <3>2. ~lapse' => Shows(disk'.cfg, last')
      BY <2>1, <2>2, <2>4, <3>1, TypedShown DEF ConnectsTyped
    <3>3. ASSUME NEW r \in Writer, save'[r] # None, ~save'[r].written
          PROVE  save'[r].old
      <4>1. r # w /\ save'[r] = OthersAfter(w)[r]
        BY <2>1, <3>3
      <4> QED BY <2>2, <2>4, <3>3, <4>1, OthersType
    <3> QED BY <2>3, <3>2, <3>3 DEF LastShown
  <2>5. CASE save[w].kind # "connect"
    <3>1. last' = last /\ lapse' = (lapse \/ save[w].old)
      BY <2>1, <2>5 DEF Record
    <3>2. SUFFICES ASSUME ~lapse'
                   PROVE  LastShown'
      BY <2>3 DEF LastShown
    <3>3. Shows(save[w].cfg, last)
      BY <2>1, <2>2, <2>5, <3>1, <3>2 DEF LastShown
    <3>4. Shows(disk'.cfg, last')
      BY <1>0, <2>1, <2>2, <3>1, <3>3, ProtectShows
    <3>5. ASSUME NEW r \in Writer, save'[r] # None, ~save'[r].written,
                 ~save'[r].old, save'[r].kind # "connect"
          PROVE  Shows(save'[r].cfg, last')
      <4>1. r # w /\ save'[r] = OthersAfter(w)[r]
        BY <2>1, <3>5
      <4> QED BY <2>2, <2>5, <3>1, <3>2, <3>5, <4>1, OthersShown
    <3> QED BY <3>4, <3>5 DEF LastShown
  <2> QED BY <2>4, <2>5
<1>3. ASSUME NEW w \in Writer, Truncate(w)
      PROVE  ConnectsTyped' /\ LastShown'
  <2>1. disk # None
    BY <1>3 DEF Truncate
  <2>2. /\ disk'.cfg = disk.cfg /\ save'[w] = None
        /\ \A r \in Writer : r # w => save'[r] = save[r]
        /\ UNCHANGED <<last, lapse>>
    BY <1>3, <2>1, TruncateStep
  <2>3. ConnectsTyped'
    BY <2>2 DEF ConnectsTyped
  <2>4. LastShown'
    BY <2>1, <2>2 DEF LastShown
  <2> QED BY <2>3, <2>4
<1>4. ASSUME NEW w \in Writer, WriteCut(w)
      PROVE  ConnectsTyped' /\ LastShown'
  <2>1. /\ save[w] \in Save /\ ~save[w].written /\ save'[w] = None
        /\ \A r \in Writer : r # w => save'[r] = OthersAfter(w)[r]
        /\ Record(w, TRUE)
    BY <1>4, CutStep
  <2>2. save[w] # None
    BY <2>1, ConstantsOK
  <2>3. ConnectsTyped'
    BY <2>1, <2>2, TypedAfter
  <2>4. CASE save[w].kind = "connect"
    BY <2>1, <2>3, <2>4 DEF Record, LastShown
  <2>5. CASE save[w].kind # "connect"
    <3>1. last' = last /\ lapse' = (lapse \/ save[w].old)
      BY <2>1, <2>5 DEF Record
    <3>2. SUFFICES ASSUME ~lapse'
                   PROVE  LastShown'
      BY <2>3 DEF LastShown
    <3>3. /\ disk' # None <=> disk # None
          /\ disk' # None =>
               /\ disk'.cfg.password = disk.cfg.password
               /\ \/ disk'.cfg.password_enc = disk.cfg.password_enc
                  \/ ~disk'.cfg.password_enc.intact
      BY <1>4, CutFile DEF WriteCut
    <3>4. disk # None => Shows(disk.cfg, last)
      BY <3>1, <3>2 DEF LastShown
    <3>5. disk' # None => Shows(disk'.cfg, last')
      BY <3>1, <3>3, <3>4 DEF Shows
    <3>6. ASSUME NEW r \in Writer, save'[r] # None, ~save'[r].written,
                 ~save'[r].old, save'[r].kind # "connect"
          PROVE  Shows(save'[r].cfg, last')
      <4>1. r # w /\ save'[r] = OthersAfter(w)[r]
        BY <2>1, <3>6
      <4> QED BY <2>2, <2>5, <3>1, <3>2, <3>6, <4>1, OthersShown
    <3> QED BY <3>5, <3>6 DEF LastShown
  <2> QED BY <2>4, <2>5
<1>5. CASE Restart
  <2>1. save' = [w \in Writer |-> None] /\ UNCHANGED <<disk, last, lapse>>
    BY <1>5 DEF Restart
  <2>2. ConnectsTyped'
    BY <2>1 DEF ConnectsTyped
  <2>3. LastShown'
    BY <2>1 DEF LastShown
  <2> QED BY <2>2, <2>3
<1>6. CASE UNCHANGED vars
  BY <1>6 DEF vars, ConnectsTyped, LastShown
<1> QED BY <1>1, <1>2, <1>3, <1>4, <1>5, <1>6 DEF Next

\* The file of the first start shows the password it was made with.
LEMMA ShownInit ==
  ASSUME Init
  PROVE  ConnectsTyped /\ LastShown
<1>1. save = [w \in Writer |-> None] /\ lapse = FALSE
  BY DEF Init
<1>2. disk # None => Shows(disk.cfg, last)
  <2>1. PICK p \in Password :
          \/ disk = None /\ last = None
          \/ \E cfg \in {[password |-> p, password_enc |-> None],
                         [password |-> None, password_enc |-> Protect(p)]} :
               /\ disk = [cfg |-> cfg, size |-> 1, length |-> 1, whole |-> TRUE]
               /\ last = p
    BY DEF Init
  <2> QED BY <2>1 DEF Shows, Protect
<1> QED BY <1>1, <1>2 DEF ConnectsTyped, LastShown

\* main.rs:1924-1928: the next start shows the last password or none, outside
\* the lapses the invariant names.
THEOREM ShowsLast == Spec => []LastPasswordOrNone
<1>1. Init => ConnectsTyped /\ LastShown
  BY ShownInit
<1>2. ShownInv /\ [Next]_vars => ConnectsTyped' /\ LastShown'
  BY ShownNext
<1>3. TypeOK /\ LastShown => LastPasswordOrNone
  <2>1. SUFFICES ASSUME TypeOK, LastShown, ~lapse, NEW available \in BOOLEAN
                 PROVE  UnlockNodePassword(LoadAppConfig(disk), available)
                          \in {None, last}
    BY DEF LastPasswordOrNone
  <2>2. Shows(LoadAppConfig(disk), last)
    BY <2>1, LoadShows DEF LastShown, TypeOK
  <2> QED BY <2>2 DEF Shows, UnlockNodePassword, Unprotect
<1> QED BY <1>1, <1>2, <1>3, TypeAlways, PTL DEF Spec, ShownInv, TypeInv

-------------------------------------------------------------------------------
LEMMA WholeNext ==
  ASSUME TypeInv, AlonesWhole, [Next]_vars
  PROVE  AlonesWhole'
<1> USE DEF TypeInv
<1>1. ASSUME NEW w \in Writer,
             Connect(w) \/ HandlerLoad(w) \/ SendLoad(w) \/ WorkerLoad(w)
      PROVE  AlonesWhole'
  <2>1. /\ \A r \in Writing' : r \in Writing /\ save'[r] = save[r]
        /\ \A r \in Writing : r \in Writing'
        /\ UNCHANGED <<disk, disturbed>>
    BY <1>1, LoadFrame DEF Writing
  <2> QED BY <2>1 DEF AlonesWhole, Parses
<1>2. ASSUME NEW w \in Writer, Write(w)
      PROVE  AlonesWhole'
  <2>1. PICK n \in 1 .. MaxSize :
          /\ disk' \in Disk /\ disk'.size = n /\ disk'.whole
          /\ save[w] \in Save
          /\ save'[w] \in Save /\ save'[w].written /\ save'[w].size = n
          /\ save'[w].alone = (Writing = {})
          /\ \A r \in Writer : r # w => save'[r] = OthersAfter(w)[r]
          /\ disturbed' = (disturbed \/ Writing # {})
    BY <1>2, WriteStep
  <2>2. save[w] # None /\ save'[w] # None /\ disk' # None
    BY <2>1, ConstantsOK
  <2>3. ASSUME NEW r \in Writing', r # w
        PROVE  r \in Writing /\ ~save'[r].alone
    <3>1. r \in Writer /\ OthersAfter(w)[r] # None /\ OthersAfter(w)[r].written
          /\ save'[r] = OthersAfter(w)[r]
      BY <2>1, <2>3 DEF Writing
    <3> QED BY <2>2, <3>1, OthersType DEF Writing
  <2>4. w \in Writing'
    BY <2>1, <2>2 DEF Writing
  <2> QED BY <2>1, <2>2, <2>3, <2>4 DEF AlonesWhole
<1>3. ASSUME NEW w \in Writer, Truncate(w)
      PROVE  AlonesWhole'
  <2>1. disk # None
    BY <1>3 DEF Truncate
  <2>2. /\ disk' \in Disk /\ disk'.size = disk.size
        /\ disk'.length = save[w].size
        /\ disk'.whole = (disk.whole /\ disk.size <= save[w].size)
        /\ save'[w] = None
        /\ \A r \in Writer : r # w => save'[r] = save[r]
        /\ w \in Writing
        /\ disturbed' = (disturbed /\ ~save[w].alone)
    BY <1>3, <2>1, TruncateStep
  <2>3. disk' # None
    BY <2>2, ConstantsOK
  <2>4. ASSUME NEW r \in Writing'
        PROVE  r \in Writing /\ r # w /\ save'[r] = save[r]
    BY <2>2, <2>4 DEF Writing
  <2>5. ASSUME NEW r \in Writing'
        PROVE  ~save'[r].alone /\ disturbed'
    BY <2>2, <2>4, <2>5 DEF AlonesWhole
  <2>6. ~disturbed' => Parses(disk')
    <3>1. SUFFICES ASSUME ~disturbed' PROVE Parses(disk')
      OBVIOUS
    <3>2. disk.whole /\ disk.size = save[w].size
      BY <2>2, <3>1 DEF AlonesWhole
    <3>3. disk.size \in Nat
      BY <2>1 DEF TypeOK, Disk
    <3>4. disk.size <= save[w].size
      BY <3>2, <3>3
    <3>5. disk'.whole /\ disk'.length = disk'.size
      BY <2>2, <3>2, <3>4
    <3> QED BY <3>5 DEF Parses
  <2> QED BY <2>3, <2>5, <2>6 DEF AlonesWhole
<1>4. ASSUME NEW w \in Writer, WriteCut(w)
      PROVE  AlonesWhole'
  <2>1. /\ save[w] \in Save /\ save'[w] = None
        /\ \A r \in Writer : r # w => save'[r] = OthersAfter(w)[r]
        /\ disturbed' = TRUE
    BY <1>4, CutStep
  <2>2. save[w] # None
    BY <2>1, ConstantsOK
  <2>3. disk' # None <=> disk # None
    BY <1>4, CutFile DEF WriteCut
  <2>4. ASSUME NEW r \in Writing'
        PROVE  r \in Writing /\ ~save'[r].alone
    <3>1. r \in Writer /\ OthersAfter(w)[r] # None /\ OthersAfter(w)[r].written
          /\ save'[r] = OthersAfter(w)[r]
      BY <2>1, <2>4 DEF Writing
    <3> QED BY <2>2, <3>1, OthersType DEF Writing
  <2> QED BY <2>1, <2>3, <2>4 DEF AlonesWhole
<1>5. CASE Restart
  <2>1. /\ save' = [w \in Writer |-> None] /\ UNCHANGED disk
        /\ disturbed' = (disturbed \/ Writing # {})
    BY <1>5 DEF Restart
  <2>2. Writing' = {}
    BY <2>1 DEF Writing
  <2> QED BY <2>1, <2>2 DEF AlonesWhole, Parses
<1>6. CASE UNCHANGED vars
  BY <1>6 DEF vars, AlonesWhole, Writing, Parses
<1> QED BY <1>1, <1>2, <1>3, <1>4, <1>5, <1>6 DEF Next

\* main.rs:477-497: one save that completes alone leaves a file that parses,
\* whatever was there before.
THEOREM RestParses == Spec => []ParsesAtRest
<1>1. Init => AlonesWhole
  <2>1. SUFFICES ASSUME Init PROVE AlonesWhole
    OBVIOUS
  <2>2. Writing = {} /\ ~disturbed
    BY <2>1 DEF Init, Writing
  <2>3. disk # None => Parses(disk)
    BY <2>1 DEF Init, Parses
  <2> QED BY <2>2, <2>3 DEF AlonesWhole
<1>2. TypeInv /\ AlonesWhole /\ [Next]_vars => AlonesWhole'
  BY WholeNext
<1>3. AlonesWhole => ParsesAtRest
  BY DEF AlonesWhole, ParsesAtRest
<1> QED BY <1>1, <1>2, <1>3, TypeAlways, PTL DEF Spec
=============================================================================
