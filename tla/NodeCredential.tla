--------------------------- MODULE NodeCredential ---------------------------
(***************************************************************************)
(* The node's RPC password in config.json, and how the file is saved.      *)
(*                                                                         *)
(* save_app_config opens the file, writes the new contents over the old    *)
(* ones, and cuts off what is left of them; nothing locks the file, and a  *)
(* failing step is passed over in silence.  A file that does not parse is  *)
(* loaded as the default configuration.  Before it writes, it moves the    *)
(* password from the plaintext field into an envelope, encrypted and       *)
(* authenticated with a key of the device; the security server that has    *)
(* the key and the randomness may be unavailable.                          *)
(*                                                                         *)
(* Writers: CONNECT, and every other handler, which holds the UI thread    *)
(* from its load to the end of its save; send_bip47, which loads at its    *)
(* start and saves after its broadcasts; and on a hosted build the workers *)
(* that take a change address, which no thread waits for.                  *)
(*                                                                         *)
(* A save cut short, by a power cut or an error of the file system, leaves *)
(* the old file, one that does not parse, or the fields of both mixed.     *)
(***************************************************************************)
EXTENDS Naturals

CONSTANTS
  Password, \* the passwords a user types
  Noise,    \* what decrypting an envelope that is not intact would give
  Writer,   \* bound: loads not yet saved, at a time
  MaxSize,  \* bound: the sizes a file may have
  None      \* an empty string; the absent value of an Option

Envelope == [pw : Password \cup {Noise}, intact : BOOLEAN]

\* The two fields of config.json.
Config == [password : Password \cup {None}, password_enc : Envelope \cup {None}]

\* What is on the disk: the contents last written, how long they and the file
\* are, and whether they are all there.
Disk == [cfg : Config, size : 1 .. MaxSize, length : 1 .. MaxSize,
         whole : BOOLEAN]

Kind == {"connect", "handler", "send", "worker"}

\* A configuration loaded.  Typed: the password CONNECT was pressed with.
\* Alone: no other save overlaps it.  History: old, that a CONNECT saved since.
Save == [kind : Kind, cfg : Config, written : BOOLEAN, size : 1 .. MaxSize,
         alone : BOOLEAN, old : BOOLEAN, typed : Password \cup {None}]

ASSUME ConstantsOK ==
  /\ None \notin Password /\ Noise \notin Password /\ Noise # None
  /\ MaxSize \in Nat \ {0}
  /\ None \notin Envelope /\ None \notin Save /\ None \notin Disk

VARIABLES
  hosted,    \* built without cfg(keyos); fixed
  disk,      \* config.json; None when there is none
  save,      \* save[w]: a configuration loaded and not yet saved, or None
  last,      \* history: the password last connected with
  lapse,     \* history: the last CONNECT could not protect its password or
             \* finish its write, or a configuration loaded before it was
             \* saved after it
  written,   \* history: a save wrote the file
  disturbed  \* history: a write was cut short or overlapped, and no save has
             \* completed alone since

vars == <<hosted, disk, save, last, lapse, written, disturbed>>

TypeOK ==
  /\ hosted \in BOOLEAN
  /\ disk \in Disk \cup {None}
  /\ save \in [Writer -> Save \cup {None}]
  /\ last \in Password \cup {None}
  /\ lapse \in BOOLEAN /\ written \in BOOLEAN /\ disturbed \in BOOLEAN

Default == [password |-> None, password_enc |-> None]

(***************************************************************************)
(* cred.rs                                                                 *)
(***************************************************************************)
Protect(p) == [pw |-> p, intact |-> TRUE]

\* Mutant: the tag is not compared.
UnprotectUnchecked(e) == e.pw

Unprotect(e) == IF e.intact THEN e.pw ELSE None

(***************************************************************************)
(* Loading and saving.                                                     *)
(***************************************************************************)
Parses(d) == d.whole /\ d.length = d.size

LoadAppConfig(d) == IF d # None /\ Parses(d) THEN d.cfg ELSE Default

\* Mutant: fails open, as the comment above the function says.
ProtectNodePasswordOpen(cfg, available) ==
  IF cfg.password = None \/ ~available THEN cfg
  ELSE [password |-> None, password_enc |-> Protect(cfg.password)]

\* Without the key or randomness the password is dropped; what is in the
\* envelope stays.
ProtectNodePassword(cfg, available) ==
  IF cfg.password = None THEN cfg
  ELSE [password |-> None,
        password_enc |-> IF available THEN Protect(cfg.password)
                         ELSE cfg.password_enc]

UnlockNodePassword(cfg, available) ==
  IF cfg.password_enc = None THEN cfg.password
  ELSE IF available THEN Unprotect(cfg.password_enc) ELSE None

Writing == {w \in Writer : save[w] # None /\ save[w].written}

\* The UI thread is held by the handler running on it.
UiFree ==
  \A w \in Writer : save[w] # None =>
    save[w].kind \in {"send", "worker"} /\
      ~(save[w].kind = "send" /\ save[w].written)

\* The file at the first start: none, a legacy one, or one of this version.
Init ==
  /\ hosted \in BOOLEAN
  /\ \E p \in Password :
       \/ disk = None /\ last = None
       \/ \E cfg \in {[password |-> p, password_enc |-> None],
                      [password |-> None, password_enc |-> Protect(p)]} :
            /\ disk = [cfg |-> cfg, size |-> 1, length |-> 1, whole |-> TRUE]
            /\ last = p
  /\ save = [w \in Writer |-> None]
  /\ lapse = FALSE /\ written = FALSE /\ disturbed = FALSE

Begin(w, kind, cfg, p) ==
  /\ save[w] = None
  /\ save' = [save EXCEPT ![w] =
                [kind |-> kind, cfg |-> cfg, written |-> FALSE, size |-> 1,
                 alone |-> FALSE, old |-> FALSE, typed |-> p]]
  /\ UNCHANGED <<hosted, disk, last, lapse, written, disturbed>>

\* on_connect_node, up to the save: the password is what is in the field.
Connect(w) ==
  /\ UiFree
  /\ \E p \in Password \cup {None} :
       LET cfg == LoadAppConfig(disk)
       IN  Begin(w, "connect",
                 [password |-> p,
                  password_enc |-> IF p = None THEN None ELSE cfg.password_enc],
                 p)

\* Every other writer changes fields this module leaves out.
HandlerLoad(w) == UiFree /\ Begin(w, "handler", LoadAppConfig(disk), None)
SendLoad(w) == UiFree /\ Begin(w, "send", LoadAppConfig(disk), None)
WorkerLoad(w) == hosted /\ Begin(w, "worker", LoadAppConfig(disk), None)

\* A save starts when its thread is free.
MayWrite(w) ==
  /\ save[w] # None /\ ~save[w].written
  /\ save[w].kind = "send" => UiFree

\* What a write of w means for the other loads and saves under way.
OthersAfter(w) ==
  [r \in Writer |-> IF save[r] = None THEN None
                   ELSE [save[r] EXCEPT !.alone = FALSE,
                           !.old = @ \/ save[w].kind = "connect"]]

\* History: what a CONNECT, or an old configuration, leaves behind when it is
\* saved; kept, that the envelope of an earlier password may stay.
Record(w, kept) ==
  IF save[w].kind = "connect"
  THEN last' = save[w].typed /\ lapse' = kept
  ELSE UNCHANGED last /\ lapse' = (lapse \/ save[w].old)

\* save_app_config up to write_all: the file keeps its length if it is longer.
Write(w) ==
  /\ MayWrite(w)
  /\ \E available \in BOOLEAN, n \in 1 .. MaxSize :
       LET keeps == disk # None /\ disk.length > n
           own == [save[w] EXCEPT !.written = TRUE, !.size = n,
                                  !.alone = (Writing = {})]
       IN  /\ disk' = [cfg |-> ProtectNodePassword(save[w].cfg, available),
                       size |-> n, whole |-> TRUE,
                       length |-> IF keeps THEN disk.length ELSE n]
           /\ save' = [OthersAfter(w) EXCEPT ![w] = own]
           /\ Record(w, save[w].typed # None /\ ~available)
  /\ disturbed' = (disturbed \/ Writing # {})
  /\ written' = TRUE
  /\ UNCHANGED hosted

\* Mutant: the rest of a longer file stays.
TruncateNothing(w) ==
  /\ w \in Writing
  /\ save' = [save EXCEPT ![w] = None]
  /\ disturbed' = (disturbed /\ ~save[w].alone)
  /\ UNCHANGED <<hosted, disk, last, lapse, written>>

\* Mutant: cuts one short.
TruncateShort(w) ==
  /\ w \in Writing
  /\ disk' = [disk EXCEPT !.length = save[w].size - 1]
  /\ save' = [save EXCEPT ![w] = None]
  /\ disturbed' = (disturbed /\ ~save[w].alone)
  /\ UNCHANGED <<hosted, last, lapse, written>>

\* The end of save_app_config: cut at the length this writer wrote, which may
\* not be what is in the file by now.
Truncate(w) ==
  /\ w \in Writing
  /\ disk' = [disk EXCEPT !.length = save[w].size,
                          !.whole = @ /\ disk.size <= save[w].size]
  /\ save' = [save EXCEPT ![w] = None]
  /\ disturbed' = (disturbed /\ ~save[w].alone)
  /\ UNCHANGED <<hosted, last, lapse, written>>

\* The old file, one that does not parse, or one with an envelope put together
\* from two.  A file just created and still empty loads as none does.
CutShort ==
  \/ UNCHANGED disk
  \/ /\ disk # None
     /\ \/ disk' = [disk EXCEPT !.whole = FALSE]
        \/ /\ disk.cfg.password_enc # None
           /\ disk' = [disk EXCEPT !.cfg.password_enc =
                                        [pw |-> Noise, intact |-> FALSE]]

\* write_all is cut short, by an error or the end of the program.
WriteCut(w) ==
  /\ MayWrite(w)
  /\ CutShort
  /\ save' = [OthersAfter(w) EXCEPT ![w] = None]
  /\ Record(w, TRUE)
  /\ disturbed' = TRUE
  /\ UNCHANGED <<hosted, written>>

\* The program ends, between any two steps of a save, and starts again.
Restart ==
  /\ save' = [w \in Writer |-> None]
  /\ disturbed' = (disturbed \/ Writing # {})
  /\ UNCHANGED <<hosted, disk, last, lapse, written>>

Next ==
  \/ \E w \in Writer :
       \/ Connect(w) \/ HandlerLoad(w) \/ SendLoad(w) \/ WorkerLoad(w)
       \/ Write(w) \/ Truncate(w) \/ WriteCut(w)
  \/ Restart

Spec == Init /\ [][Next]_vars

-------------------------------------------------------------------------------
\* main.rs:478: once any save wrote the file it holds no password in
\* plaintext, whether or not the key was available, and whoever saved.
NoPlaintext == written /\ disk # None => disk.cfg.password = None

\* main.rs:1924-1928 and 437-442: the next start shows the password last
\* connected with, or none: never an earlier one, one that was cleared, or the
\* remains of a torn write.  Unless that CONNECT could not protect its password
\* or finish its write, which may leave the envelope of an earlier one, or a
\* configuration loaded before it was saved after it.
LastPasswordOrNone ==
  ~lapse => \A available \in BOOLEAN :
    UnlockNodePassword(LoadAppConfig(disk), available) \in {None, last}

\* main.rs:477-497: the file parses whenever no save is under way, also after
\* a longer or a torn one, unless the last write was cut short or two saves
\* overlapped: one save that completes alone repairs it.
ParsesAtRest ==
  (disk # None /\ ~disturbed /\ Writing = {}) => Parses(disk)
=============================================================================
