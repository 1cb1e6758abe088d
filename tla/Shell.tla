------------------------------- MODULE Shell -------------------------------
(***************************************************************************)
(* The sessions of shell.c: the start of the machine, who is logged in,    *)
(* where the file system's current directory is and where the prompt says  *)
(* it is, and the accounts in USERS.DAT.  A command is one step, but for   *)
(* the loops that climb to the root and for register, which reads the      *)
(* accounts in one step and writes them in another.                        *)
(***************************************************************************)
EXTENDS Naturals, SequencesExt

CONSTANTS Users,        \* the names one can log in by, in lower case
          Passwords,    \* what can stand behind the colon of a line
          Valid,        \* the names and passwords that sh_username_valid takes
          NoUser, Guest,
          Directories,  \* the paths that exist on the disk
          Pieces,       \* how many names a directory's name, as it is typed,
                        \* reads as in a path: one more than its slashes
          PieceLen,     \* BOUND: the characters of a piece, with its slash
          PathMax,      \* SHELL_PATH_MAX
          DbMax,        \* accounts that fit into do_register's buffer
          DiskErrors    \* whether the disk may report errors

ASSUME UsersAssumption == {NoUser, Guest} \cap Users = {}
ASSUME SizesAssumption == {PieceLen, PathMax, DbMax} \subseteq Nat \ {0}
Names == {Last(d) : d \in Directories \ {<<>>}}
ASSUME TreeAssumption ==
  /\ <<>> \in Directories /\ \A d \in Directories : d \in Seq(Names)
  /\ \A d \in Directories \ {<<>>} : Front(d) \in Directories
ASSUME PiecesAssumption == Pieces \in [Names -> Nat \ {0}]
ASSUME ErrorsAssumption == DiskErrors \in BOOLEAN

VARIABLES mounted,      \* fat16_init found the disk
          ready,        \* sh_fs_ready
          user,         \* sh_user
          cwd,          \* fs.cur_cluster, as the path of the directory
          shown,        \* sh_cwd, as the pieces between its slashes
          accounts,     \* the lines of USERS.DAT: user and password, with
                        \* NoUser for what does not name one of Users
          open,         \* the last of them does not end with a newline
          pc, plan,     \* where the shell is; the buffer of do_register
          strange,      \* a name that does not fit, or with a slash, was
                        \* entered since the last reset of sh_cwd (history)
          entrant, over \* history: who entered a directory last; somebody
                        \* logged in over another's session since then

past == <<entrant, over>>
vars == <<mounted, ready, user, cwd, shown, accounts, open, pc, plan, strange, past>>
diskVars == <<mounted, ready, accounts, open>>

Account == (Users \cup {NoUser}) \X Passwords
OK == mounted
MayFail == ~mounted \/ DiskErrors

Init ==
  /\ mounted = FALSE /\ ready = FALSE /\ user = Guest /\ cwd = <<>> /\ shown = <<>>
  /\ accounts = <<>> /\ open = FALSE /\ pc = "boot" /\ plan = <<>> /\ strange = FALSE
  /\ entrant = Guest /\ over = FALSE

-----------------------------------------------------------------------------
(* fs_bringup, then _start, which does not ask how that went.              *)
FsBringup(ok) ==
  /\ pc = "boot" /\ pc' = "start" /\ mounted' = ok /\ ready' = ok
  /\ UNCHANGED <<user, cwd, shown, accounts, open, plan, strange, past>>
Start ==
  /\ pc = "start" /\ pc' = "prompt" /\ ready' = TRUE /\ user' = Guest
  /\ shown' = <<>> /\ strange' = FALSE /\ over' = FALSE
  /\ UNCHANGED <<mounted, cwd, accounts, open, plan, entrant>>

(* reboot; fat16_init sets the current directory.                          *)
Reboot ==
  /\ pc = "prompt" /\ pc' = "boot" /\ cwd' = <<>> /\ mounted' = FALSE /\ ready' = FALSE
  /\ UNCHANGED <<user, shown, accounts, open, plan, strange, past>>
(* halt; and ui, for desktop_run does not return.                          *)
Leave ==
  /\ pc = "prompt" /\ pc' = "gone"
  /\ UNCHANGED <<diskVars, user, cwd, shown, plan, strange, past>>

-----------------------------------------------------------------------------
(* sh_read_users, which takes a failure for a file without users.          *)
Readings == (IF OK THEN {accounts} ELSE {}) \cup (IF MayFail THEN {<<>>} ELSE {})

(* (A mutant: a user is known by name and password.)                       *)
ExistsWithPassword(list, u, p) == \E i \in DOMAIN list : list[i] = <<u, p>>
Exists(list, u, p) == \E i \in DOMAIN list : list[i][1] = u
Fits(list) == Len(list) < DbMax

(* The new line is put behind the last byte.  If no newline was there, it  *)
(* becomes the rest of the last line: of the password behind its colon, or *)
(* the end of a name that no longer is u.                                  *)
Glued(line, u) ==
  {<<line[1], q>> : q \in Passwords \ Valid} \cup
  (IF line[1] = NoUser THEN ((Users \ {u}) \cup {NoUser}) \X Passwords ELSE {})
Extended(list, u, p) ==
  IF open /\ list # <<>> THEN {Append(Front(list), line) : line \in Glued(Last(list), u)}
  ELSE {Append(list, <<u, p>>)}

Register(u, p) ==
  /\ pc = "prompt" /\ {u, p} \subseteq Valid
  /\ \E list \in Readings :
       /\ ~Exists(list, u, p) /\ Fits(list)
       /\ plan' \in Extended(list, u, p) /\ pc' = "register"
  /\ UNCHANGED <<diskVars, user, cwd, shown, strange, past>>

(* fat16_write_file_in; a failed one may have given up the old file.       *)
RegisterWrites ==
  /\ pc = "register" /\ pc' = "prompt" /\ plan' = <<>>
  /\ \/ OK /\ accounts' = plan /\ open' = FALSE
     \/ MayFail /\ UNCHANGED <<accounts, open>>
     \/ DiskErrors /\ accounts' = <<>> /\ open' = FALSE
  /\ UNCHANGED <<mounted, ready, user, cwd, shown, strange, past>>

(* Who is logged in already is not asked, and the directory is kept.       *)
Login(u, p) ==
  /\ pc = "prompt" /\ \E list \in Readings : \E i \in DOMAIN list : list[i] = <<u, p>>
  /\ user' = u /\ over' = (over \/ user \notin {Guest, u})
  /\ UNCHANGED <<diskVars, cwd, shown, pc, plan, strange, entrant>>

(* The commands rm and write with USERS.DAT: nothing, or a line of any     *)
(* text without a newline.                                                 *)
ReplaceUsers ==
  /\ pc = "prompt" /\ ready /\ user # Guest /\ OK /\ cwd = <<>>
  /\ \/ accounts' = <<>> /\ open' = FALSE
     \/ (\E line \in Account : accounts' = <<line>>) /\ open' = TRUE
  /\ UNCHANGED <<mounted, ready, user, cwd, shown, pc, plan, strange, past>>

-----------------------------------------------------------------------------
CanCd == pc = "prompt" /\ ready /\ user # Guest
Display(d) == [i \in 1 .. Pieces[d] |-> <<d, i>>]

(* sh_cwd_push: what does not fit is left out.                             *)
FitsPath(d) == PieceLen * (Len(shown) + Pieces[d]) < PathMax
Pushed(d) == IF FitsPath(d) THEN shown \o Display(d) ELSE shown
Cd(d) ==
  /\ CanCd /\ OK /\ Append(cwd, d) \in Directories
  /\ cwd' = Append(cwd, d) /\ shown' = Pushed(d)
  /\ strange' = (strange \/ ~FitsPath(d) \/ Pieces[d] > 1) /\ entrant' = user
  /\ UNCHANGED <<diskVars, user, pc, plan, over>>

(* sh_cwd_pop.                                                             *)
Popped == IF shown = <<>> THEN <<>> ELSE Front(shown)
CdUp ==
  /\ CanCd /\ OK /\ cwd # <<>>
  /\ cwd' = Front(cwd) /\ shown' = Popped
  /\ UNCHANGED <<diskVars, user, pc, plan, strange, past>>

(* cd / and logout climb until fat16_is_root, trying again on errors.  (A  *)
(* mutant: they ask the prompt's path.)                                    *)
ShownHome == shown = <<>>
AtHome == cwd = <<>>
CdRoot ==
  /\ CanCd /\ pc' = "climb" /\ UNCHANGED <<diskVars, user, cwd, shown, plan, strange, past>>
Logout ==
  /\ pc = "prompt" /\ user # Guest /\ user' = Guest /\ pc' = "climb"
  /\ UNCHANGED <<diskVars, cwd, shown, plan, strange, past>>

ClimbUp ==
  /\ pc = "climb" /\ ~AtHome
  /\ cwd' = IF cwd = <<>> THEN <<>> ELSE Front(cwd)
  /\ UNCHANGED <<diskVars, user, shown, pc, plan, strange, past>>
ClimbFails == pc = "climb" /\ ~AtHome /\ DiskErrors /\ UNCHANGED vars

(* (A mutant: the prompt's path is kept.)                                  *)
Kept == shown
Reset == <<>>
ClimbDone ==
  /\ pc = "climb" /\ AtHome /\ pc' = "prompt" /\ shown' = Reset /\ strange' = FALSE
  /\ over' = FALSE /\ UNCHANGED <<diskVars, user, cwd, plan, entrant>>

-----------------------------------------------------------------------------
Commands ==
  \/ \E u \in Users, p \in Passwords : Register(u, p) \/ Login(u, p)
  \/ ReplaceUsers \/ Logout \/ CdUp \/ CdRoot
  \/ (\E d \in Names : Cd(d))
  \/ Reboot \/ Leave
Booting == (\E ok \in BOOLEAN : FsBringup(ok)) \/ Start
Running == RegisterWrites \/ ClimbUp \/ ClimbFails \/ ClimbDone

Next == Commands \/ Booting \/ Running

Spec == Init /\ [][Next]_vars
(* The shell's own code runs on, and a disk does not fail for ever.        *)
FairSpec == Spec /\ WF_vars(ClimbDone) /\ WF_vars(RegisterWrites) /\ SF_vars(ClimbUp)

-----------------------------------------------------------------------------
(* Paths and accounts fit into their buffers, and control is in the code.  *)
TypeOK ==
  /\ {mounted, ready, open, strange, over} \subseteq BOOLEAN
  /\ {user, entrant} \subseteq Users \cup {Guest}
  /\ cwd \in Directories /\ PieceLen * Len(shown) < PathMax
  /\ accounts \in Seq(Account) /\ Len(accounts) <= DbMax
  /\ pc \in {"boot", "start", "prompt", "register", "climb", "gone"}
  /\ plan \in Seq(Account)

(* The comment of shell.c says that the display path is in sync with the   *)
(* current directory.  What the code keeps: it is, since the last reset,   *)
(* unless a name did not fit or has a slash; cd / and logout repair it.    *)
(* (Names without a slash are shown as one piece.)                         *)
InSync == shown = [i \in DOMAIN cwd |-> <<cwd[i], 1>>]
PathUsuallyInSync == pc = "prompt" /\ ~strange => InSync

(* Behind logout the shell is in the root and its prompt says so; and who  *)
(* is below the root has gone there himself, not the user of a session     *)
(* that ended.  The exception is what the code does: do_login accepts a    *)
(* login over a live session and leaves the new user where the other was   *)
(* (over), until he returns to the root by cd / or logout.                 *)
SessionsApart ==
  pc = "prompt" =>
    /\ user = Guest => cwd = <<>> /\ shown = <<>>
    /\ cwd # <<>> /\ ~over => entrant = user

(* No user is registered twice, also when the accounts cannot be read, or  *)
(* a new account is glued to a line that write left open.                  *)
OneAccountEach ==
  \A i, j \in DOMAIN accounts : accounts[i][1] = accounts[j][1] => i = j

(* Accounts and paths fit into their buffers, and every account is its     *)
(* user's only one.                                                        *)
AccountsSound == TypeOK /\ OneAccountEach

(* The comment of shell.c: the caller guarantees that the file system is   *)
(* up when sh_fs_ready is 1.                                               *)
ReadyMeansMounted == pc = "prompt" /\ ready => mounted

(* cd / and logout come back to the prompt.                                *)
ClimbEnds == pc = "climb" ~> pc = "prompt"
=============================================================================
