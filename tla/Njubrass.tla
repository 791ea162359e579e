------------------------------- MODULE Njubrass -------------------------------
(* The dial-up client (CNjubrassDlg): what it remembers of a user between two   *)
(* runs, and what it does to the connection named njubras.                       *)
EXTENDS Integers, Sequences, SequencesExt

CONSTANTS Texts,    \* user names and passwords: sequences of characters 0 .. 255
          MaxRuns,  \* bound: starts of the program
          MaxDials  \* bound: connections tried

VARIABLES window,    \* "closed", "open", "hidden"
          button,    \* "Connect", "Connection...", "Disconnect"
          form,      \* user, pass, save, off (campus)
          reg,       \* Project1: made, user, pass, off
          ipsec,     \* ProhibitIPSec is set
          hrasconn,
          link,      \* the connection is up
          entry,     \* the number it dials: "none", "campus", "off"
          script,    \* tmp.cmd: "none", "running"
          kept,      \* the credentials as the user last had them saved; << >>: not to be kept
          runs, dials

vars == <<window, button, form, reg, ipsec, hrasconn, link, entry, script, kept, runs, dials>>

------------------------------------------------------------------------------
(* Base 64, but for "/": it is read as 47 where 63 was written. Characters are   *)
(* signed: the bits of one above 127 run over those of the one before it.        *)

Signed(c) == IF c > 127 THEN c - 256 ELSE c
EncryptSingleChar(v) ==
    LET c == v % 64
    IN  CASE c <= 25 -> c + 65 [] c \in 26 .. 51 -> c + 71 [] c \in 52 .. 61 -> c - 4
          [] c = 62 -> 43 [] c = 63 -> 47
DecryptSingleChar(c) ==
    CASE c \in 65 .. 90 -> c - 65 [] c \in 97 .. 122 -> c - 71 [] c \in 48 .. 57 -> c + 4
      [] c = 43 -> 62 [] c = 47 -> 47 [] OTHER -> 0

\* after | (cursig >> n), the low bits of after being free: a negative number covers it.
Joined(after, c, n) == IF c < 0 THEN 64 + (c \div 2^n) ELSE after + (c \div 2^n)

Group(str, pos) ==
    LET c == Signed(str[pos])
        before == Signed(str[pos - 1])
    IN  CASE pos % 3 = 1 -> <<EncryptSingleChar(c \div 4)>>
          [] pos % 3 = 2 -> <<EncryptSingleChar(Joined(16 * (before % 4), c, 4))>>
          [] OTHER -> <<EncryptSingleChar(Joined(4 * (before % 16), c, 6)), EncryptSingleChar(c)>>

Padding(str) ==
    CASE Len(str) % 3 = 1 -> <<EncryptSingleChar(16 * (Last(str) % 4)), 61, 61>>
      [] Len(str) % 3 = 2 -> <<EncryptSingleChar(4 * (Last(str) % 16)), 61>>
      [] OTHER -> << >>

\* Seeded bug: the bits left of an incomplete group are not written.
EncryptUnpadded(str) == FlattenSeq([pos \in DOMAIN str |-> Group(str, pos)])

Encrypt(str) == FlattenSeq([pos \in DOMAIN str |-> Group(str, pos)]) \o Padding(str)

\* It ends at the first "=".
Decrypt(str) ==
    LET n == IF Contains(str, 61) THEN CHOOSE i \in DOMAIN str : str[i] = 61 /\ \A j \in 1 .. i - 1 : str[j] # 61
             ELSE Len(str) + 1
        v == [i \in 1 .. n - 1 |-> DecryptSingleChar(str[i])]
        Char(pos) == CASE pos % 4 = 1 -> << >>
                       [] pos % 4 = 2 -> <<(4 * v[pos - 1] + v[pos] \div 16) % 256>>
                       [] pos % 4 = 3 -> <<(16 * (v[pos - 1] % 16) + v[pos] \div 4) % 256>>
                       [] OTHER -> <<(64 * (v[pos - 1] % 4) + v[pos]) % 256>>
    IN  FlattenSeq([pos \in 1 .. n - 1 |-> Char(pos)])

------------------------------------------------------------------------------
\* Reg_getvalue1: what was remembered is shown. "Save" is not: RegSetValueEx is given
\* the number for its address (reg_setvalue) and fails; and what ischecked holds is not
\* defined when there is no key at all.
Reg_getvalue1 ==
    \E checked \in IF reg.made THEN {FALSE} ELSE BOOLEAN :
        form' = [user |-> Decrypt(reg.user), pass |-> Decrypt(reg.pass), save |-> checked, off |-> reg.off]

\* A connection that is up is found, but its handle is dropped again (OnInitDialog).
FUNC1 == button' = IF link THEN "Disconnect" ELSE "Connect"

OnInitDialog ==
    /\ window = "closed" /\ runs < MaxRuns
    /\ runs' = runs + 1 /\ window' = "open"
    /\ Reg_getvalue1 /\ FUNC1
    /\ hrasconn' = FALSE /\ ipsec' = TRUE
    /\ UNCHANGED <<reg, link, entry, script, kept, dials>>

\* The first run asks for a restart of the computer.
FirstSetup ==
    /\ window = "open" /\ runs = 1 /\ dials = 0 /\ window' = "closed" /\ link' = FALSE
    /\ UNCHANGED <<button, form, reg, ipsec, hrasconn, entry, script, kept, runs, dials>>

Typing ==
    /\ window = "open" /\ button # "Disconnect"
    /\ \E t \in Texts, save, off \in BOOLEAN :
          form' = [user |-> t, pass |-> Reverse(t), save |-> save, off |-> off]
    /\ form' # form
    /\ UNCHANGED <<window, button, reg, ipsec, hrasconn, link, entry, script, kept, runs, dials>>

reg_setvalue ==
    /\ reg' = [made |-> TRUE, off |-> form.off,
               user |-> IF form.save THEN Encrypt(form.user) ELSE << >>,
               pass |-> IF form.save THEN Encrypt(form.pass) ELSE << >>]
    /\ kept' = IF form.save THEN <<form.user, form.pass>> ELSE << >>

\* The number in the entry is the one for where the user is; when it cannot be written,
\* the old one is dialled. What counts is not what RasDial returned, but the last error.
OnConnect ==
    /\ window = "open" /\ button # "Disconnect" /\ dials < MaxDials
    /\ dials' = dials + 1
    /\ reg_setvalue
    /\ entry' \in {entry, IF form.off THEN "off" ELSE "campus"}
    /\ \E dialled, error \in BOOLEAN :
          /\ dialled => entry' # "none"
          /\ link' = (dialled /\ ~error) /\ hrasconn' = (dialled /\ ~error)
          /\ window' = IF error THEN "open" ELSE "hidden"
          /\ button' = IF error THEN "Connection..." ELSE "Disconnect"
          /\ script' = IF error \/ form.off THEN script ELSE "running"
    /\ UNCHANGED <<form, ipsec, runs>>

\* After a success the program ends; the connection stays.
SuccessRet ==
    /\ window = "hidden" /\ window' = "closed"
    /\ script' = "none"      \* deleted after a second, executed by then or not
    /\ UNCHANGED <<button, form, reg, ipsec, hrasconn, link, entry, kept, runs, dials>>

\* The handle of a connection found at the start is not known: nothing happens.
Disconnect ==
    /\ window = "open" /\ button = "Disconnect" /\ hrasconn
    /\ link' = FALSE /\ hrasconn' = FALSE /\ button' = "Connect"
    /\ UNCHANGED <<window, form, reg, ipsec, entry, script, kept, runs, dials>>

OnBnClickedExit ==
    /\ window = "open" /\ window' = "closed"
    /\ reg_setvalue
    /\ UNCHANGED <<button, form, ipsec, hrasconn, link, entry, script, runs, dials>>

OnCancel ==
    /\ window = "open" /\ window' = "closed"
    /\ UNCHANGED <<button, form, reg, ipsec, hrasconn, link, entry, script, kept, runs, dials>>

LinkLost ==
    /\ link /\ link' = FALSE
    /\ UNCHANGED <<window, button, form, reg, ipsec, hrasconn, entry, script, kept, runs, dials>>

------------------------------------------------------------------------------
Init ==
    /\ window = "closed" /\ button = "Connect"
    /\ form = [user |-> << >>, pass |-> << >>, save |-> FALSE, off |-> FALSE]
    /\ reg = [made |-> FALSE, user |-> << >>, pass |-> << >>, off |-> FALSE]
    /\ ipsec \in BOOLEAN /\ hrasconn = FALSE /\ link \in BOOLEAN /\ entry = "none" /\ script = "none"
    /\ kept = << >> /\ runs = 0 /\ dials = 0

Next ==
    \/ OnInitDialog \/ FirstSetup \/ Typing \/ OnConnect \/ SuccessRet \/ Disconnect
    \/ OnBnClickedExit \/ OnCancel \/ LinkLost

Spec == Init /\ [][Next]_vars

------------------------------------------------------------------------------
\* Characters that survive: ASCII, and no six bits of the text are all ones.
Survives(t) == (\A i \in DOMAIN t : t[i] < 128) /\ ~Contains(Encrypt(t), 47)

\* What the user had saved last is what the next run shows, and what was not to be saved
\* is not in the registry (reg_setvalue, Reg_getvalue1, Encrypt, Decrypt).
CredentialsKept ==
    IF kept = << >> THEN reg.user = << >> /\ reg.pass = << >>
    ELSE \A i \in {1, 2} :
            Survives(kept[i]) => kept[i] = Decrypt(IF i = 1 THEN reg.user ELSE reg.pass)
=============================================================================
