-------------------------------- MODULE AcmeSh ------------------------------
(***************************************************************************)
(* What AcmeShBackend makes of an acme.sh that has exited.  An answer is   *)
(* the exit code, the phrases found in the two output streams, the lines   *)
(* that name files and dates, and whether the date can be read:            *)
(*   - out, err: the groups of phrases classify_exit looks for, and       *)
(*     "revoked" for a certificate that was already revoked;               *)
(*   - paths: the files whose path is reported; dates: the kinds of date   *)
(*     line; readable: whether the date, or the certificate if there is no *)
(*     date line, can be parsed.                                           *)
(***************************************************************************)
EXTENDS Integers, Sequences, SequencesExt

Signals == {"dns", "rate", "auth", "config", "revoked"}
Files == {"cert", "key", "chain", "fullchain"}
DateLines == {"expired at", "next renewal", "not after"}

Answer == [exit : Nat, out : SUBSET Signals, err : SUBSET Signals,
           paths : SUBSET Files, dates : SUBSET DateLines,
           readable : BOOLEAN]

-----------------------------------------------------------------------------
(***************************************************************************)
(* classify_exit: the first group of phrases found decides, then the exit *)
(* code.  text is what the error carries; only the last case carries both  *)
(* streams.                                                                *)
(***************************************************************************)
Error(class, text) == [class |-> class, text |-> text]

\* Mutant: terminal phrases are looked for first.
ClassifyTerminalFirst(a) ==
    LET said == a.out \union a.err
    IN  IF said \intersect {"auth", "config"} # {} THEN Error("terminal", a.err)
        ELSE IF said \intersect {"dns", "rate"} # {} \/ a.exit = 75
             THEN Error("transient", a.err)
        ELSE Error("terminal", said)

classify_exit(a) ==
    LET said == a.out \union a.err
    IN  IF said \intersect {"dns", "rate"} # {} THEN Error("transient", a.err)
        ELSE IF said \intersect {"auth", "config"} # {}
             THEN Error("terminal", a.err)
        ELSE IF a.exit = 75 THEN Error("transient", a.err)
        ELSE Error("terminal", said)

(***************************************************************************)
(* issue_certificate and renew_certificate: the class of the error, or     *)
(* "ok".  A command that exited with 0 is still an error if its output     *)
(* names no certificate, key or chain (a missing full chain is taken to be *)
(* beside the certificate), or no expiry can be had.                       *)
(***************************************************************************)
parse_cert_paths(a) == {"cert", "key", "chain"} \subseteq a.paths

Issuance(a) ==
    IF a.exit # 0 THEN classify_exit(a).class
    ELSE IF parse_cert_paths(a) /\ a.readable THEN "ok" ELSE "terminal"

(***************************************************************************)
(* cert_expiry_from_output: the date lines in the order of _DATE_PATTERNS, *)
(* and without any, the notAfter that openssl reads.  A "next renewal"     *)
(* line is acme.sh's own date, which is taken for the expiry.              *)
(***************************************************************************)
ExpiryFromOutput(a, notAfter, nextRenewal) ==
    IF "expired at" \in a.dates THEN notAfter
    ELSE IF "next renewal" \in a.dates THEN nextRenewal
    ELSE notAfter

(***************************************************************************)
(* revoke_certificate: returns, or raises an error.  A terminal error that *)
(* mentions an earlier revocation is a success.                            *)
(***************************************************************************)
\* Mutant: every terminal error is taken for an earlier revocation.
RevocationTerminalIsDone(a) ==
    IF a.exit = 0 \/ classify_exit(a).class = "terminal" THEN "ok"
    ELSE "transient"

Revocation(a) ==
    LET error == classify_exit(a)
    IN  IF \/ a.exit = 0
           \/ error.class = "terminal" /\ "revoked" \in error.text
        THEN "ok" ELSE error.class

(***************************************************************************)
(* make_dns_persist_value: the labelled line, or the only line if it is a  *)
(* single word.  value is what the output holds.                           *)
(***************************************************************************)
PersistValues == {"labelled", "single word", "other"}

PersistValue(a, value) ==
    IF a.exit # 0 THEN classify_exit(a).class
    ELSE IF value \in {"labelled", "single word"} THEN "ok" ELSE "terminal"

-----------------------------------------------------------------------------
(***************************************************************************)
(* load_env_vars: the assignments of the DNS provider's file, in order.    *)
(* A variable is a word and the case it is spelled in; a line has the      *)
(* variable it sets, and whether the name and the quotes of the value are  *)
(* well formed.                                                            *)
(***************************************************************************)
EnvKey == [word : STRING, spelling : {"upper", "lower", "mixed"}]
EnvLine == [key : EnvKey, named : BOOLEAN, quoted : BOOLEAN]

\* _BLOCKED_ENV_KEYS: what decides how a command is found and run.
BlockedWords ==
    {"PATH", "HOME", "LD_PRELOAD", "LD_LIBRARY_PATH", "PYTHONPATH",
     "PYTHONHOME", "VIRTUAL_ENV", "IFS", "ENV", "BASH_ENV", "SHELL"}

BLOCKED_ENV_KEYS == {[word |-> w, spelling |-> "upper"] : w \in BlockedWords}

\* Mutant: the name is compared as it is spelled.
BlockedAsSpelled(key) == key \in BLOCKED_ENV_KEYS

Blocked(key) == [key EXCEPT !.spelling = "upper"] \in BLOCKED_ENV_KEYS

Taken(line) == line.named /\ ~Blocked(line.key)

\* shlex.split raises a ValueError, which no caller handles.
EnvRaises(lines) == \E i \in DOMAIN lines : Taken(lines[i]) /\ ~lines[i].quoted

\* A variable gets the value of the last line that sets it.
Assigned(env, line, i) ==
    IF ~Taken(line) THEN env
    ELSE [k \in DOMAIN env \union {line.key} |->
             IF k = line.key THEN i ELSE env[k]]

\* The variables set, each with the line its value is from.
load_env_vars(lines) ==
    LET env[n \in 0 .. Len(lines)] ==
            IF n = 0 THEN <<>> ELSE Assigned(env[n - 1], lines[n], n)
    IN  env[Len(lines)]

(***************************************************************************)
(* The environment acme.sh runs in: that of the service, then the          *)
(* provider's file, then the log file if one is configured.  Each variable *)
(* has the line its value is from, or where else it comes from.            *)
(***************************************************************************)
Inherited == 0
Configured == -1
LogFile == [word |-> "LOG_FILE", spelling |-> "upper"]

CommandEnv(environ, lines, logged) ==
    LET file == load_env_vars(lines)
        log == IF logged THEN {LogFile} ELSE {}
    IN  [k \in environ \union DOMAIN file \union log |->
            IF k \in log THEN Configured
            ELSE IF k \in DOMAIN file THEN file[k] ELSE Inherited]

=============================================================================
