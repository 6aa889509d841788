--------------------------- MODULE MCFirstIssuance --------------------------
(* An instance of the first issuance for TLC. *)
EXTENDS FirstIssuance

\* example.com, a.example.com, *.example.com, other.com, com
MCNames == {<<1, 2>>, <<1, 2, 3>>, <<1, 2, Star>>, <<1, 4>>, <<1>>}

\* Every list of up to two names, and of three if spelled plainly.
MCPayloads ==
    (SeqOf(RawDomain(MCNames), 2) \ {<<>>})
        \union [1 .. 3 -> [name : MCNames \ {<<1>>}, spelling : {"plain"}]]

MCAnswers ==
    [exit : {1, 75}, out : SUBSET {"dns", "auth"}, err : SUBSET Signals,
     paths : {{}}, dates : {{}}, readable : {FALSE}]
    \union
    [exit : {0}, out : {{}}, err : {{}, {"rate"}},
     paths : {Files, Files \ {"fullchain"}, {"key", "chain"}},
     dates : {{}, {"next renewal"}}, readable : BOOLEAN]

Var(w, s) == [word |-> w, spelling |-> s]
Line(k, n, q) == [key |-> k, named |-> n, quoted |-> q]

\* Assigned twice, then badly named; blocked in two spellings, one of which the
\* service has too; the log file; an open quote, also of a blocked variable.
MCEnvFiles ==
    LET token == Line(Var("TOKEN", "upper"), TRUE, TRUE)
    IN  {<<>>,
         <<token, Line(Var("TOKEN", "lower"), TRUE, TRUE), token,
           Line(Var("TOKEN", "upper"), FALSE, TRUE)>>,
         <<Line(Var("PATH", "upper"), TRUE, TRUE),
           Line(Var("PATH", "lower"), TRUE, TRUE), token,
           Line(LogFile, TRUE, TRUE)>>,
         <<token, Line(Var("HOME", "mixed"), TRUE, FALSE)>>,
         <<Line(Var("TOKEN", "upper"), TRUE, FALSE)>>}

MCEnviron == {Var("PATH", "upper"), Var("HOME", "upper"), Var("TOKEN", "lower")}
=============================================================================
