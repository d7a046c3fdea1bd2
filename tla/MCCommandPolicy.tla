-------------------------- MODULE MCCommandPolicy ---------------------------
EXTENDS CommandPolicy, TLC

SomePaths ==
    [f |-> <<"f.go">>, df |-> <<"d", "..", "f.go">>, up |-> <<"d", "..", "..", "f.go">>,
     abs |-> <<"/", "f.go">>, dot |-> <<".">>, d |-> <<"d">>, parent |-> <<"..">>,
     hidden |-> <<"d", ".git", "f.go">>, dash |-> <<".", "-x">>, key |-> <<"d", "key.go">>]
    @@ ("./git" :> <<".", "git">>) @@ ("/x/cat" :> <<"/", "x", "cat">>)

ReadableNames  == {"f.go", "key.go"}
SensitiveNames == {"key.go"}
SmallNumerals  == [v \in {"0", "3", "30", "1"} |->
                    CASE v = "0" -> 0 [] v = "1" -> 1 [] v = "3" -> 3 [] OTHER -> 30]

\* core.fsmonitor=false and core.fsmonitor=./watch
SomeSettings ==
    [off   |-> [key |-> "core.fsmonitor", runs |-> FALSE],
     watch |-> [key |-> "core.fsmonitor", runs |-> TRUE],
     user  |-> [key |-> "user.name", runs |-> FALSE]]

OptionWords ==
    {F("-C"), F("-c"), A("-C", "d"), W("d"), W("parent"), W("abs"), W("off"), W("watch"),
     W("user"), W("status"), F("--short"), W("commit")}
GitWords ==
    [status |-> {F("--short"), F("--porcelain"), W("f")},
     diff   |-> {F("--"), F("--stat"), F("--check"), W("f"), W("up"), W("hidden")},
     log    |-> {A("-", "1"), F("--format"), F("--oneline"), F("--"), W("df")},
     branch |-> {F("--show-current"), W("f")},
     checkout |-> {F("--"), W("f")},
     remote |-> {F("-v"), W("f")}]
LogWords ==
    {F("-n"), A("-", "30"), A("--max-count", "3"), F("--oneline"), F("--"), W("3"),
     W("df"), W("up"), W("*.go")}
RevWords == {W("HEAD"), F("--abbrev-ref"), F("--git-dir"), W("f")}
FileWords == {W("f"), W("df"), W("up"), W("abs"), W("hidden"), W("key"), W("dash"), W("dot")}
RgWords ==
    {F("-F"), F("-q"), F("-n"), F("-C"), A("-C", "3"), F("-g"), F("--pre"), W("3"),
     W("f"), W("up"), W("dot")}
HeadWords == {F("-n"), A("-n", "3"), A("-", "3"), A("-n", "0"), W("3"), W("f"), W("key")}
ToolWords ==
    [t \in {"go", "npm", "cargo", "make"} |->
        {W("test"), W("version"), F("--version"), W("install")}]
    @@ [node |-> {F("--test"), F("--version"), W("f")},
        python |-> {F("-m"), W("pytest"), W("test"), F("--version")}]
ProbeWords ==
    [ls |-> {F("-p"), W("d"), W("parent"), W("hidden"), W("f")},
     which |-> {W("go"), F("-a"), W("f")}, uname |-> {F("-a"), W("f")},
     printenv |-> {W("HOME"), W("f")}, whoami |-> {W("f")}]

StartWords ==
    [p \in {<<W("git")>>, <<W("git"), F("-C"), W("d")>>} |-> OptionWords]
    @@ [p \in {<<W("./git")>>} |-> {F("-c"), W("watch"), W("status"), F("--short"), W("commit")}]
    @@ [p \in {<<W("git"), W(sub)>> : sub \in DOMAIN GitWords} |-> GitWords[p[2].val]]
    @@ [p \in {<<W("git"), W("log"), F("--oneline")>>} |-> LogWords]
    @@ [p \in {<<W("git"), W("rev-parse")>>, <<W("git"), W("ls-files")>>} |-> RevWords]
    @@ [p \in {<<W("cat")>>, <<W("/x/cat")>>, <<W("file")>>} |-> FileWords]
    @@ [p \in {<<W("sed")>>} |-> {F("-n"), W("1,3p"), W("1w out")} \cup {W("f"), W("up")}]
    @@ [p \in {<<W("head")>>, <<W("tail")>>} |-> HeadWords]
    @@ [p \in {<<W("nl")>>} |-> {A("-b", "a"), F("-n"), W("f"), W("key")}]
    @@ [p \in {<<W("grep")>>} |-> {F("-F"), F("-q"), F("-r"), W("f"), W("up")}]
    @@ [p \in {<<W("rg")>>} |-> RgWords]
    @@ [p \in {<<W(t)>> : t \in DOMAIN ToolWords} |-> ToolWords[p[1].val]]
    @@ [p \in {<<W(t)>> : t \in DOMAIN ProbeWords} |-> ProbeWords[p[1].val]]

AllStarts == DOMAIN StartWords
=============================================================================
