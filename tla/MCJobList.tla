----------------------------- MODULE MCJobList -----------------------------
(***************************************************************************)
(* JobList for lists of three entries: two regions of one channel, files   *)
(* that share a container, a title without a switch, a set of subtasks, a  *)
(* file that two tasks provide, entries that are not eligible and one that *)
(* is not in use.                                                          *)
(***************************************************************************)
EXTENDS JobList

Forecast == <<"H", "A", "F">>
News == <<"H", "A", "G">>
MCChannels == {Forecast, News}
MCDeadHosts == [h \in {"old"} |-> "new"]

URL(plain, host) == [plain |-> plain, host |-> host, ids |-> <<>>]

File(stem, ids) == [stem |-> stem, ids |-> ids]

Task(prefix, region, filename, subtasks, url) ==
    [used |-> TRUE, low |-> 2, high |-> Append(prefix, region),
     filename |-> filename, subtasks |-> subtasks, url |-> url]

Kinds == {
    Task(Forecast, "E", File("3", <<>>), {}, URL(TRUE, "host")),
    Task(Forecast, "E", File("4", <<>>), {}, URL(TRUE, "old")),
    Task(Forecast, "P", File("3", <<>>), {}, URL(TRUE, "host")),
    Task(News, "E", File("2", <<>>), {0, 2}, URL(TRUE, "host")),
    Task(News, "E", File("2", <<0>>), {}, URL(TRUE, "host")),
    Task(<<"R", "Z", "T">>, "E", File("3", <<>>), {}, URL(TRUE, "old")),
    Task(News, "E", File("", <<>>), {}, URL(TRUE, "host")),
    Task(<<"R", "M", "C">>, "E", File("3", <<>>), {}, URL(FALSE, "host")),
    [Task(Forecast, "E", File("3", <<>>), {}, URL(TRUE, "host")) EXCEPT !.used = FALSE]}

\* An entry's index is its place in the list.
At(kind, index) ==
    [index |-> index, used |-> kind.used, low |-> kind.low, high |-> kind.high,
     filename |-> kind.filename, subtasks |-> kind.subtasks, url |-> kind.url]

MCEntry == {At(kind, index) : kind \in Kinds, index \in 0 .. 2}
MCLists == {l \in [1 .. 3 -> MCEntry] : \A i \in 1 .. 3 : l[i].index = i - 1}
=============================================================================
