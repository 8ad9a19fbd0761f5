---------------------------- MODULE MCKernelMemory ----------------------------
EXTENDS KernelMemory

Note(id, at, evidence, text) ==
  [id |-> id, kind |-> "observation", summary |-> id, at |-> at, ceremony |-> "c",
   role |-> {"operator"}, strand |-> {}, detail |-> Detail(text), evidence |-> evidence]
Edge(from, to) == [from |-> from, to |-> to, kind |-> "follows_from", why |-> "because"]

\* Two entries and the reason between them; one entry explained by another
\* writer's words; a web of reasons with a short way, a long one and a way round in
\* a circle.
Both == [is |-> "remember", key |-> "both",
         write |-> [entries |-> <<Note("e1", 1, <<"log">>, "12"), Note("e3", 3, <<"log", "trace">>, "x")>>,
                    relations |-> <<Edge("e3", "e1")>>]]
Second == [is |-> "remember", key |-> "second",
           write |-> [entries |-> <<Note("e2", 2, <<>>, "x")>>, relations |-> <<Edge("e2", "e3")>>]]
Web == [is |-> "remember", key |-> "web",
        write |-> [entries |-> <<>>,
                   relations |-> <<Edge("e3", "b"), Edge("e3", "c"), Edge("b", "d"),
                                   Edge("d", "b"), Edge("d", "t"), Edge("c", "t")>>]]

MCJobs ==
  {Both, Second, Web, [is |-> "recall", moment |-> EndOfTime], [is |-> "as_known_at", moment |-> 2],
   [is |-> "follow", from |-> "e3", to |-> "t"], [is |-> "follow", from |-> "b", to |-> "e1"],
   [is |-> "ask"]}

\* Nothing, or a ticket of a kind this engine does not model.
MCForeign ==
  {[entries |-> <<>>, edges |-> <<>>],
   [entries |-> <<[ref |-> <<"session", "ticket">>, kind |-> "ticket", text |-> "x", at |-> {1},
                   coordinates |-> {}, metadata |-> "x"]>>,
    edges |-> <<[from |-> <<"session", "ticket">>, to |-> <<"other", "z">>, rel |-> "contains",
                 why |-> "x", evidence |-> {}]>>]}
MCParses == {"12"}
Symmetry == Permutations(Callers)
=============================================================================
