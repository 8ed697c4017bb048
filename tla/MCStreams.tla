----------------------------- MODULE MCStreams -----------------------------
(* The readers and writers that are used.                                   *)
EXTENDS Streams

Text(n) == [i \in 1..n |-> << <<"a", "b", "c", "d", "e">>[i] >>]
MCReader(driver, most, kinds, data, cut, size, ops) ==
    [driver |-> driver, most |-> most, kinds |-> kinds, data |-> data, cut |-> cut, size |-> size, ops |-> ops]
ReadChains == {<< >>, << "size" >>, << "ungz", "hash" >>, << "hash", "unlz4", "size" >>, << "size", "decrypt", "unzst", "hash" >>,
               << "decryptRaw" >>, << "unbz2", "size", "lz4" >>}
PackChains == {<< "hash", "size", "gz", "encrypt", "hash", "size" >>, << "lz4", "size" >>, << "zst", "encryptRaw" >>}
Encoded(kinds, s) ==
    FoldRight(LAMBDA k, t : CASE k \in {"ungz", "unbz2", "unlz4", "unzst"} -> PackedAll(t)
                             [] k \in {"decrypt", "decryptRaw"} -> Encrypted(t, k = "decryptRaw")
                             [] OTHER -> t, kinds, s)
Damages == {<< "ungz", "hash" >>, << "size", "decrypt", "unzst", "hash" >>, << "decryptRaw" >>, << "unlz4" >>, << "decrypt", "unbz2" >>}
Lf(s) == [i \in DOMAIN s |-> IF s[i] = << "d" >> THEN LineEnd ELSE s[i]]
Lined == {<< >>, << LineEnd >>, << << "a" >>, LineEnd, << "b" >>, << "c" >>, LineEnd, LineEnd, << "d" >> >>,
          << << "a" >>, << "b" >>, << "c" >>, LineEnd, << "d" >> >>}
MCDigits(s) == [i \in DOMAIN s |-> << s[i] >>]
MCReaderCalls ==
    UNION {{MCReader("buffer", 0, k, Encoded(k, Text(n)), 99, s, {"read"}) : n \in {0, 1, 3, 4, 5}, s \in 1..3} : k \in ReadChains}
    \cup UNION {{MCReader("buffer", 0, k, Encoded(k, Text(n)), 99, s, {"read", "small"}) : n \in {4, 5}, s \in 1..3} : k \in ReadChains \ {<< "unbz2", "size", "lz4" >>}}
    \cup {MCReader("buffer", 0, k, Text(n), 99, s, {"read"}) : k \in PackChains, n \in {0, 1, 4, 5}, s \in 1..3}
    \cup UNION {UNION {{MCReader("buffer", 0, k, Encoded(k, Text(n)), cut, s, {"read"}) : cut \in 0..(Len(Encoded(k, Text(n))) - 1), s \in 1..3} : n \in {1, 4}} : k \in Damages}
    \cup {MCReader(d, m, << >>, t, 99, s, o) : d \in {"fd", "stalls"}, m \in {1, 2}, t \in Lined, s \in {2, 3}, o \in {{"read", "line"}, {"small", "line"}, {"flush", "line"}}}
    \cup UNION {{MCReader("buffer", 0, k, Encoded(k, t), 99, s, {"line", "last"}) : t \in Lined, s \in 2..5} : k \in {<< >>, << "hash" >>, << "hash", "decrypt" >>}}
    \cup {MCReader("fd", m, << >>, MCDigits(t), 99, 2, {"number"}) : m \in {1, 2}, t \in {<< "last", "more", "last", "more", "more", "last" >>, << "more", "more", "more", "more" >>, << "more" >>, << >>}}
    \cup UNION {{MCReader("limit", 0, k, Encoded(k, Text(4)) \o Text(n), Len(Encoded(k, Text(4))), s, {"read"}) : n \in 0..2, s \in 1..3} : k \in {<< "hash" >>, << "decrypt", "unzst" >>, << "ungz" >>}}
MCWriterCalls == {[kinds |-> k, data |-> Text(n), size |-> s] : k \in PackChains \cup {<< >>, << "size" >>, << "bz2" >>, << "hash", "lz4", "encrypt", "size" >>}, n \in {0, 1, 4, 5}, s \in 1..3}
MCPollCalls == [timeout : 0..3, polls : UNION {[1..n -> [is : {"event", "interrupt"}, after : 0..3]] : n \in 0..3}]
MCCopyCalls == {[kinds |-> k, data |-> Encoded(k, Text(n)), size |-> s, limit |-> l, to |-> t] : k \in {<< >>, << "decrypt", "unlz4" >>, << "hash", "ungz", "size" >>}, n \in {0, 3, 5}, s \in 1..3, l \in {<< >>, << 0 >>, << 2 >>, << 3 >>, << 9 >>}, t \in {<< >>, << "gz", "size" >>}}
=============================================================================
