---------------------------- MODULE MCObjectStore ----------------------------
(* Object stores, with the arguments the calls are made with.               *)
EXTENDS ObjectStore

Reply(is, blocks, close) == [is |-> is, blocks |-> blocks, close |-> close]
MCHttpReplies == {Reply("ok", 0, FALSE), Reply("ok", 2, FALSE), Reply("ok", 1, TRUE), Reply("cut", 1, FALSE),
                  Reply("busy", 1, FALSE), Reply("lost", 0, FALSE)}

MCBodyCalls == {a \in [chunked : BOOLEAN, chunks : {<< >>, << 1 >>, << 3 >>, << 2, 3 >>, << 1, 1, 4 >>}, room : 1..4,
                       cut : 0..5, next : {<< >>, << 77, 78 >>}] : a.cut > 0 => a.next = << >>}
Contents(n) == UNION {[1..k -> {"b", "1", "2", "x"}] : k \in 0..n}
MCMultiCalls == [parts : UNION {[1..k -> Contents(2)] : k \in 1..2} \cup {<< << "b", "1", "b" >>, << "b", "x", "b", "1", "2" >> >>},
                 init : {<< "b" >>}, extra : {<< "1", "2" >>}]
Chars == {"a", "/", "%", " "}
MCUriCalls == [uri : UNION {[1..k -> Chars] : k \in 0..3}, path : BOOLEAN]
Keys == {<< "a" >>, << "a", "=" >>, << "%" >>}
Values == {<< >>, << "&", "b" >>, << "=" >>}
MCQueryCalls == [query : {<< << k, v >> >> : k \in Keys, v \in Values} \cup {<< << << "a" >>, v >>, << << "%" >>, << "c" >> >> >> : v \in Values},
                 more : {<< >>} \cup {<< << k, v >> >> : k \in Keys, v \in Values}]
MCUrlCalls == [url : [scheme : {None, "http", "https"}, host : {"h"}, port : {0, 8080}, path : {None, "/p"}],
               expected : {"http", "https", None}]
MCHeaderCalls == [encoding : {None, "chunked", "gzip"}, length : 0..1, close : BOOLEAN, head : BOOLEAN]

Version(t, g) == [time |-> t, gone |-> g]
ObjectVersions == {<< Version(1, FALSE) >>, << Version(4, FALSE) >>, << Version(1, FALSE), Version(3, FALSE), Version(4, FALSE) >>,
             << Version(2, FALSE), Version(3, TRUE) >>, << Version(1, FALSE), Version(2, TRUE), Version(4, FALSE) >>,
             << Version(3, FALSE), Version(3, FALSE) >>}
MCListCalls == [kind : {"s3", "gcs"}, target : 0..4, page : 1..3,
                objects : UNION {{[i \in 1..k |-> [name |-> i, versions |-> v[i]]] : v \in [1..k -> ObjectVersions]} : k \in 0..3}]

Names == {"a", "b", "c", "d", "e"}
MCPathRemoveCalls == [kind : {"s3", "azure", "gcs"}, max : 1..3, objects : {<< >>, << "a", "b", "c", "d", "e" >>, << "a", "b" >>},
                      others : {{"z"}}, refuse : {[x \in Names \cup {"z"} |-> IF x = y THEN n ELSE IF x = z THEN 1 ELSE 0] : y, z \in Names, n \in 0..2}]
MCFileCalls == [kind : {"s3", "azure", "gcs"}, code : {"ok", "missing", "bad"}, version : BOOLEAN, id : BOOLEAN, ignoreMissing : BOOLEAN]
=============================================================================
