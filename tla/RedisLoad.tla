------------------------------ MODULE RedisLoad ------------------------------
(***************************************************************************)
(* redis_fpga.c as a client of Redis: load_dataset_generic parses a CSV    *)
(* file and stores it one HSET at a time, and the four queries of main     *)
(* read it back.  The server keeps what earlier loads have stored.         *)
(*                                                                         *)
(* Any command may fail on its own: the server refuses it with an error    *)
(* reply (no memory, a disk that is full, a key of another type), or the   *)
(* connection is broken and redisCommand returns NULL, as it does from     *)
(* then on.  The client frees the reply that there is and goes on.  A      *)
(* command that fails changes nothing; one of which only the reply is lost *)
(* has been carried out.                                                   *)
(***************************************************************************)
EXTENDS Integers, Sequences, FiniteSets

CONSTANTS
  Files,      \* CSV files: sequences of lines, which are sequences of fields
  Leftovers,  \* what may be on the server before the load: [schema, rows]
  MaxCols,    \* MAX_COLS
  Empty,      \* a field of no characters
  Word,       \* a field that is not a number; the other fields are numbers
  Names       \* the names of columns, and Empty

ASSUME MaxColsAssumption == MaxCols \in Nat \ {0}

(* A line has at least one field; what follows the header is the data.     *)
ASSUME FilesAssumption ==
  \A f \in Files :
    /\ f \in Seq(Seq(Names \union Int \union {Word}) \ {<<>>})
    /\ \A n \in 2 .. Len(f) : f[n] \in Seq(Int \union {Word, Empty})

(* Every value that is stored is a number or a word.                       *)
IsServer(s) ==
  /\ s = [schema |-> s.schema, rows |-> s.rows]
  /\ \A r \in DOMAIN s.rows : \A x \in DOMAIN s.rows[r] :
       s.rows[r][x] \in Int \union {Word}

ASSUME LeftoversAssumption == \A s \in Leftovers : IsServer(s)

VARIABLES
  file,      \* the lines of the file
  redis,     \* the server: [schema, rows], hashes as functions
  pc,
  schema,    \* the client's columns, a sequence of [name, isInt]
  line,      \* index of the line that is parsed
  row,       \* number of the row that is stored, or that is queried
  col,       \* index of the column that is stored
  rowCount,  \* what load_dataset_generic returned
  sum,       \* global_sum, or total_sum
  count,     \* rows that the projection has seen
  results,   \* what was printed: [sum, total, count] once it has been
  refused,   \* history: the commands of the load that have failed, as
             \* [del, cols, rows]: DEL schema, columns of HSET schema, rows
  answered,  \* history: the rows that a query has read, [project, aggregate]
  missed,    \* history: the rows that a select has found empty
  persistent, \* argv[1] is 1
  conf,      \* the server's settings of persistence
  ignored    \* history: a CONFIG SET failed, and nobody noticed

server == <<persistent, conf, ignored>>
history == <<refused, answered, missed>>
redisVars == <<file, redis, pc, schema, line, row, col, rowCount, sum, count,
               results, history, server>>

(* What a server may be set to: by its own file, or by an earlier run. *)
Settings == [save : {"", "60 1", "3600 1"}, appendonly : {"yes", "no"},
             appendfsync : {"everysec"}]

NoHash == <<>>
NoResults == [sum |-> 0, total |-> 0, count |-> 0]
NoneRefused == [del |-> FALSE, cols |-> {}, rows |-> {}]
NoneAnswered == [query \in {"project", "aggregate"} |-> {}]

RedisInit ==
  /\ file \in Files
  /\ redis \in Leftovers
  /\ pc = "connect"
  /\ persistent \in BOOLEAN
  /\ conf \in Settings
  /\ ignored = FALSE
  /\ schema = <<>>
  /\ line = 1
  /\ row = 0
  /\ col = 1
  /\ rowCount = 0
  /\ sum = 0
  /\ count = 0
  /\ results = NoResults
  /\ refused = NoneRefused /\ answered = NoneAnswered /\ missed = {}

-----------------------------------------------------------------------------
(* main before the load *)

Data == <<file, redis, schema, line, row, rowCount, sum, count, results,
          history>>

(* redisConnect; a connection error ends the program. *)
Connect ==
  /\ pc = "connect"
  /\ pc' \in {"config", "noServer"}
  /\ UNCHANGED <<Data, col, server>>

(* Mutant: the log that an earlier run has turned on is left on. *)
CommandsKeepLog ==
  IF persistent
  THEN << <<"appendonly", "yes">>, <<"appendfsync", "everysec">>, <<"save", "60 1">> >>
  ELSE << <<"save", "">> >>

Commands ==
  IF persistent
  THEN << <<"appendonly", "yes">>, <<"appendfsync", "everysec">>, <<"save", "60 1">> >>
  ELSE << <<"save", "">>, <<"appendonly", "no">> >>

(* CONFIG SET, one command after the other; an error reply (the log cannot *)
(* be opened) is freed like any other.                                     *)
SetPersistence ==
  /\ pc = "config" /\ col =< Len(Commands)
  /\ \/ /\ conf' = [conf EXCEPT ![Commands[col][1]] = Commands[col][2]]
        /\ UNCHANGED ignored
     \/ conf' = conf /\ ignored' = TRUE
  /\ col' = col + 1
  /\ UNCHANGED <<Data, pc, persistent>>

PersistenceSet ==
  /\ pc = "config" /\ col > Len(Commands)
  /\ pc' = "open"
  /\ col' = 1
  /\ UNCHANGED <<Data, server>>

-----------------------------------------------------------------------------
(* Parsing *)

(* strtok_r(.., ",", ..): empty fields are no tokens. *)
Tokens(n) ==
  LET t[j \in 0 .. Len(file[n])] ==
        IF j = 0 THEN <<>>
        ELSE IF file[n][j] = Empty THEN t[j - 1] ELSE Append(t[j - 1], file[n][j])
  IN t[Len(file[n])]

IsInt(f) == f # Word

AtMost(n, s) == IF Len(s) =< n THEN s ELSE SubSeq(s, 1, n)

(* Mutant: the number of columns is not bounded. *)
SchemaUnbounded ==
  LET names == Tokens(1)
      first == Tokens(2)
  IN [k \in DOMAIN names |->
       [name |-> names[k], isInt |-> k \in DOMAIN first => IsInt(first[k])]]

(* The header, and the types as the first row suggests them: a column for  *)
(* which the first row has no token stays an int.                          *)
ParsedSchema ==
  LET names == AtMost(MaxCols, Tokens(1))
      first == Tokens(2)
  IN [k \in DOMAIN names |->
       [name |-> names[k], isInt |-> k \in DOMAIN first => IsInt(first[k])]]

(* Local steps up to the first command. *)
Parse ==
  /\ pc = "open"
  /\ Len(file) >= 2
  /\ pc' = "del"
  /\ schema' = ParsedSchema
  /\ UNCHANGED <<file, redis, line, row, col, rowCount, sum, count, results,
                 history>>

(* An empty file, or no line but the header: the load returns 0. *)
ParseFails ==
  /\ pc = "open"
  /\ Len(file) < 2
  /\ pc' \in {"gauss", "end"}
  /\ schema' = IF file = <<>> THEN <<>> ELSE
                 LET names == AtMost(MaxCols, Tokens(1))
                 IN [k \in DOMAIN names |-> [name |-> names[k], isInt |-> TRUE]]
  /\ row' = 1
  /\ UNCHANGED <<file, redis, line, col, rowCount, sum, count, results,
                 history>>

-----------------------------------------------------------------------------
(* The server *)

Put(hash, key, value) ==
  [x \in DOMAIN hash \union {key} |-> IF x = key THEN value ELSE hash[x]]

Hash(r) == IF r \in DOMAIN redis.rows THEN redis.rows[r] ELSE NoHash

(* HSET row:r name value *)
Hset(r, name, value) ==
  redis' = [redis EXCEPT !.rows = Put(@, r, Put(Hash(r), name, value))]

-----------------------------------------------------------------------------
(* load_dataset_generic *)

(* Mutant: the schema of the last load is kept. *)
KeepSchema ==
  /\ pc = "del"
  /\ pc' = "schema"
  /\ UNCHANGED <<file, redis, schema, line, row, col, rowCount, sum, count,
                 results, history>>

DelSchema ==
  /\ pc = "del"
  /\ pc' = "schema"
  /\ \/ redis' = [redis EXCEPT !.schema = NoHash] /\ UNCHANGED refused
     \/ refused' = [refused EXCEPT !.del = TRUE] /\ UNCHANGED redis
  /\ UNCHANGED <<file, schema, line, row, col, rowCount, sum, count, results,
                 answered, missed>>

HsetSchema ==
  /\ pc = "schema"
  /\ col =< Len(schema)
  /\ \/ /\ redis' = [redis EXCEPT !.schema =
                       Put(@, schema[col].name, schema[col].isInt)]
        /\ UNCHANGED refused
     \/ refused' = [refused EXCEPT !.cols = @ \union {col}] /\ UNCHANGED redis
  /\ col' = col + 1
  /\ UNCHANGED <<file, pc, schema, line, row, rowCount, sum, count, results,
                 answered, missed>>

SchemaStored ==
  /\ pc = "schema"
  /\ col > Len(schema)
  /\ pc' = "row"
  /\ line' = 2
  /\ row' = 1
  /\ col' = 1
  /\ UNCHANGED <<file, redis, schema, rowCount, sum, count, results, history>>

(* What HSET may be given.  The first row has a field for every column:    *)
(* where it has no token, tokens[i] is uninitialised and any text may come *)
(* out.                                                                    *)
FieldText ==
  IF col \in DOMAIN Tokens(line) THEN {Tokens(line)[col]}
  ELSE IF line = 2 THEN {0, Word} ELSE {}

(* One field of a row. *)
HsetField ==
  /\ pc = "row"
  /\ col =< Len(schema)
  /\ \E text \in FieldText :
       \/ Hset(row, schema[col].name, text) /\ UNCHANGED refused
       \/ refused' = [refused EXCEPT !.rows = @ \union {row}] /\ UNCHANGED redis
  /\ col' = col + 1
  /\ UNCHANGED <<file, pc, schema, line, row, rowCount, sum, count, results,
                 answered, missed>>

(* Or the uninitialised pointer leads nowhere, and the process dies. *)
TokenCrash ==
  /\ pc = "row"
  /\ line = 2
  /\ col =< Len(schema)
  /\ col \notin DOMAIN Tokens(line)
  /\ pc' = "crashed"
  /\ UNCHANGED <<file, redis, schema, line, row, col, rowCount, sum, count,
                 results, history>>

RowStored ==
  col > Len(schema) \/ (col \notin DOMAIN Tokens(line) /\ line > 2)

(* An empty line is skipped; a line of commas alone is a row of no fields. *)
NextLine ==
  /\ pc = "row"
  /\ RowStored
  /\ line < Len(file)
  /\ line' = line + 1
  /\ row' = IF file[line + 1] = <<Empty>> THEN row ELSE row + 1
  /\ col' = IF file[line + 1] = <<Empty>> THEN Len(schema) + 1 ELSE 1
  /\ UNCHANGED <<file, redis, pc, schema, rowCount, sum, count, results, history>>

(* "Loaded %d rows, %d columns"; the load-only mode ends here. *)
Loaded ==
  /\ pc = "row"
  /\ RowStored
  /\ line = Len(file)
  /\ rowCount' = row
  /\ row' = 1
  /\ pc' \in {"gauss", "end"}
  /\ UNCHANGED <<file, redis, schema, line, col, sum, count, results, history>>

-----------------------------------------------------------------------------
(* The queries: rowCount commands each. *)

QueryOrder == [gauss |-> "all", all |-> "project", project |-> "aggregate",
               aggregate |-> "end"]

(* Mutant: small keys are not clamped. *)
KeyFromZero(z) == IF z > rowCount THEN rowCount ELSE z

(* gaussian_key: any integer, clamped to the rows. *)
GaussianKey(z) == IF z < 1 THEN 1 ELSE IF z > rowCount THEN rowCount ELSE z

(* HGETALL by the Gaussian select, or by the select of all rows; the reply *)
(* is not looked at, be it a row or an error.                              *)
Select ==
  /\ pc \in {"gauss", "all"}
  /\ row =< rowCount
  /\ \E z \in 0 .. (rowCount + 1) :
       LET r == IF pc = "gauss" THEN GaussianKey(z) ELSE row
       IN missed' \in {missed, IF Hash(r) = NoHash THEN missed \union {r} ELSE missed}
  /\ row' = row + 1
  /\ UNCHANGED <<file, redis, pc, schema, line, col, rowCount, sum, count,
                 results, refused, answered>>

Atoll(f) == IF f = Word THEN 0 ELSE f

Sum(g, n) ==
  LET s[k \in 0 .. n] == IF k = 0 THEN 0 ELSE s[k - 1] + g[k]
  IN s[n]

(* The int columns of a row that are found in its hash. *)
RowSum(hash) ==
  Sum([k \in 1 .. Len(schema) |->
         IF schema[k].isInt /\ schema[k].name \in DOMAIN hash
         THEN Atoll(hash[schema[k].name]) ELSE 0],
      Len(schema))

(* Mutant: a row is counted before its reply is looked at. *)
CountUnanswered ==
  /\ pc \in {"project", "aggregate"}
  /\ row =< rowCount
  /\ \/ /\ sum' = sum + RowSum(Hash(row))
        /\ answered' = [answered EXCEPT ![pc] = @ \union {row}]
     \/ UNCHANGED <<sum, answered>>
  /\ count' = IF pc = "project" THEN count + 1 ELSE count
  /\ row' = row + 1
  /\ UNCHANGED <<file, redis, pc, schema, line, col, rowCount, results,
                 refused, missed>>

(* HGETALL by the projection, which counts the rows, or by the             *)
(* aggregation: a row for which there is no array is left out.             *)
Add ==
  /\ pc \in {"project", "aggregate"}
  /\ row =< rowCount
  /\ \/ /\ sum' = sum + RowSum(Hash(row))
        /\ count' = IF pc = "project" THEN count + 1 ELSE count
        /\ answered' = [answered EXCEPT ![pc] = @ \union {row}]
     \/ UNCHANGED <<sum, count, answered>>
  /\ row' = row + 1
  /\ UNCHANGED <<file, redis, pc, schema, line, col, rowCount, results,
                 refused, missed>>

QueryOver ==
  /\ pc \in DOMAIN QueryOrder
  /\ row > rowCount
  /\ results' = CASE pc = "project" ->
                       [results EXCEPT !.total = sum, !.count = count]
                  [] pc = "aggregate" -> [results EXCEPT !.sum = sum]
                  [] OTHER -> results
  /\ pc' = QueryOrder[pc]
  /\ row' = 1
  /\ sum' = 0
  /\ UNCHANGED <<file, redis, schema, line, col, rowCount, count, history>>

Load ==
  \/ Parse \/ ParseFails \/ DelSchema \/ HsetSchema \/ SchemaStored
  \/ HsetField \/ TokenCrash \/ NextLine \/ Loaded
  \/ Select \/ Add \/ QueryOver

RedisNext ==
  \/ Connect \/ SetPersistence \/ PersistenceSet
  \/ Load /\ UNCHANGED server

RedisSpec == RedisInit /\ [][RedisNext]_redisVars

-----------------------------------------------------------------------------
(* What the file says *)

DataLines == {n \in 2 .. Len(file) : file[n] # <<Empty>>}

(* A name for every column, all different, and a field for every name.     *)
WellFormed ==
  /\ Len(file) >= 2
  /\ 2 \in DataLines
  /\ Len(file[1]) =< MaxCols
  /\ \A j, k \in DOMAIN file[1] : file[1][j] = file[1][k] => j = k
  /\ \A n \in DataLines \union {1} :
       /\ Len(file[n]) = Len(file[1])
       /\ \A k \in DOMAIN file[n] : file[n][k] # Empty

IntColumns == {k \in DOMAIN file[1] : IsInt(file[2][k])}

LineSum(n) ==
  Sum([k \in 1 .. Len(file[1]) |-> IF k \in IntColumns THEN Atoll(file[n][k]) ELSE 0],
      Len(file[1]))

(* The number of the row that a data line becomes. *)
RowOf(n) == Sum([m \in 1 .. Len(file) |-> IF m \in DataLines THEN 1 ELSE 0], n)

(* The sum of the int columns over some of the rows.                       *)
FileSum(rows) ==
  Sum([n \in 1 .. Len(file) |->
         IF n \in DataLines /\ RowOf(n) \in rows THEN LineSum(n) ELSE 0],
      Len(file))

(* Every variable has its type, and a query stays within the rows.         *)
RedisTypeOK ==
  /\ file \in Files
  /\ pc \in {"connect", "noServer", "config", "open", "del", "schema", "row",
             "crashed", "end"} \union DOMAIN QueryOrder
  /\ Len(schema) =< MaxCols
  /\ line \in 1 .. (Len(file) + 1)
  /\ row \in 0 .. (Len(file) + 1)
  /\ col \in 1 .. (IF pc = "config" THEN 4 ELSE MaxCols + 1)
  /\ conf \in Settings
  /\ ignored \in BOOLEAN
  /\ rowCount \in 0 .. Len(file)
  /\ sum \in Int
  /\ count \in 0 .. rowCount
  /\ refused \in [del : BOOLEAN, cols : SUBSET (1 .. MaxCols),
                  rows : SUBSET (1 .. Len(file))]
  /\ answered \in [{"project", "aggregate"} -> SUBSET (1 .. rowCount)]
  /\ missed \subseteq 1 .. rowCount

(***************************************************************************)
(* What the queries print of a well-formed file: the aggregation, the sum  *)
(* of its int columns over the rows it has been given an answer for; the   *)
(* projection, the average over the number of those it has been given one  *)
(* for.  Whatever an earlier load has left on the server, and whichever    *)
(* commands fail, as long as no row of these has lost a field: such a row  *)
(* counts with what the server has of it.                                  *)
(***************************************************************************)
SumIsOfTheFile ==
  pc = "end" /\ WellFormed =>
    /\ results.count = Cardinality(answered["project"])
    /\ answered["project"] \intersect refused.rows = {} =>
         results.total = FileSum(answered["project"])
    /\ answered["aggregate"] \intersect refused.rows = {} =>
         results.sum = FileSum(answered["aggregate"])

(***************************************************************************)
(* The rows counted as loaded are those of the file: each that has not     *)
(* lost a field is there with all its columns, and no select misses one.   *)
(***************************************************************************)
EveryRowIsFound ==
  WellFormed =>
    /\ missed \subseteq refused.rows
    /\ pc \in DOMAIN QueryOrder =>
         \A r \in (1 .. rowCount) \ refused.rows :
           {file[1][k] : k \in DOMAIN file[1]} \subseteq DOMAIN Hash(r)

(***************************************************************************)
(* After the load the stored schema has the file's columns and no others,  *)
(* but for those that the server did not take; an earlier schema stays in  *)
(* it only if the server did not delete it.                                *)
(***************************************************************************)
SchemaIsOfTheFile ==
  pc \in DOMAIN QueryOrder /\ WellFormed /\ ~refused.del =>
    redis.schema = [c \in {file[1][k] : k \in DOMAIN file[1] \ refused.cols} |->
                      \E k \in IntColumns : file[1][k] = c]

(***************************************************************************)
(* "[MODE] Non-persistent (RAM only)" and "[MODE] Persistent mode": from   *)
(* the load on, the server persists as this run was asked to, whatever its *)
(* file or an earlier run in the other mode had set; unless a CONFIG SET   *)
(* failed, which nobody notices.                                           *)
(***************************************************************************)
ModeIsAsPrinted ==
  pc \notin {"connect", "noServer", "config"} /\ ~ignored =>
    IF persistent THEN conf.appendonly = "yes" /\ conf.save = "60 1"
    ELSE conf.appendonly = "no" /\ conf.save = ""
=============================================================================
