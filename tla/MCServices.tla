----------------------------- MODULE MCServices -----------------------------
(***************************************************************************)
(* The parts that share nothing with one another but the server they run   *)
(* in, checked side by side: the first state picks the one that moves, so  *)
(* that the states add up instead of multiplying.  Requests, businesses    *)
(* and phones are interchangeable in each of them.                         *)
(***************************************************************************)
EXTENDS
  Chats, Broadcasts, Orders, Backups, Migrations, Tokens, Directory, Aliases, Corpus, TLC

CONSTANTS a1, a2, a3, b1, b2, p1, u1, ga, gb, gc, s1

VARIABLE turn   \* the part that moves

SeedPairs == {<<ga, gb>>}
AlikePairs == {<<ga, gc>>}
LongestFirst == <<ga, gb>>

Symmetry == Permutations({a1, a2, a3}) \cup Permutations({b1, b2})

Parts == {"intents", "chats", "broadcasts", "orders", "backups", "migrations", "tokens", "directory", "aliases", "corpus"}

\* What does not move starts somewhere.
Settled ==
  /\ turn # "chats" => member = [p \in Phones |-> <<>>]
  /\ turn # "broadcasts" => /\ \A x \in DOMAIN customer : customer[x] = "none"
                            /\ \A p \in Numbers : worksFor[p] = Nil
  /\ turn # "backups" => env = "store"

ServicesInit ==
  /\ turn \in Parts
  /\ IntentsInit /\ ChatsInit /\ BroadcastsInit /\ OrdersInit /\ BackupsInit /\ MigrationsInit
  /\ TokensInit /\ DirectoryInit /\ AliasesInit /\ CorpusInit
  /\ Settled

IntentsStep ==
  /\ turn = "intents" /\ IntentsNext
  /\ UNCHANGED <<turn, orderVars, chatVars, broadcastVars, backupVars, migrationVars, tokenVars, directoryVars, aliasVars, corpusVars>>
ChatsStep ==
  /\ turn = "chats" /\ ChatsNext
  /\ UNCHANGED <<turn, orderVars, intent, broadcastVars, backupVars, migrationVars, tokenVars, directoryVars, aliasVars, corpusVars>>
BroadcastsStep ==
  /\ turn = "broadcasts" /\ BroadcastsNext
  /\ UNCHANGED <<turn, orderVars, intent, chatVars, backupVars, migrationVars, tokenVars, directoryVars, aliasVars, corpusVars>>
BackupsStep ==
  /\ turn = "backups" /\ BackupsNext
  /\ UNCHANGED <<turn, orderVars, intent, chatVars, broadcastVars, migrationVars, tokenVars, directoryVars, aliasVars, corpusVars>>
MigrationsStep ==
  /\ turn = "migrations" /\ MigrationsNext
  /\ UNCHANGED <<turn, orderVars, intent, chatVars, broadcastVars, backupVars, tokenVars, directoryVars, aliasVars, corpusVars>>
TokensStep ==
  /\ turn = "tokens" /\ TokensNext
  /\ UNCHANGED <<turn, orderVars, intent, chatVars, broadcastVars, backupVars, migrationVars, directoryVars, aliasVars, corpusVars>>
DirectoryStep ==
  /\ turn = "directory" /\ DirectoryNext
  /\ UNCHANGED <<turn, orderVars, intent, chatVars, broadcastVars, backupVars, migrationVars, tokenVars, aliasVars, corpusVars>>
AliasesStep ==
  /\ turn = "aliases" /\ AliasesNext
  /\ UNCHANGED <<turn, orderVars, intent, chatVars, broadcastVars, backupVars, migrationVars, tokenVars, directoryVars, corpusVars>>

CorpusStep ==
  /\ turn = "corpus" /\ CorpusNext
  /\ UNCHANGED <<turn, orderVars, intent, chatVars, broadcastVars, backupVars, migrationVars, tokenVars, directoryVars, aliasVars>>

OrdersStep ==
  /\ turn = "orders" /\ OrdersNext
  /\ UNCHANGED <<turn, intent, chatVars, broadcastVars, backupVars, migrationVars, tokenVars, directoryVars, aliasVars, corpusVars>>

ServicesNext ==
  \/ OrdersStep \/ IntentsStep \/ ChatsStep \/ BroadcastsStep \/ BackupsStep
  \/ MigrationsStep \/ TokensStep \/ DirectoryStep \/ AliasesStep \/ CorpusStep

servicesVars ==
  <<turn, orderVars, intent, chatVars, broadcastVars, backupVars, migrationVars, tokenVars, directoryVars, aliasVars, corpusVars>>

ServicesSpec == ServicesInit /\ [][ServicesNext]_servicesVars

=============================================================================
