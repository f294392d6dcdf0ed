------------------------------ MODULE MC_Readers ------------------------------
(* Those who read the tables while others write, one topic at a time.        *)
(* The pool: more requests and streams than it has connections.              *)
(* Status: three clients that change the status of one complaint.            *)
(* Walks: a client pages through a list while complaints arrive.             *)
(* The bus: one client (streams share only the ring), three complaints, a    *)
(* ring of two events and a queue of one: ring and queue both overflow.      *)
(* The pages: five complaints, one from before the window, about two peers,  *)
(* a cooperative and an institution without a cohort; every limit is met.    *)
EXTENDS ComplaintStatus, PagedReads, SSEBus, Dashboards, ConnectionPool

CONSTANTS c1, c2, c3, v1, f1, f2, f3
MCClients == {c1, c2, c3}

MCRows == {<<1, 3>>, <<2, 1>>, <<2, 2>>}
MCWalkOf == [pendiente |-> [list |-> "complaints", filter |-> "pendiente", pages |-> 4],
             rejections |-> [list |-> "rejections", filter |-> "none", pages |-> 2]]

MCViewers == {v1}
MCFacts == {f1, f2, f3}

Banco    == [id |-> "banco", head |-> "banco", tier |-> "large"]
Rival    == [id |-> "rival", head |-> "banco", tier |-> "large"]
Coopac   == [id |-> "coopac", head |-> "coopac", tier |-> "mid"]
Unranked == [id |-> "unranked", head |-> "edpyme", tier |-> "huge"]

Arrival(id, institution, motivo, at, tipo, terms) ==
  [id |-> id, institution |-> institution, motivo |-> motivo, at |-> at, tipo |-> tipo,
   status |-> IF tipo = "none" THEN "pendiente" ELSE "atendido",
   terms |-> terms, mapped |-> terms # 1]
MCArrivals ==
  {Arrival(1, Banco, "m1", -1, "none", 4), Arrival(2, Banco, "m1", 2, "favor_usuario", 1),
   Arrival(3, Rival, "m1", 1, "favor_entidad", 0), Arrival(4, Coopac, "m2", 1, "solucion_parcial", 0),
   Arrival(5, Unranked, "m1", 2, "other", 0)}

VARIABLE topic

readersVars == <<vars, paging, busVars, dashboardVars, poolVars, topic>>

ReadersInit ==
  /\ Init /\ PagingInit /\ BusInit /\ DashboardsInit /\ PoolInit
  /\ topic \in {"status", "bus", "pages", "pool"} \cup Walkers
  /\ topic \in Walkers \/ present = {}
  /\ topic = "pages" \/ page = "tile"
ReadersNext ==
  \/ topic = "status" /\ Next /\ UNCHANGED <<paging, busVars, dashboardVars, poolVars, topic>>
  \/ /\ topic \in Walkers /\ PagingNext
     /\ UNCHANGED <<vars, busVars, dashboardVars, poolVars, topic>>
     /\ \A w \in Walkers \ {topic} : walk'[w] = "idle"
  \/ topic = "bus" /\ BusNext /\ UNCHANGED <<vars, paging, dashboardVars, poolVars, topic>>
  \/ topic = "pages" /\ DashboardsNext /\ UNCHANGED <<vars, paging, busVars, poolVars, topic>>
  \/ topic = "pool" /\ PoolNext /\ UNCHANGED <<vars, paging, busVars, dashboardVars, topic>>

\* The fairness of the streams.
ReadersSpec ==
  /\ ReadersInit /\ [][ReadersNext]_readersVars
  /\ \A c \in Viewers :
       WF_busVars(topic = "bus" /\ BusFairness(c)
                    /\ UNCHANGED <<vars, paging, dashboardVars, poolVars, topic>>)
=============================================================================
