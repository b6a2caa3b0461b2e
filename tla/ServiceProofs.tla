--------------------------- MODULE ServiceProofs ---------------------------
(* Proofs about Service, for any names, roots, documents and files.  The   *)
(* inductive invariant adds to the types that a registered copy looks in   *)
(* the same folder and has the same callbacks as the object last passed to *)
(* add_service under its name.                                             *)
EXTENDS Service, TLAPS

SameService ==
  \A name \in DOMAIN latest :
    /\ m_services[name].m_doc_root = latest[name].m_doc_root
    /\ m_services[name].m_urls = latest[name].m_urls

IInv == TypeOK /\ SameService

\* A response has its type, whatever is registered and whatever exists.
LEMMA ResponseType ==
  ASSUME TypeOK, NEW name \in Name, NEW method \in Methods, NEW url \in Url
  PROVE  InvokeUrlCb(name, method, url) \in Response
<1> DEFINE IsAnswer(a) ==
      /\ a.file_path \in File \cup {Nothing}
      /\ a.mime_type \in MimeType
      /\ a.by \in {"index_cb", "m_get_static", "nobody"}
<1>1. ASSUME NEW e PROVE ExtensionToType(e) \in MimeType
  <2> DEFINE known == \E m \in MimeTypes : m.extension = e
             entry == CHOOSE m \in MimeTypes : m.extension = e
  <2>1. known => entry \in MimeTypes
    OBVIOUS
  <2>2. ExtensionToType(e) = IF known THEN entry.mime_type ELSE "text/plain"
    BY DEF ExtensionToType
  <2> HIDE DEF known, entry
  <2>3. QED
    BY <2>1, <2>2 DEF MimeType
<1>2. ASSUME NEW f \in files, NEW type \in MimeType,
             NEW by \in {"index_cb", "m_get_static"}
      PROVE  IsAnswer(Answer(f, type, by))
  <2>1. f \in File
    BY DEF TypeOK
  <2>2. QED
    BY <2>1 DEF Answer
<1>3. IsAnswer(NoAnswer)
  BY DEF NoAnswer, Answer, MimeType
<1> HIDE DEF IsAnswer
<1>4. ASSUME NEW r PROVE IsAnswer(IndexCb(r))
  BY <1>1, <1>2, <1>3 DEF IndexCb
<1>5. ASSUME NEW r, NEW n, NEW d PROVE IsAnswer(GetStatic(r, n, d))
  BY <1>1, <1>2, <1>3 DEF GetStatic
<1> DEFINE answer == IF name \in DOMAIN m_services
                     THEN InvokeCb(m_services[name], name, url)
                     ELSE NoAnswer
<1>6. IsAnswer(answer)
  BY <1>3, <1>4, <1>5 DEF InvokeCb
<1> HIDE DEF answer
<1>7. InvokeUrlCb(name, method, url) =
        [name |-> name, method |-> method, url |-> url,
         file_path |-> answer.file_path, mime_type |-> answer.mime_type,
         by |-> answer.by, error_response |-> answer.file_path = Nothing]
  BY DEF InvokeUrlCb, answer
<1>8. QED
  BY <1>6, <1>7 DEF IsAnswer, Response

LEMMA InitIInv == Init => IInv
<1> SUFFICES ASSUME Init PROVE IInv
  OBVIOUS
<1>1. /\ DOMAIN latest = {}
      /\ latest \in [{} -> ServiceObject]
      /\ m_services \in [{} -> ServiceObject]
  BY DEF Init
<1>2. QED
  BY <1>1 DEF Init, IInv, TypeOK, SameService

LEMMA NextIInv == IInv /\ [Next]_vars => IInv'
<1> SUFFICES ASSUME IInv, [Next]_vars PROVE IInv'
  OBVIOUS
<1> USE DEF IInv, SameService
<1>1. ASSUME NEW class \in Class, NEW doc_root \in Root, Construct(class, doc_root)
      PROVE  IInv'
  <2>1. service' \in ServiceObject
    <3>1. [u \in {"/"} |-> {"GET"}] \in [{"/"} -> {{"GET"}}]
      OBVIOUS
    <3> DEFINE root == IF doc_root = "" THEN "views/" ELSE ""
               urls == [u \in {"/"} |-> {"GET"}]
    <3>2. root \in {"views/", ""}
      OBVIOUS
    <3>3. service' = [class |-> class, m_doc_root |-> root, m_urls |-> urls,
                      asked_root |-> doc_root, inserted |-> Nothing]
      BY <1>1 DEF Construct
    <3> HIDE DEF root, urls
    <3>4. urls \in [{"/"} -> {{"GET"}}]
      BY <3>1 DEF urls
    <3>5. QED
      BY <3>2, <3>3, <3>4 DEF ServiceObject
  <2>2. QED
    BY <1>1, <2>1 DEF Construct, TypeOK
<1>2. ASSUME NEW url \in Prefix, InsertUrl(url) PROVE IInv'
  <2>1. service' \in ServiceObject
    BY <1>2 DEF InsertUrl, TypeOK, ServiceObject
  <2>2. QED
    BY <1>2, <2>1 DEF InsertUrl, TypeOK
<1>3. ASSUME NEW name \in Name \cup {""}, AddService(name) PROVE IInv'
  <2> DEFINE key == RegisteredName(name)
  <2>1. key \in Name \ {""}
    BY ServiceAssumption DEF RegisteredName
  <2>2. service \in ServiceObject
    BY <1>3 DEF AddService, TypeOK
  <2>3. /\ Sliced(service) \in ServiceObject
        /\ Sliced(service).m_doc_root = service.m_doc_root
        /\ Sliced(service).m_urls = service.m_urls
    BY <2>2 DEF Sliced, ServiceObject, Class
  <2>4. /\ latest \in [DOMAIN latest -> ServiceObject]
        /\ m_services \in [DOMAIN latest -> ServiceObject]
    BY DEF TypeOK
  <2> HIDE DEF key
  <2>5. /\ latest' \in [DOMAIN latest \cup {key} -> ServiceObject]
        /\ DOMAIN latest' = DOMAIN latest \cup {key}
        /\ latest'[key] = service
        /\ \A k \in DOMAIN latest \ {key} : latest'[k] = latest[k]
    <3>1. latest' = Put(latest, key, service)
      BY <1>3 DEF AddService, key
    <3>2. QED
      BY <2>2, <2>4, <3>1 DEF Put
  <2>6. /\ m_services' \in [DOMAIN latest \cup {key} -> ServiceObject]
        /\ m_services'[key] = Sliced(service)
        /\ \A k \in DOMAIN latest \ {key} : m_services'[k] = m_services[k]
    <3>1. m_services' = Put(m_services, key, Sliced(service))
      BY <1>3 DEF AddService, key
    <3>2. QED
      BY <2>3, <2>4, <3>1 DEF Put
  <2>7. TypeOK'
    BY <1>3, <2>1, <2>5, <2>6 DEF AddService, TypeOK
  <2>8. SameService'
    BY <2>3, <2>5, <2>6
  <2>9. QED
    BY <2>7, <2>8
<1>4. CASE Run
  BY <1>4 DEF Run, TypeOK
<1>5. ASSUME NEW name \in Name, NEW method \in Methods, NEW url \in Url,
             Request(name, method, url)
      PROVE  IInv'
  <2>1. InvokeUrlCb(name, method, url) \in Response
    BY ResponseType
  <2>2. QED
    BY <1>5, <2>1 DEF Request, TypeOK
<1>6. ASSUME NEW file \in File, EditFile(file) PROVE IInv'
  BY <1>6 DEF EditFile, TypeOK
<1>7. CASE UNCHANGED vars
  BY <1>7 DEF vars, TypeOK
<1>8. QED
  BY <1>1, <1>2, <1>3, <1>4, <1>5, <1>6, <1>7 DEF Next

\* What is asked for and what is answered keep their types, and no service is
\* registered under the empty name (server::add_service).
THEOREM TypeCorrect == Spec => []TypeOK
<1>1. IInv => TypeOK
  BY DEF IInv
<1>2. QED
  BY InitIInv, NextIInv, <1>1, PTL DEF Spec

\* One request: the copy that answers it looks where the object last
\* registered under its name would have looked.
LEMMA AnswerOfRequest ==
  ASSUME IInv, NEW name \in Name, NEW method \in Methods, NEW url \in Url,
         Request(name, method, url), ~terminated'
  PROVE  /\ response'.name = name /\ response'.url = url
         /\ response'.file_path = ExpectedFile(name, url)
         /\ response'.error_response <=> ExpectedFile(name, url) = Nothing
<1>1. response' = InvokeUrlCb(name, method, url)
  BY DEF Request
<1>2. NoAnswer.file_path = Nothing
  BY DEF NoAnswer, Answer
<1>3. CASE name \notin DOMAIN latest
  <2>1. name \notin DOMAIN m_services
    BY <1>3 DEF IInv, TypeOK
  <2>2. QED
    BY <1>1, <1>2, <1>3, <2>1 DEF InvokeUrlCb, ExpectedFile
<1>4. CASE name \in DOMAIN latest
  <2> DEFINE root == latest[name].m_doc_root
  <2>1. /\ name \in DOMAIN m_services
        /\ m_services[name].m_doc_root = root
        /\ DOMAIN m_services[name].m_urls = {"/"}
    BY <1>4 DEF IInv, TypeOK, SameService, ServiceObject
  <2> HIDE DEF root
  <2>2. CASE url = "/"
    <3>1. InvokeCb(m_services[name], name, url) = IndexCb(root)
      BY <2>1, <2>2 DEF InvokeCb
    <3>2. IndexCb(root).file_path = ExpectedFile(name, url)
      BY <1>2, <1>4, <2>2 DEF IndexCb, Answer, ExpectedFile, root
    <3>3. QED
      BY <1>1, <2>1, <3>1, <3>2 DEF InvokeUrlCb
  <2>3. CASE url # "/"
    <3>1. InvokeCb(m_services[name], name, url) = GetStatic(root, name, url)
      BY <2>1, <2>3 DEF InvokeCb
    <3>2. GetStatic(root, name, url).file_path = ExpectedFile(name, url)
      BY <1>2, <1>4, <2>3 DEF GetStatic, Answer, ExpectedFile, root
    <3>3. QED
      BY <1>1, <2>1, <3>1, <3>2 DEF InvokeUrlCb
  <2>4. QED
    BY <2>2, <2>3
<1>5. QED
  BY <1>3, <1>4

\* Every request is answered from the folder of the service registered last
\* under its name, if the file exists, and with an error otherwise
\* (session::invoke_url_cb, service::invoke_cb).
THEOREM LatestAnswers == Spec => AnsweredByLatest
<1>1. ASSUME IInv, [Next]_vars, response' # response
      PROVE  LET expected == ExpectedFile(response'.name, response'.url)
             IN  /\ response'.file_path = expected
                 /\ response'.error_response <=> expected = Nothing
  <2>1. PICK name \in Name, method \in Methods, url \in Url :
          Request(name, method, url)
    BY <1>1 DEF Next, vars, Construct, InsertUrl, AddService, Run, EditFile
  <2>2. ~terminated'
    BY <1>1, <2>1 DEF Request
  <2>3. QED
    BY <1>1, <2>1, <2>2, AnswerOfRequest
<1>2. QED
  BY InitIInv, NextIInv, <1>1, PTL DEF Spec, AnsweredByLatest
=============================================================================
