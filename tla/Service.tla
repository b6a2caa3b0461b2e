------------------------------ MODULE Service ------------------------------
(***************************************************************************)
(* Services and how a request finds its answer: class service              *)
(* (service.cpp), the table of url objects (url.cpp), server::add_service  *)
(* (server.cpp), session::invoke_url_cb (session.cpp) and the MIME types   *)
(* (mime_types.cpp), used in the order of example/server/main.cpp:         *)
(* construct services, add them to the server, run.                        *)
(*                                                                         *)
(* The application may build any number of services, of class service or   *)
(* of a derived class that overrides invoke_cb, with url objects inserted, *)
(* and register them under any names.  Fields asked_root and inserted of a *)
(* service, and the variable latest, are history: what the application     *)
(* asked for.  Files come and go while the server runs.                    *)
(***************************************************************************)
EXTENDS Naturals, Sequences

CONSTANTS
  Name,            \* the service names a request's path may contain
  Root,            \* document roots an application asks for, "" for none
  Doc,             \* documents below a root
  Extension,       \* [Doc -> the characters of the document's extension]
  IndexDoc,        \* home.html
  File,            \* the files that may exist, as <<folder, document>>
  Methods,         \* methods of requests
  Prefix,          \* the urls the application inserts
  Nothing          \* no service, no response, no file, no url

Class == {"service", "own"}
Url == {"/"} \cup Doc

\* doc_root is a prefix of the file name: without one a document of a named
\* service, whose url starts with "/", is looked for from "/".
Folder == Root \cup {"views/", "", "/"}

ASSUME ServiceAssumption ==
  /\ "/" \in Name
  /\ IndexDoc \in Doc /\ "/" \notin Doc
  /\ Extension \in [Doc -> Seq(STRING)]
  /\ File \subseteq Folder \X Doc
  /\ Methods \subseteq STRING /\ Prefix \subseteq Url
  /\ Nothing \notin Url \cup (Folder \X Doc)

VARIABLES
  service,         \* the service object the application is working on
  m_services,      \* server::m_services: the registered copies by name
  running,         \* server::run was called
  files,           \* the files that exist
  response,        \* the last response, with the request it answers
  terminated,      \* an exception left a handler: the process is gone
  latest           \* the object last passed to add_service for each name

vars == <<service, m_services, running, files, response, terminated, latest>>

ServiceObject ==
  [class : Class, m_doc_root : {"views/", ""},
   m_urls : [{"/"} -> {{"GET"}}],
   asked_root : Root, inserted : Prefix \cup {Nothing}]

\* The table of mime_types.cpp.
MimeTypes ==
  { [extension |-> <<"g", "i", "f">>, mime_type |-> "image/gif"],
    [extension |-> <<"h", "t", "m">>, mime_type |-> "text/html"],
    [extension |-> <<"h", "t", "m", "l">>, mime_type |-> "text/html"],
    [extension |-> <<"j", "p", "g">>, mime_type |-> "image/jpeg"],
    [extension |-> <<"p", "n", "g">>, mime_type |-> "image/png"],
    [extension |-> <<"j", "s", "o", "n">>, mime_type |-> "application/json"] }

MimeType == {m.mime_type : m \in MimeTypes} \cup {"text/plain", ""}

Response ==
  [name : Name, method : Methods, url : Url,
   file_path : File \cup {Nothing}, mime_type : MimeType,
   by : {"index_cb", "m_get_static", "nobody"}, error_response : BOOLEAN]

TypeOK ==
  /\ service \in ServiceObject \cup {Nothing}
  /\ m_services \in [DOMAIN latest -> ServiceObject]
  /\ DOMAIN latest \subseteq Name \ {""}
  /\ latest \in [DOMAIN latest -> ServiceObject]
  /\ running \in BOOLEAN /\ terminated \in BOOLEAN
  /\ files \subseteq File
  /\ response \in Response \cup {Nothing}
  /\ response # Nothing => running

---------------------------------------------------------------------------
(* What a service answers; "by" names the code the answer comes from.      *)

ExtensionToType(extension) ==
  IF \E m \in MimeTypes : m.extension = extension
  THEN (CHOOSE m \in MimeTypes : m.extension = extension).mime_type
  ELSE "text/plain"

\* m_get_static copies sizeof(const char *) - 1 = 7 bytes of the extension,
\* whatever its length: a shorter one with its terminator and what follows.
\* No entry of the table contains a terminator.
CopiedExtension(extension) ==
  [i \in 1..7 |-> IF i <= Len(extension) THEN extension[i] ELSE "NUL"]

Answer(file_path, mime_type, by) ==
  [file_path |-> file_path, mime_type |-> mime_type, by |-> by]

NoAnswer == Answer(Nothing, "", "nobody")

IndexCb(doc_root) ==
  IF <<doc_root, IndexDoc>> \in files
  THEN Answer(<<doc_root, IndexDoc>>,
              ExtensionToType(<<"h", "t", "m", "l">>), "index_cb")
  ELSE NoAnswer

FolderOf(doc_root, name) ==
  IF doc_root = "" /\ name # "/" THEN "/" ELSE doc_root

GetStatic(doc_root, name, doc) ==
  LET file_path == <<FolderOf(doc_root, name), doc>>
  IN  IF file_path \in files
      THEN Answer(file_path, ExtensionToType(CopiedExtension(Extension[doc])),
                  "m_get_static")
      ELSE NoAnswer

MethodType(method) ==
  IF method \in {"GET", "POST", "PUT"} THEN method ELSE "DELETE"

\* url::invoke_callback: std::map::at throws for a method with no callback.
Throws(s, method, url) ==
  url \in DOMAIN s.m_urls /\ MethodType(method) \notin s.m_urls[url]

InvokeCb(s, name, url) ==
  IF url \in DOMAIN s.m_urls THEN IndexCb(s.m_doc_root)
                              ELSE GetStatic(s.m_doc_root, name, url)

\* session::invoke_url_cb; both an unknown service and an answer without a
\* file are an error response.
InvokeUrlCb(name, method, url) ==
  LET answer == IF name \in DOMAIN m_services
                THEN InvokeCb(m_services[name], name, url)
                ELSE NoAnswer
  IN  [name |-> name, method |-> method, url |-> url,
       file_path |-> answer.file_path, mime_type |-> answer.mime_type,
       by |-> answer.by, error_response |-> answer.file_path = Nothing]

---------------------------------------------------------------------------
(* The application.                                                        *)

Init ==
  /\ service = Nothing
  /\ m_services = <<>> /\ latest = <<>>
  /\ running = FALSE /\ terminated = FALSE
  /\ files = {}
  /\ response = Nothing

\* service::service.  A root that is given is not stored.
Construct(class, doc_root) ==
  /\ ~running
  /\ service' = [class      |-> class,
                 m_doc_root |-> IF doc_root = "" THEN "views/" ELSE "",
                 m_urls     |-> [u \in {"/"} |-> {"GET"}],
                 asked_root |-> doc_root,
                 inserted   |-> Nothing]
  /\ UNCHANGED <<m_services, running, files, response, terminated, latest>>

\* service::insert_url, whose body is empty.
InsertUrl(url) ==
  /\ ~running /\ service # Nothing
  /\ service' = [service EXCEPT !.inserted = url]
  /\ UNCHANGED <<m_services, running, files, response, terminated, latest>>

Put(map, key, value) ==
  [k \in DOMAIN map \cup {key} |-> IF k = key THEN value ELSE map[k]]

\* What is registered is a copy by value, of class service.
Sliced(s) == [s EXCEPT !.class = "service"]

\* Mutant: the default name is kept as it is.
RegisteredName_Kept(name) == name

RegisteredName(name) == IF name = "" THEN "/" ELSE name

\* Mutant: std::map::insert alone, which keeps the entry there is.
AddService_InsertOnly(name) ==
  /\ ~running /\ service # Nothing
  /\ m_services' = IF RegisteredName(name) \in DOMAIN m_services THEN m_services
                   ELSE Put(m_services, RegisteredName(name), Sliced(service))
  /\ latest' = Put(latest, RegisteredName(name), service)
  /\ UNCHANGED <<service, running, files, response, terminated>>

\* server::add_service.
AddService(name) ==
  /\ ~running /\ service # Nothing
  /\ m_services' = Put(m_services, RegisteredName(name), Sliced(service))
  /\ latest' = Put(latest, RegisteredName(name), service)
  /\ UNCHANGED <<service, running, files, response, terminated>>

Run ==
  /\ ~running
  /\ running' = TRUE
  /\ UNCHANGED <<service, m_services, files, response, terminated, latest>>

---------------------------------------------------------------------------
(* The server at work.                                                     *)

Request(name, method, url) ==
  /\ running /\ ~terminated
  /\ IF name \in DOMAIN m_services /\ Throws(m_services[name], method, url)
     THEN /\ terminated' = TRUE
          /\ UNCHANGED response
     ELSE /\ response' = InvokeUrlCb(name, method, url)
          /\ UNCHANGED terminated
  /\ UNCHANGED <<service, m_services, running, files, latest>>

\* Other programs add and remove files, which nobody sees before run.
EditFile(file) ==
  /\ running
  /\ files' = IF file \in files THEN files \ {file} ELSE files \cup {file}
  /\ UNCHANGED <<service, m_services, running, response, terminated, latest>>

Next ==
  \/ \E class \in Class, doc_root \in Root : Construct(class, doc_root)
  \/ \E url \in Prefix : InsertUrl(url)
  \/ \E name \in Name \cup {""} : AddService(name)
  \/ Run
  \/ \E name \in Name, method \in Methods, url \in Url :
       Request(name, method, url)
  \/ \E file \in File : EditFile(file)

Spec == Init /\ [][Next]_vars

---------------------------------------------------------------------------
(* Properties.                                                             *)

\* The answer the latest registration of a name promises: its index page or
\* the document below its root, if that file exists, and an error otherwise.
ExpectedFile(name, url) ==
  IF name \notin DOMAIN latest THEN Nothing
  ELSE LET root == latest[name].m_doc_root
           file == IF url = "/" THEN <<root, IndexDoc>>
                   ELSE <<FolderOf(root, name), url>>
       IN  IF file \in files THEN file ELSE Nothing

\* "If service with the name is already registered it will update it"
\* (server.cpp:63): every request is answered by the service registered last
\* under its name, from the files that exist at that moment, or with an
\* error; however often names were registered and files came and went.
AnsweredByLatest ==
  [][response' # response =>
       LET expected == ExpectedFile(response'.name, response'.url)
       IN  /\ response'.file_path = expected
           /\ response'.error_response <=> expected = Nothing]_vars

\* A service answers from the document root it was given: "set doc_root to
\* service_name/views to make it ok to grab the static files" (service.hpp:37-38).
\* The constructor of service.cpp stores only the default.
DocRootAsGiven ==
  response # Nothing /\ response.file_path # Nothing =>
    \/ latest[response.name].asked_root = ""
    \/ response.file_path[1] = latest[response.name].asked_root

\* "you can write your own class implementation" and "insert url objects
\* which can hold diffetent callbacks" (service.hpp:22-25): what the
\* application provides for a request is not left to the code of the base.
\* insert_url does nothing, and add_service stores the base class by value.
OwnCodeAnswers ==
  response # Nothing /\ response.name \in DOMAIN latest
      /\ response.by \in {"index_cb", "m_get_static", "nobody"} =>
    LET s == latest[response.name]
    IN  /\ response.method = "GET" => response.url # s.inserted
        /\ response.by # "nobody" => s.class = "service"

\* A document with an extension of the table is served with its type, as
\* mime_types.cpp:9 has it for jpg.  The copied extension never matches.
TypeOfExtension ==
  response # Nothing /\ response.file_path # Nothing =>
    response.mime_type = ExtensionToType(Extension[response.file_path[2]])
=============================================================================
